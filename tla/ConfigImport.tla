----------------------------- MODULE ConfigImport -----------------------------
(***************************************************************************)
(* Exports, previews and imports of the configuration, end to end: a file  *)
(* is applied item by item, each in a transaction of its own, or previewed *)
(* by the same handlers without a write.  In the network sections later    *)
(* items rest on earlier ones of the same file, so that an import keeps a  *)
(* plan.                                                                   *)
(***************************************************************************)
EXTENDS ConfigSections

CONSTANTS Deployments,   \* the tables there may be at first, as [t, net]
          Files,         \* files written by hand, beside the exported ones
          Granted,       \* the keys that were granted each route
          MaxImports, MaxUpsets

ASSUME ImportAssumption ==
  /\ \A f \in Files : \A i, j \in DOMAIN f : i < j =>
       /\ At(f[i].section) <= At(f[j].section)
       /\ f[i].section = f[j].section =>
            f[i].section \in {"firewall_openings", "port_usages"} \/ f[i].name # f[j].name
  /\ {MaxImports, MaxUpsets} \subseteq Nat
  /\ \A w \in Deployments : w.t.warn <= w.t.crit

VARIABLES
  target,   \* the tables, but for those of the network map
  live,     \* clients, scrape targets, alert state and limits of the process
  file,
  import,   \* the one that runs
  last,     \* what the one before it told, while nothing else has happened
  imports, upsets

importVars == <<target, live, file, import, last, imports, upsets>>

Here == [t |-> target, net |-> netmap, live |-> live]
Tables(w) == [t |-> w.t, net |-> w.net]
Becomes(w) == target' = w.t /\ netmap' = w.net /\ live' = w.live

Nothing == [kind |-> "nothing", rows |-> <<>>, world |-> <<>>]
NoImport == [on |-> FALSE, dry |-> FALSE, i |-> 1, rows |-> <<>>, plan |-> <<>>, synced |-> {}, clean |-> TRUE]

Untouched == UNCHANGED <<target, live, netmap, mapEdits>>

EnabledRows(w, section) ==
  {<<k, w.t.rows[k]>> : k \in {x \in DOMAIN w.t.rows : x[1] = section /\ w.t.rows[x].on}}
AtBoot(w) ==
  [clients |-> [k \in {x \in DOMAIN w.t.rows : x[1] \in Clients} |-> w.t.rows[k]],
   targets |-> UNION {EnabledRows(w, section) : section \in Scraped},
   alerts |-> {k \in DOMAIN w.t.rows : k[1] \in Scraped}, limit |-> w.t.limit]

-------------------------------------------------------------------------------
ImportInit ==
  /\ \E w \in Deployments : target = w.t /\ netmap = w.net /\ live = AtBoot(w)
  /\ mapEdits = 0
  /\ file \in Files \cup {Exported(w) : w \in Deployments}
  /\ import = NoImport /\ last = Nothing /\ imports = 0 /\ upsets = 0

Export ==
  /\ ~import.on /\ imports < MaxImports /\ last.kind # "export"
  /\ file' = Exported(Here)
  /\ last' = [kind |-> "export", rows |-> <<>>, world |-> Tables(Here)]
  /\ Untouched /\ UNCHANGED <<import, imports, upsets>>

ImportStarts(dry) ==
  /\ ~import.on /\ imports < MaxImports
  /\ imports' = imports + 1 /\ import' = [NoImport EXCEPT !.on = TRUE, !.dry = dry]
  /\ Untouched /\ UNCHANGED <<file, last, upsets>>

(* Mutant: only a host that is new.                                        *)
CreatedIn(section) == \E j \in DOMAIN import.rows : file[j].section = section /\ import.rows[j] = "create"

(* ctx.applied: the section wrote something.  What follows a section then, *)
(* once, after its last item: the grants are put on the whitelists, the    *)
(* scrape targets are written anew.                                        *)
WroteIn(section) == \E j \in DOMAIN import.rows : file[j].section = section /\ import.rows[j] \in Writes

SyncDue(section) ==
  /\ import.on /\ ~import.dry /\ section \in ({"routes"} \cup Scraped) \ import.synced /\ WroteIn(section)
  /\ import.i <= Len(file) => At(file[import.i].section) > At(section)
NoSyncDue == \A section \in {"routes"} \cup Scraped : ~SyncDue(section)

(* The network items go by the plan, which the first of them loads.        *)
SeenBy(it) == IF it.section \in NetSections /\ import.plan # <<>> THEN import.plan[1] ELSE Here

(* Mutant: a preview does not carry over what it would have created.       *)
PlanOfTheTables(it, w, verdict) ==
  IF it.section \notin NetSections THEN <<>>
  ELSE IF verdict \in Writes /\ ~import.dry THEN <<Written(it, w, w)>> ELSE <<w>>

PlanAfter(it, w, verdict) ==
  IF it.section \notin NetSections THEN <<>>
  ELSE IF verdict \in Writes THEN <<Written(it, w, w)>> ELSE <<w>>

Row(action, plan, clean) ==
  import' = [import EXCEPT !.i = @ + 1, !.rows = Append(@, action), !.plan = plan, !.clean = @ /\ clean]

Ready == import.on /\ import.i <= Len(file) /\ NoSyncDue
Before == {file[j] : j \in 1..(import.i - 1)}

ImportItem ==
  /\ Ready
  /\ LET it == file[import.i]
         w == SeenBy(it)
         verdict == Verdict(it, w, Before)
     IN IF import.dry \/ verdict \notin Writes
        THEN Row(verdict, PlanAfter(it, w, verdict), TRUE) /\ UNCHANGED <<target, live, netmap>>
        ELSE IF Conflicts(it, w, Here)
        THEN Row("error", PlanAfter(it, w, "error"), TRUE) /\ UNCHANGED <<target, live, netmap>>
        ELSE Row(verdict, PlanAfter(it, w, verdict), TRUE) /\ Becomes(Written(it, Here, w))
  /\ UNCHANGED <<file, last, imports, upsets, mapEdits>>

(* _sync_route_grants: the pass over every key-auth route.                 *)
SyncGrants ==
  /\ SyncDue("routes")
  /\ target' = [target EXCEPT !.routes =
       [r \in DOMAIN @ |-> IF @[r].key THEN [@[r] EXCEPT !.white = WithMasters((@ \ Keys) \cup Granted[r])] ELSE @[r]]]
  /\ import' = [import EXCEPT !.synced = @ \cup {"routes"}]
  /\ UNCHANGED <<live, file, last, imports, upsets, netVars>>

SyncTargets(section) ==
  /\ section \in Scraped /\ SyncDue(section)
  /\ live' = [live EXCEPT !.targets = {x \in @ : x[1][1] # section} \cup EnabledRows(Here, section)]
  /\ import' = [import EXCEPT !.synced = @ \cup {section}]
  /\ UNCHANGED <<target, file, last, imports, upsets, netVars>>

ImportEnds ==
  /\ import.on /\ import.i > Len(file) /\ NoSyncDue
  /\ last' = IF import.clean
             THEN [kind |-> IF import.dry THEN "preview" ELSE "apply", rows |-> import.rows, world |-> Tables(Here)]
             ELSE Nothing
  /\ import' = NoImport
  /\ Untouched /\ UNCHANGED <<file, imports, upsets>>

-------------------------------------------------------------------------------
Upset == upsets < MaxUpsets /\ upsets' = upsets + 1

(* A write fails: the item is rolled back and told as an error, and the    *)
(* rest goes on.  What fails after the commit, or after APISIX took the    *)
(* route, is told as an error too, and what would follow is not done.      *)
ItemFails ==
  /\ Upset /\ Ready /\ ~import.dry
  /\ LET it == file[import.i]
         w == SeenBy(it)
     IN /\ Verdict(it, w, Before) \in Writes
        /\ Row("error", PlanAfter(it, w, "error"), FALSE)
        /\ \/ Becomes(Here)
           \/ ~Conflicts(it, w, Here) /\ Becomes([Written(it, Here, w) EXCEPT !.live = live])
  /\ UNCHANGED <<file, last, imports, mapEdits>>

(* A client cannot be built from the new row: the old one is gone, and the *)
(* item is told as written.                                                *)
ClientFails ==
  /\ Upset /\ Ready /\ ~import.dry
  /\ LET it == file[import.i]
         w == Written(it, Here, Here)
     IN /\ it.section \in Clients /\ Verdict(it, Here, Before) \in Writes
        /\ Row(Verdict(it, Here, Before), <<>>, FALSE)
        /\ Becomes([w EXCEPT !.live.clients = Without(@, Key(it))])
  /\ UNCHANGED <<file, last, imports, mapEdits>>

SyncFails(section) ==
  /\ Upset /\ SyncDue(section)
  /\ import' = [import EXCEPT !.synced = @ \cup {section}, !.clean = FALSE]
  /\ Untouched /\ UNCHANGED <<file, last, imports>>

ImportDies ==
  /\ Upset /\ import.on /\ import' = NoImport /\ last' = Nothing
  /\ Untouched /\ UNCHANGED <<file, imports>>

(* An administrator works on the same tables while it runs.                *)
Touches ==
  /\ Upset /\ import.on
  /\ last' = Nothing /\ import' = [import EXCEPT !.clean = FALSE]
  /\ \/ /\ \E r \in DOMAIN target.routes \ Builtin :
             target' \in {[target EXCEPT !.routes = Without(@, r)], [target EXCEPT !.routes[r].auth = "rotated"]}
        /\ UNCHANGED netVars
     \/ /\ \E c \in DOMAIN target.channels \ {target.mail} : target' = [target EXCEPT !.channels = Without(@, c)]
        /\ UNCHANGED netVars
     \/ /\ NetNext
        /\ LET platform == StillThere([net |-> netmap'], target.platform)
           IN platform # NoName => netmap'.hosts[platform].kind = "managed"
        /\ \A h \in DOMAIN target.links \cap DOMAIN netmap'.hosts : netmap'.hosts[h].kind = "managed"
        /\ target' = [target EXCEPT !.links = [h \in DOMAIN @ \cap DOMAIN netmap'.hosts |-> @[h]]]
  /\ UNCHANGED <<live, file, imports>>

ImportNext ==
  \/ \E dry \in BOOLEAN : ImportStarts(dry)
  \/ \E section \in {"routes"} \cup Scraped : SyncTargets(section) \/ SyncFails(section)
  \/ Export \/ ImportItem \/ SyncGrants \/ ImportEnds
  \/ ItemFails \/ ClientFails \/ ImportDies \/ Touches

ImportSpec == ImportInit /\ [][ImportNext]_<<importVars, netVars>>

-------------------------------------------------------------------------------
(* While nobody else writes and no write fails: an import does what its    *)
(* preview told, but for a grant to a role that the same file creates and  *)
(* for thresholds, which only the write looks at; a file applied without   *)
(* errors changes nothing when it is applied again; and what a deployment  *)
(* exports it takes back without an error and without a change, but for    *)
(* hosts that get their place by the ranges and whitelists that get the    *)
(* keys they lacked.  Monitored hosts are checked against the thresholds   *)
(* in force before the file's own, so one that fitted may not fit again.   *)
(* (A host made external after the plan was loaded may still be set as the *)
(* platform host; such a map is not taken back.)                           *)
Settled(w) ==
  [net |-> [w.net EXCEPT !.hosts = [h \in DOMAIN @ |-> Placed(w.net, @[h])]],
   t |-> [w.t EXCEPT !.platform = StillThere(w, @), !.main = StillThere(w, @),
                     !.routes = [r \in DOMAIN @ |-> [@[r] EXCEPT !.white = {}]]]]

OnlyTheWriteKnows(j) ==
  \/ file[j].section = "db_permissions" /\ last.rows[j] = "error"
     /\ \E i \in 1..j : file[i].section = "roles" /\ file[i].name = file[j].row.of
  \/ file[j].section = "alert_settings" /\ import.rows[j] = "error"

Applied == import.on /\ ~import.dry /\ ~import'.on /\ import.i > Len(file) /\ import.clean

TakenBack ==
  \A j \in DOMAIN file : \/ import.rows[j] \in {"update", "skip"}
                         \/ file[j].section = "monitored_hosts" /\ Crossed(file[j].row, last.world)

ImportsDoAsTheySay ==
  [][Applied =>
       /\ last.kind = "preview" => \A j \in DOMAIN file : import.rows[j] = last.rows[j] \/ OnlyTheWriteKnows(j)
       /\ last.kind = "apply" /\ "error" \notin Range(last.rows) => TakenBack /\ Tables(Here) = last.world
       /\ last.kind = "export" /\ ~External(last.world.net, StillThere(last.world, last.world.t.platform)) =>
            TakenBack /\ Settled(Here) = Settled(last.world)]_importVars

(* What an import wrote is what the process works with when it ends: the   *)
(* client of a connection is the one of its row, the scrape targets are    *)
(* the hosts and services that are enabled, nothing that is disabled is    *)
(* still down, and the limits are the saved ones.  Whatever fails, a       *)
(* client is never left on a row the import replaced and told as written.  *)
ImportsTakeEffect ==
  [][import.on /\ ~import.dry /\ ~import'.on /\ import.i > Len(file) =>
       \A j \in {x \in DOMAIN file : import.rows[x] \in Writes} :
         LET k == Key(file[j])
         IN CASE file[j].section \in Clients ->
                   IF import.clean THEN live.clients[k] = target.rows[k]
                   ELSE k \in DOMAIN live.clients => live.clients[k] = target.rows[k]
              [] file[j].section \in Scraped /\ import.clean ->
                   /\ {x \in live.targets : x[1] = k} = IF target.rows[k].on THEN {<<k, target.rows[k]>>} ELSE {}
                   /\ ~target.rows[k].on => k \notin live.alerts
              [] file[j].section = "system_settings" -> live.limit = target.limit
              [] OTHER -> TRUE]_importVars

(* No import, whole, failed or broken off, opens a route or puts a         *)
(* placeholder where a secret belongs: behind key-auth stand the masters,  *)
(* keys that were granted the route or stood there before, or nobody; a    *)
(* secret that is replaced is replaced by one the file spells out.         *)
ImportsFailClosed ==
  [][import.on /\ import'.on =>
       /\ \A r \in DOMAIN target'.routes :
            LET was == Get(target.routes, r, [key |-> FALSE, auth |-> "", white |-> {}])
                is == target'.routes[r]
            IN /\ is.key => is.white # {} /\ is.white \subseteq was.white \cup Masters \cup Granted[r] \cup {DenyAll}
               /\ is.auth # Placeholder
               /\ is.auth \notin {was.auth, "rotated"} =>
                    \E i \in DOMAIN file : file[i].section = "routes" /\ file[i].name = r /\ file[i].auth = is.auth
       /\ \A c \in DOMAIN target'.channels : Placeholder \notin {target'.channels[c].url, target'.channels[c].header}]_importVars

(* "the preview reports the same actions and the same errors the apply     *)
(* would produce" (config_transfer.py, _ImportContext).                    *)
PreviewIsTheApply ==
  [][Applied /\ last.kind = "preview" => import.rows = last.rows]_importVars

(* Together: what an import wrote works, and nothing it wrote opens a way. *)
ImportsAreSafe == ImportsTakeEffect /\ ImportsFailClosed
===============================================================================
