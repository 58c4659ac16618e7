---------------------------- MODULE ConfigSections ----------------------------
(***************************************************************************)
(* The sections of an exported configuration (routers/config_transfer.py): *)
(* what the export makes of the tables, and for each section what its      *)
(* import handler decides of an item and writes for it.  A configuration w *)
(* is the record [t, net, live]: the tables, those of the network map, and *)
(* what the process works with beside them.                                *)
(***************************************************************************)
EXTENDS NetworkMap

CONSTANTS Builtin,   \* ids of the routes and upstreams that are provisioned
          OwnRole,   \* of who imports
          Keys, Masters

ASSUME SectionsAssumption == Masters \subseteq Keys

Placeholder == "placeholder"
DenyAll == "deny-all"

Sections == <<"upstreams", "routes", "roles", "db_permissions", "db_connections", "s3_connections",
              "nas_connections", "query_templates", "monitored_hosts", "monitored_services",
              "alert_channels", "alert_settings", "alert_recipients", "network_regions", "network_hosts",
              "firewall_openings", "port_usages", "network_settings", "system_settings">>
NetSections == {Sections[i] : i \in 14..18}
Clients == {"db_connections", "s3_connections", "nas_connections"}
Scraped == {"monitored_hosts", "monitored_services"}

At(section) == CHOOSE i \in DOMAIN Sections : Sections[i] = section
Get(f, k, default) == IF k \in DOMAIN f THEN f[k] ELSE default

(* A row of t.rows, under its section and name: contents, what it names    *)
(* elsewhere (a permission its role, a template its database, a connection *)
(* the kind of its server, a role "system"), whether it is enabled, and a  *)
(* monitored host's own thresholds (0: the general ones).                  *)
Key(it) == <<it.section, it.name>>
Put(there) == IF there THEN "update" ELSE "create"
InTable(it, w) == Key(it) \in DOMAIN w.t.rows

-------------------------------------------------------------------------------
(* The export.  Secrets leave as the placeholder or not at all, whitelists *)
(* and measurements not at all; names stand for row ids.                   *)
Hidden(secret) == IF secret = "" THEN "" ELSE Placeholder

RowItems(w, section) ==
  {[section |-> section, name |-> k[2], row |-> w.t.rows[k], fits |-> TRUE]
     : k \in {x \in DOMAIN w.t.rows : x[1] = section /\ (section = "upstreams" => x[2] \notin Builtin)}}

RouteItems(w) ==
  {[section |-> "routes", name |-> r, key |-> w.t.routes[r].key, auth |-> Hidden(w.t.routes[r].auth),
    white |-> {}, shadows |-> FALSE] : r \in DOMAIN w.t.routes \ Builtin}

ChannelItems(w) ==
  {[section |-> "alert_channels", name |-> c, url |-> Placeholder, header |-> Hidden(w.t.channels[c].header)]
     : c \in DOMAIN w.t.channels}

SettingsItem(w) == [section |-> "alert_settings", name |-> "", mail |-> w.t.mail, warn |-> w.t.warn, crit |-> w.t.crit]

SystemItem(w) == [section |-> "system_settings", name |-> "", limit |-> w.t.limit]

StillThere(w, host) == IF host \in DOMAIN w.net.hosts THEN host ELSE NoName

NetworkItems(w, section) ==
  CASE section = "network_regions" ->
         {[section |-> section, name |-> r, range |-> w.net.regions[r]] : r \in DOMAIN w.net.regions}
    [] section = "network_hosts" ->
         {[section |-> section, name |-> h, row |-> w.net.hosts[h], server |-> Get(w.t.links, h, "")]
            : h \in DOMAIN w.net.hosts}
    [] section = "firewall_openings" ->
         {[section |-> section, src |-> o.src, dst |-> o.dst, span |-> <<o.lo, o.hi>>, open |-> o.open]
            : o \in w.net.openings}
    [] section = "port_usages" -> {[section |-> section, host |-> u[1], port |-> u[2]] : u \in w.net.usages}
    [] section = "network_settings" ->
         {[section |-> section, platform |-> StillThere(w, w.t.platform), main |-> StillThere(w, w.t.main)]}

ItemsOf(w, section) ==
  CASE section = "routes" -> RouteItems(w)
    [] section = "alert_channels" -> ChannelItems(w)
    [] section = "alert_settings" -> {SettingsItem(w)}
    [] section = "system_settings" -> {SystemItem(w)}
    [] section \in NetSections -> NetworkItems(w, section)
    [] OTHER -> RowItems(w, section)

Exported(w) == FoldLeft(LAMBDA out, section : out \o SetToSeq(ItemsOf(w, section)), <<>>, Sections)

-------------------------------------------------------------------------------
(* What the handlers decide, before they write.  "fits": the body clears   *)
(* the checks that look at nothing but itself (and at the roots that a NAS *)
(* path may lie under).                                                    *)
Checked(it, w) == IF it.fits THEN Put(InTable(it, w)) ELSE "error"

UpstreamVerdict(it, w) == IF it.name \in Builtin THEN "skip" ELSE Checked(it, w)

RouteVerdict(it, w) ==
  CASE it.name \in Builtin -> "skip" [] it.shadows -> "error" [] OTHER -> Put(it.name \in DOMAIN w.t.routes)

RoleVerdict(it, w) ==
  LET system == "system" \in {it.row.of} \cup {w.t.rows[k].of : k \in {Key(it)} \cap DOMAIN w.t.rows}
  IN IF it.fits /\ (system \/ it.name = OwnRole) THEN "skip" ELSE Checked(it, w)

PermissionVerdict(it, w) == IF <<"roles", it.row.of>> \in DOMAIN w.t.rows THEN Checked(it, w) ELSE "error"

DbVerdict(it, w) ==
  CASE ~InTable(it, w) -> "skip" [] it.row.of # w.t.rows[Key(it)].of -> "error" [] OTHER -> Checked(it, w)

S3Verdict(it, w) == IF ~InTable(it, w) THEN "skip" ELSE Checked(it, w)

TemplateVerdict(it, w) == IF <<"db_connections", it.row.of>> \in DOMAIN w.t.rows THEN Checked(it, w) ELSE "error"

(* _validate_effective_disk_thresholds, by the settings as they are now.   *)
Crossed(row, w) ==
  (IF row.warn = 0 THEN w.t.warn ELSE row.warn) > (IF row.crit = 0 THEN w.t.crit ELSE row.crit)

HostVerdict(it, w) == IF Crossed(it.row, w) THEN "error" ELSE Checked(it, w)

ChannelVerdict(it, w) ==
  IF it.url = Placeholder /\ it.name \notin DOMAIN w.t.channels THEN "error" ELSE Put(it.name \in DOMAIN w.t.channels)

(* _monitored_link: to a server that is there and no other host's.  The    *)
(* item may carry no such key ("-"), or a null that unlinks.               *)
Relinks(it, w) ==
  \/ it.server = ""
  \/ /\ <<"monitored_hosts", it.server>> \in DOMAIN w.t.rows
     /\ \A h \in DOMAIN w.t.links \ {it.name} : w.t.links[h] # it.server

ExternalRefused(it, w) ==
  \/ it.server \notin {"", "-"}
  \/ ~Relinks(it, w) /\ it.name \in DOMAIN w.t.links
  \/ it.name = StillThere(w, w.t.platform)

NetworkHostVerdict(it, w) ==
  IF HostRefused(w.net, it.name, it.row) \/ (it.row.kind = "external" /\ ExternalRefused(it, w))
  THEN "error" ELSE Put(it.name \in DOMAIN w.net.hosts)

KeyOf(it) == <<it.src, it.dst, it.span[1], it.span[2]>>

OpeningVerdict(it, w, seen) ==
  LET there == Recorded(w.net, KeyOf(it)) # {}
  IN CASE ~Known(w.net, it.src, it.dst) -> "error"
       [] KeyOf(it) \in {KeyOf(x) : x \in {y \in seen : y.section = it.section}} -> "skip"
       [] ~there /\ Needless(w.net, it.src, it.dst) -> "skip"
       [] ~there /\ it.src.host = it.dst -> "error"
       [] OTHER -> Put(there)

UsageVerdict(it, w, seen) ==
  CASE it.host \notin DOMAIN w.net.hosts -> "error" [] it \in seen -> "skip"
    [] OTHER -> Put(<<it.host, it.port>> \in w.net.usages)

(* Which of the two hosts of the network settings are set, and to whom.    *)
Platforms(it, w) ==
  IF it.platform = NoName \/ (it.platform \in DOMAIN w.net.hosts /\ ~External(w.net, it.platform))
  THEN {it.platform} ELSE {}
Mains(it, w) == {it.main} \cap (DOMAIN w.net.hosts \cup {NoName})

PlacesVerdict(it, w) == IF Platforms(it, w) \cup Mains(it, w) = {} THEN "skip" ELSE "update"

(* "seen" are the items of the file before this one.                       *)
Verdict(it, w, seen) ==
  CASE it.section = "upstreams" -> UpstreamVerdict(it, w)
    [] it.section = "routes" -> RouteVerdict(it, w)
    [] it.section = "roles" -> RoleVerdict(it, w)
    [] it.section = "db_permissions" -> PermissionVerdict(it, w)
    [] it.section = "db_connections" -> DbVerdict(it, w)
    [] it.section = "s3_connections" -> S3Verdict(it, w)
    [] it.section = "query_templates" -> TemplateVerdict(it, w)
    [] it.section = "monitored_hosts" -> HostVerdict(it, w)
    [] it.section = "alert_channels" -> ChannelVerdict(it, w)
    [] it.section = "network_regions" -> Put(it.name \in DOMAIN w.net.regions)
    [] it.section = "network_hosts" -> NetworkHostVerdict(it, w)
    [] it.section = "firewall_openings" -> OpeningVerdict(it, w, seen)
    [] it.section = "port_usages" -> UsageVerdict(it, w, seen)
    [] it.section = "network_settings" -> PlacesVerdict(it, w)
    [] it.section \in {"alert_settings", "system_settings"} -> "update"
    [] OTHER -> Checked(it, w)

Writes == {"create", "update"}

-------------------------------------------------------------------------------
(* What is written: the live value behind a placeholder, the live          *)
(* whitelist with the master keys, a host with no region where the ranges  *)
(* place it.                                                               *)
Restored(value, live) == IF value = Placeholder THEN live ELSE value

WithMasters(white) == LET w == (white \ {DenyAll}) \cup Masters IN IF w = {} THEN {DenyAll} ELSE w

WhiteFor(it, w) ==
  LET live == IF it.name \in DOMAIN w.t.routes THEN w.t.routes[it.name].white ELSE {}
  IN IF it.key THEN WithMasters(live) ELSE live

AuthFor(it, w) == Restored(it.auth, IF it.name \in DOMAIN w.t.routes THEN w.t.routes[it.name].auth ELSE "")

RouteWritten(it, w) ==
  [w EXCEPT !.t.routes = With(@, it.name, [key |-> it.key, auth |-> AuthFor(it, w), white |-> WhiteFor(it, w)])]

RowWritten(it, w) == [w EXCEPT !.t.rows = With(@, Key(it), it.row)]

(* The client of a connection is built anew from the row; a database or S3 *)
(* connection keeps the secret it has.                                     *)
ConnectionWritten(it, w) == [RowWritten(it, w) EXCEPT !.live.clients = With(@, Key(it), it.row)]

(* What is no longer scraped must not linger as "down".                    *)
MonitoredWritten(it, w) ==
  [RowWritten(it, w) EXCEPT !.live.alerts = IF it.row.on THEN @ ELSE @ \ {Key(it)}]

ChannelWritten(it, w) ==
  LET live == Get(w.t.channels, it.name, [url |-> "", header |-> ""])
  IN [w EXCEPT !.t.channels =
        With(@, it.name, [url |-> Restored(it.url, live.url), header |-> Restored(it.header, live.header)])]

SettingsWritten(it, w) ==
  [w EXCEPT !.t = [@ EXCEPT !.mail = IF it.mail \in DOMAIN w.t.channels \cup {""} THEN it.mail ELSE @,
                            !.warn = it.warn, !.crit = it.crit]]

NetworkHostWritten(it, w, decided) ==
  [w EXCEPT !.net = HostPut(@, it.name, Placed(decided.net, it.row)),
     !.t.links = CASE ~Relinks(it, decided) -> @ [] it.server = "" -> Without(@, it.name)
                   [] OTHER -> With(@, it.name, it.server)]

PlacesWritten(it, w, decided) ==
  [w EXCEPT !.t = [@ EXCEPT !.platform = IF Platforms(it, decided) = {} THEN @ ELSE it.platform,
                            !.main = IF Mains(it, decided) = {} THEN @ ELSE it.main]]

SystemWritten(it, w) == [w EXCEPT !.t.limit = it.limit, !.live.limit = it.limit]

(* The item is written to w by what was decided on the other one.          *)
Written(it, w, decided) ==
  CASE it.section = "routes" -> RouteWritten(it, w)
    [] it.section \in Clients -> ConnectionWritten(it, w)
    [] it.section \in Scraped -> MonitoredWritten(it, w)
    [] it.section = "alert_channels" -> ChannelWritten(it, w)
    [] it.section = "alert_settings" -> SettingsWritten(it, w)
    [] it.section = "network_regions" -> [w EXCEPT !.net = RegionPut(@, it.name, it.range)]
    [] it.section = "network_hosts" -> NetworkHostWritten(it, w, decided)
    [] it.section = "firewall_openings" -> [w EXCEPT !.net = OpeningPut(@, it.src, it.dst, it.span, it.open)]
    [] it.section = "port_usages" -> [w EXCEPT !.net.usages = @ \cup {<<it.host, it.port>>}]
    [] it.section = "network_settings" -> PlacesWritten(it, w, decided)
    [] it.section = "system_settings" -> SystemWritten(it, w)
    [] OTHER -> RowWritten(it, w)

(* What only the write finds: thresholds the wrong way round, and what     *)
(* changed in the tables since the plan was made.                          *)
Conflicts(it, plan, now) ==
  CASE it.section = "alert_settings" -> it.warn > it.crit
    [] it.section = "network_regions" -> it.name \in DOMAIN now.net.regions \ DOMAIN plan.net.regions
    [] it.section = "network_hosts" ->
         LET row == Placed(plan.net, it.row)
         IN \/ it.name \in DOMAIN now.net.hosts \ DOMAIN plan.net.hosts
            \/ HostAt(now.net, row.ip) \notin {NoName, it.name}
            \/ row.region \notin DOMAIN now.net.regions \cup {NoRegion}
            \/ Relinks(it, plan) /\ \E h \in DOMAIN now.t.links \ {it.name} : now.t.links[h] = it.server
    [] it.section = "firewall_openings" ->
         \/ ~Known(now.net, it.src, it.dst)
         \/ (Recorded(plan.net, KeyOf(it)) = {}) # (Recorded(now.net, KeyOf(it)) = {})
    [] it.section = "port_usages" ->
         \/ it.host \notin DOMAIN now.net.hosts
         \/ <<it.host, it.port>> \in now.net.usages \ plan.net.usages
    [] OTHER -> FALSE
===============================================================================
