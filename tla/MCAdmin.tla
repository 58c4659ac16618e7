------------------------------- MODULE MCAdmin --------------------------------
(***************************************************************************)
(* What administrators change through the service: the gateway routes, the *)
(* network map, whom alerts are for and when they are muted, and whole     *)
(* configurations by export and import, in one run.  A behaviour is about  *)
(* one of these; imports write the network map too.                        *)
(***************************************************************************)
EXTENDS GatewayRoutes, ConfigImport, AlertRouting, TLC

CONSTANTS c1, c2, p1, p2

(* The map at first: empty, or drawn, with hosts in some of its regions. *)
Region(r) == [A |-> {{"i1", "i2"}}, B |-> {{"i1"}, {"i3"}}][r]
MCRanges == [r \in RegionNames |-> Region(r)]
HostRow(i, r, k) == [ip |-> i, region |-> r, kind |-> k]
MCHosts == {<<"h1", HostRow("i1", "none", "managed")>>, <<"h2", HostRow("i2", "B", "managed")>>,
            <<"h3", HostRow("i3", "none", "external")>>}
From(h) == [host |-> h, range |-> {}]
MCSources == {From("h1"), [host |-> "", range |-> {"i1", "i2"}]}
MCSpans == {<<1, 3>>, <<2, 2>>, <<4, 5>>}
Drawn == [EmptyMap EXCEPT !.regions = "A" :> {"i1", "i2"} @@ "B" :> {"i3"}]
Hosts(r2, r3, k3) == "h1" :> HostRow("i1", "A", "managed") @@ "h2" :> HostRow("i2", r2, "managed")
                     @@ "h3" :> HostRow("i3", r3, k3)
MCMaps == {EmptyMap} \cup {[Drawn EXCEPT !.hosts = Hosts(p[1], p[2], "managed")] : p \in {<<"A", "none">>, <<"none", "B">>}}

(* Bodies of saves: what becomes of the key, of key-auth, of the timeout. *)
RouteBody(n, k, auth, t) == [name |-> n, key |-> k, auth |-> auth, timeout |-> t]
MCBodies == {RouteBody("n1", "new", "off", 2), RouteBody("n1", "kept", "kept", 0),
             RouteBody("n2", "kept", "on", 0), RouteBody("r1", "dropped", "kept", 0)}

(* A deployment that was just installed, and one in use. *)
PlainRow == [v |-> 1, of |-> "", on |-> TRUE, warn |-> 0, crit |-> 0]
Of(o) == [PlainRow EXCEPT !.of = o]
Monitored(on, warn) == [PlainRow EXCEPT !.on = on, !.warn = warn]
Seeded == <<"roles", "admin">> :> Of("system") @@ <<"roles", "own">> :> PlainRow
BuiltinRoute == "builtin" :> [key |-> TRUE, auth |-> "s0", white |-> {"master"}]
FirstUse ==
  [t |-> [rows |-> Seeded, routes |-> BuiltinRoute, channels |-> [c \in {} |-> ""], mail |-> "", warn |-> 2, crit |-> 3,
          limit |-> 1, links |-> [h \in {} |-> ""], platform |-> "", main |-> ""],
   net |-> EmptyMap]
Opening(h, d, s) == [src |-> From(h), dst |-> d, lo |-> s[1], hi |-> s[2], open |-> TRUE, since |-> {}]
InUse ==
  [t |-> [rows |-> Seeded @@ <<"roles", "staff">> :> PlainRow @@ <<"db_permissions", "p">> :> Of("staff")
                   @@ <<"upstreams", "u">> :> PlainRow @@ <<"db_connections", "db">> :> Of("pg")
                   @@ <<"s3_connections", "s3">> :> PlainRow @@ <<"query_templates", "q">> :> Of("db")
                   @@ <<"monitored_hosts", "m">> :> Monitored(TRUE, 2) @@ <<"monitored_services", "e">> :> Monitored(TRUE, 0),
          routes |-> BuiltinRoute @@ "r1" :> [key |-> TRUE, auth |-> "s1", white |-> {"guest"}]
                                  @@ "r2" :> [key |-> FALSE, auth |-> "", white |-> {}],
          channels |-> "c1" :> [url |-> "u1", header |-> "s2"] @@ "c2" :> [url |-> "u2", header |-> ""],
          mail |-> "c1", warn |-> 1, crit |-> 2, limit |-> 1, links |-> "h1" :> "m", platform |-> "h2", main |-> "h3"],
   net |-> [Drawn EXCEPT !.hosts = Hosts("none", "none", "external"), !.usages = {<<"h1", 3>>},
                         !.openings = {Opening("h1", "h3", <<1, 3>>), Opening("h1", "h2", <<2, 2>>)}]]
MCDeployments == {FirstUse, InUse}

(* Files written by hand: one per part of the sections, one that swaps the *)
(* addresses of two hosts, and a short one.                                *)
RowItem(section, n, row) == [section |-> section, name |-> n, row |-> row, fits |-> TRUE]
RouteItem(r, k, a, sh) == [section |-> "routes", name |-> r, key |-> k, auth |-> a, white |-> {"other"}, shadows |-> sh]
ChannelItem(c, u, h) == [section |-> "alert_channels", name |-> c, url |-> u, header |-> h]
Thresholds(warn, crit) == [section |-> "alert_settings", name |-> "", mail |-> "c2", warn |-> warn, crit |-> crit]
RegionItem(r, range) == [section |-> "network_regions", name |-> r, range |-> range]
HostItem(h, row, server) == [section |-> "network_hosts", name |-> h, row |-> row, server |-> server]
OpeningItem(h, d, s) == [section |-> "firewall_openings", src |-> From(h), dst |-> d, span |-> s, open |-> FALSE]
UsageItem(h) == [section |-> "port_usages", host |-> h, port |-> 3]
Places(p, m) == [section |-> "network_settings", platform |-> p, main |-> m]
MCFiles == {
  <<RouteItem("builtin", FALSE, "s9", FALSE), RouteItem("r1", TRUE, "s3", FALSE), RouteItem("r2", TRUE, Placeholder, FALSE),
    RouteItem("r3", TRUE, "", FALSE), RouteItem("r4", FALSE, "", TRUE),
    RowItem("roles", "own", PlainRow), RowItem("roles", "staff", PlainRow),
    RowItem("db_permissions", "p", Of("staff")), RowItem("db_permissions", "nobody's", Of("nobody")),
    ChannelItem("c1", "u3", Placeholder), ChannelItem("c2", Placeholder, "s4"), Thresholds(3, 2)>>,
  <<[RowItem("upstreams", "u", PlainRow) EXCEPT !.fits = FALSE], RowItem("upstreams", "builtin", PlainRow),
    RowItem("db_connections", "db", [Of("pg") EXCEPT !.v = 2]), RowItem("db_connections", "db2", Of("pg")),
    RowItem("s3_connections", "s3", [PlainRow EXCEPT !.v = 2]), RowItem("nas_connections", "n", PlainRow),
    RowItem("query_templates", "q", Of("db")), RowItem("query_templates", "q2", Of("db2")),
    RowItem("monitored_hosts", "m", Monitored(FALSE, 2)), RowItem("monitored_hosts", "m2", Monitored(TRUE, 0)),
    RowItem("monitored_services", "e", Monitored(FALSE, 0)), Thresholds(1, 1), RowItem("alert_recipients", "m", PlainRow),
    [section |-> "system_settings", name |-> "", limit |-> 2]>>,
  <<RowItem("db_connections", "db", Of("mssql")), RowItem("monitored_hosts", "m", PlainRow), RegionItem("A", {"i1", "i2"}),
    HostItem("h1", HostRow("i1", "A", "managed"), "m"), HostItem("h2", HostRow("i2", "none", "managed"), "m"),
    HostItem("h3", HostRow("i3", "B", "managed"), "-"),
    OpeningItem("h1", "h2", <<1, 3>>), OpeningItem("h2", "h1", <<2, 2>>),
    OpeningItem("h1", "h3", <<1, 3>>), OpeningItem("h1", "h3", <<1, 3>>), UsageItem("h1"), UsageItem("h2"), UsageItem("h2"),
    Places("h3", "h1")>>,
  <<RegionItem("B", {"i3"}),
    HostItem("h1", HostRow("i2", "A", "managed"), "-"), HostItem("h2", HostRow("i1", "none", "managed"), ""),
    HostItem("h3", HostRow("i3", "none", "external"), "-"),
    OpeningItem("h1", "h1", <<2, 2>>), OpeningItem("h3", "h2", <<4, 5>>), Places("h2", "")>>,
  <<RegionItem("B", {"i3"}), HostItem("h3", HostRow("i3", "B", "managed"), "-")>>}
MCGranted == [r \in {"builtin", "r1", "r2", "r3", "r4"} |-> IF r \in {"r1", "r3"} THEN {"key"} ELSE {}]

(* A deployment whose mails work or whose channel is not chosen yet, and   *)
(* one with a spare channel whose route has a garbled owner row, or none.  *)
OneChannel == [c \in Channels |-> IF c = c1 THEN ChannelRow(TRUE, "good") ELSE NoSuchChannel]
TwoChannels == [c \in Channels |-> ChannelRow(TRUE, "good")]
Through(c) == [mail |-> c, admins |-> {p1}]
Unrouted == <<OneChannel, Through(NoChannel), OwnerRow({p2}, TRUE)>>
MCRouting == {Unrouted, <<OneChannel, Through(c1), OwnerRow({p2}, TRUE)>>}
             \cup {<<TwoChannels, Through(c1), o>> : o \in {OwnerRow({Garbled}, TRUE), NoRow}}
MCBatches == {<<"route">>, <<"upstream">>, <<"infra", "junk", "infra", "infra">>}

VARIABLE focus  \* the part this behaviour is about, never changed

AdminInit ==
  /\ focus \in {"routes", "network", "import", "recipients", "mutes"}
  /\ RoutingInit /\ (focus # "recipients" => <<channels, routing, owner>> = Unrouted)
  /\ RoutesInit /\ (focus # "routes" => default = 1)
  /\ IF focus = "import" THEN ImportInit
     ELSE /\ NetInit /\ (focus # "network" => netmap = EmptyMap)
          /\ target = FirstUse.t /\ live = AtBoot(FirstUse) /\ file = <<>> /\ import = NoImport /\ last = Nothing
          /\ imports = 0 /\ upsets = 0

Part(name, Step, others) == focus = name /\ Step /\ UNCHANGED <<focus, others>>

AdminNext ==
  \/ Part("routes", RoutesNext, <<netVars, importVars, routingVars>>)
  \/ Part("network", NetNext, <<routeVars, importVars, routingVars>>)
  \/ Part("import", ImportNext, <<routeVars, routingVars>>)
  \/ Part("recipients", RecipientsNext, <<routeVars, netVars, importVars>>)
  \/ Part("mutes", MutingNext, <<routeVars, netVars, importVars>>)

AdminSpec == AdminInit /\ [][AdminNext]_<<focus, routeVars, netVars, importVars, routingVars>>

AdminsAlike == Permutations(Admins)
===============================================================================
