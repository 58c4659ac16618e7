------------------------------ MODULE NetworkMap ------------------------------
(***************************************************************************)
(* The network map (services/network_map.py, routers/network.py): regions, *)
(* hosts and recorded firewall openings as people and agents edit them,    *)
(* what the access check answers from them, and the port finder, which     *)
(* works on lists of port spans instead of single ports.                   *)
(***************************************************************************)
EXTENDS Integers, FiniteSets, SequencesExt

CONSTANTS Ips, HostNames, RegionNames,
          RangesOf,      \* what each region may cover
          HostRows,      \* hosts that are put on the map, as name and row
          SourcesOf,     \* what an opening may come from: a host or a range
          Spans,         \* what it may open, as <<low, high>>
          ProbedPorts, UsedPorts,
          PortMax,
          Suggestions,   \* FINDER_SUGGESTIONS
          Results,       \* of a probe
          FirstMaps,     \* the maps there may be at first
          MaxProbes, MaxMapEdits

NoRegion == "none"
NoName == ""
HostRowType == [ip : Ips, region : RegionNames \cup {NoRegion}, kind : {"managed", "external"}]

ASSUME NetworkAssumption ==
  /\ RangesOf \in [RegionNames -> SUBSET (SUBSET Ips)]
  /\ HostRows \subseteq HostNames \X HostRowType
  /\ SourcesOf \subseteq [host : HostNames \cup {NoName}, range : SUBSET Ips]
  /\ {PortMax, Suggestions, MaxProbes, MaxMapEdits} \subseteq Nat
  /\ Spans \subseteq (1..PortMax) \X (1..PortMax)
  /\ ProbedPorts \cup UsedPorts \subseteq 1..PortMax
  /\ Results \subseteq {"open", "refused", "timeout", "error"}

VARIABLES
  netmap,    \* the tables of the map
  mapEdits

netVars == <<netmap, mapEdits>>

Without(f, key) == [k \in DOMAIN f \ {key} |-> f[k]]
With(f, key, value) == [k \in DOMAIN f \cup {key} |-> IF k = key THEN value ELSE f[k]]

EmptyMap == [regions |-> [r \in {} |-> {}], hosts |-> [h \in {} |-> {}],
             openings |-> {}, usages |-> {}, probes |-> <<>>]

-------------------------------------------------------------------------------
(* The most specific range wins.                                           *)
RegionForIp(m, ip) ==
  LET holding == {r \in DOMAIN m.regions : ip \in m.regions[r]}
  IN IF holding = {} THEN NoRegion
     ELSE CHOOSE r \in holding : \A s \in holding :
            Cardinality(m.regions[r]) <= Cardinality(m.regions[s])

HostAt(m, ip) ==
  IF \E h \in DOMAIN m.hosts : m.hosts[h].ip = ip
  THEN CHOOSE h \in DOMAIN m.hosts : m.hosts[h].ip = ip ELSE NoName

External(m, host) == host # NoName /\ m.hosts[host].kind = "external"

(* A registered host, by its name or its address, or else an address that  *)
(* is placed by the ranges.                                                *)
Endpoint(m, ref) ==
  LET host == IF ref \in HostNames THEN ref ELSE HostAt(m, ref)
  IN IF host # NoName THEN [host |-> host, ip |-> m.hosts[host].ip, region |-> m.hosts[host].region]
     ELSE [host |-> NoName, ip |-> ref, region |-> RegionForIp(m, ref)]

CoversSource(o, s) == IF o.src.host # NoName THEN s.host = o.src.host ELSE s.ip \in o.src.range
SameRegion(s, d) == s.region # NoRegion /\ s.region = d.region

(* _decide: the answer of the access check for one port.                   *)
Decide(m, s, d, port) ==
  LET matching == {o \in m.openings : o.dst = d.host /\ port \in o.lo..o.hi /\ CoversSource(o, s)}
  IN CASE SameRegion(s, d) \/ \E o \in matching : o.open -> "open"
       [] OTHER -> IF External(m, s.host) \/ External(m, d.host) \/ NoRegion \in {s.region, d.region}
                   THEN "unknown" ELSE "blocked"

-------------------------------------------------------------------------------
PortsOf(spans) == UNION {s[1]..s[2] : s \in Range(spans)}
Earlier(a, b) == a[1] < b[1] \/ (a[1] = b[1] /\ a[2] < b[2])

(* Mutant: a span inside the one before it cuts that one short.            *)
JoinsLast(out, span) ==
  IF out # <<>> /\ span[1] <= Last(out)[2] + 1
  THEN [out EXCEPT ![Len(out)][2] = span[2]] ELSE Append(out, span)

Joined(out, span) ==
  IF out # <<>> /\ span[1] <= Last(out)[2] + 1
  THEN IF span[2] > Last(out)[2] THEN [out EXCEPT ![Len(out)][2] = span[2]] ELSE out
  ELSE Append(out, span)

MergeSpans(spans) == FoldLeft(Joined, <<>>, SetToSortSeq(spans, Earlier))

RECURSIVE IntersectSpans(_, _)
IntersectSpans(a, b) ==
  IF a = <<>> \/ b = <<>> THEN <<>>
  ELSE LET x == Head(a) y == Head(b)
           lo == IF x[1] > y[1] THEN x[1] ELSE y[1]
           hi == IF x[2] < y[2] THEN x[2] ELSE y[2]
       IN (IF lo <= hi THEN <<<<lo, hi>>>> ELSE <<>>)
            \o IF x[2] < y[2] THEN IntersectSpans(Tail(a), b) ELSE IntersectSpans(a, Tail(b))

(* subtract_ports, for one span: the pieces between its holes.             *)
Pieces(span, holes) ==
  LET Cut(acc, hole) == [start |-> hole + 1,
        out |-> IF hole > acc.start THEN Append(acc.out, <<acc.start, hole - 1>>) ELSE acc.out]
      end == FoldLeft(Cut, [start |-> span[1], out |-> <<>>], SetToSortSeq(holes \cap span[1]..span[2], <))
  IN IF end.start <= span[2] THEN Append(end.out, <<end.start, span[2]>>) ELSE end.out

SubtractPorts(spans, holes) == FoldLeft(LAMBDA out, span : out \o Pieces(span, holes), <<>>, spans)

-------------------------------------------------------------------------------
(* _reach: the ports a source reaches on a host.                           *)
Reach(m, s, dst) ==
  IF SameRegion(s, m.hosts[dst]) THEN <<<<1, PortMax>>>>
  ELSE MergeSpans({<<o.lo, o.hi>> : o \in {x \in m.openings : x.dst = dst /\ x.open /\ CoversSource(x, s)}})

(* The newest probe of each port that got through the firewall.            *)
Listening(m, dst) ==
  {p \in ProbedPorts :
     \E i \in DOMAIN m.probes :
       /\ m.probes[i].dst = dst /\ m.probes[i].port = p /\ m.probes[i].result = "open"
       /\ \A j \in DOMAIN m.probes : j > i /\ m.probes[j].dst = dst /\ m.probes[j].port = p =>
            m.probes[j].result # "refused"}

(* An opening of the path was changed after the probe (_opened_since).     *)
OpenedSince(m, s, probe) ==
  \E o \in m.openings : /\ o.dst = probe.dst /\ o.open /\ probe.port \in o.lo..o.hi /\ CoversSource(o, s)
                        /\ probe \in o.since

Distance(port, p) == IF port = 0 THEN 0 ELSE IF p > port THEN p - port ELSE port - p
Nearer(port, p, q) == Distance(port, p) < Distance(port, q) \/ (Distance(port, p) = Distance(port, q) /\ p < q)
Ordered(set, port) == SetToSortSeq(set, LAMBDA p, q : Nearer(port, p, q))

(* The ports looked at when the measured ones are not enough: the first of *)
(* each free span, and those within a window of the requested port.        *)
Window == Suggestions * 4
Pool(free, port) ==
  {p \in PortsOf(free) : \/ \E s \in Range(free) : p \in s[1]..s[2] /\ p <= s[1] + Window
                         \/ port # 0 /\ Distance(port, p) <= Window}

(* _finder_host, for these sources and this host.                          *)
Found(m, srcs, dst) ==
  LET ends == {Endpoint(m, s) : s \in srcs}
      reach == FoldLeft(IntersectSpans, <<<<1, PortMax>>>>, SetToSeq({Reach(m, s, dst) : s \in ends}))
      tried == {p \in Range(m.probes) : p.dst = dst /\ p.port \in PortsOf(reach) /\ p.src \in {s.host : s \in ends}}
      blocked == {p.port : p \in {q \in tried : q.result = "timeout" /\ ~OpenedSince(m, Endpoint(m, q.src), q)}}
      used == {u[2] : u \in {x \in m.usages : x[1] = dst}} \cup Listening(m, dst)
      free == SubtractPorts(reach, used \cup blocked)
  IN [reach |-> reach, free |-> free, used |-> used, blocked |-> blocked,
      any |-> \A s \in ends : SameRegion(s, m.hosts[dst]),
      measured |-> {p.port : p \in {q \in tried : q.result = "refused"}} \cap PortsOf(free)]

(* What is suggested when this port is asked for (0: none), and what is    *)
(* said of it.                                                             *)
Suggested(f, port) ==
  LET first == (IF port \in PortsOf(f.free) THEN <<port>> ELSE <<>>) \o Ordered(f.measured \ {port}, port)
      all == first \o Ordered(Pool(f.free, port) \ Range(first), port)
  IN IF f.any THEN <<>> ELSE SubSeq(all, 1, IF Len(all) < Suggestions THEN Len(all) ELSE Suggestions)

Asked(f, port) ==
  CASE port \in f.blocked -> "blocked" [] port \notin PortsOf(f.reach) -> "unreachable"
    [] port \in f.used -> "used" [] OTHER -> "free"

-------------------------------------------------------------------------------
(* A region is drawn, redrawn, or deleted once no host is in it; the hosts *)
(* stay where they are.                                                    *)
RegionPut(m, r, range) == [m EXCEPT !.regions = With(@, r, range)]

Edit(m) == mapEdits < MaxMapEdits /\ mapEdits' = mapEdits + 1 /\ netmap' = m /\ netmap' # netmap

PutRegion(r, range) == range \in RangesOf[r] /\ Edit(RegionPut(netmap, r, range))

DeleteRegion(r) ==
  /\ r \in DOMAIN netmap.regions
  /\ \A h \in DOMAIN netmap.hosts : netmap.hosts[h].region # r
  /\ Edit([netmap EXCEPT !.regions = Without(@, r)])

(* Who is placed by the ranges is managed and names no region.             *)
Placed(m, row) ==
  IF row.region = NoRegion /\ row.kind = "managed"
  THEN [row EXCEPT !.region = RegionForIp(m, row.ip)] ELSE row

HostPut(m, h, row) == [m EXCEPT !.hosts = With(@, h, row)]

(* What no host may be: at another's address, in a region that is not      *)
(* there, or external and in a region.                                     *)
HostRefused(m, h, row) ==
  \/ HostAt(m, row.ip) \notin {NoName, h}
  \/ row.region \notin DOMAIN m.regions \cup {NoRegion}
  \/ row.kind = "external" /\ row.region # NoRegion

CreateHost(h, row) ==
  /\ h \notin DOMAIN netmap.hosts /\ ~HostRefused(netmap, h, row)
  /\ Edit(HostPut(netmap, h, Placed(netmap, row)))

(* An update places nobody: a region that is not given stays, or goes with *)
(* an explicit null.                                                       *)
UpdateHost(h, row) ==
  /\ h \in DOMAIN netmap.hosts /\ ~HostRefused(netmap, h, row)
  /\ Edit(HostPut(netmap, h, row))

(* With a host go its openings, its port usage and its probes.             *)
DeleteHost(h) ==
  /\ h \in DOMAIN netmap.hosts
  /\ Edit([netmap EXCEPT !.hosts = Without(@, h),
             !.openings = {o \in @ : h \notin {o.src.host, o.dst}},
             !.usages = {u \in @ : u[1] # h},
             !.probes = SelectSeq(@, LAMBDA p : h \notin {p.src, p.dst})])

(* _validate_opening, beside the uniqueness of what is opened.             *)
SourceRegion(m, src) ==
  IF src.host # NoName THEN m.hosts[src.host].region
  ELSE LET around == {r \in DOMAIN m.regions : src.range \subseteq m.regions[r]}
       IN IF around = {} THEN NoRegion
          ELSE CHOOSE r \in around : \A s \in around : Cardinality(m.regions[r]) <= Cardinality(m.regions[s])

OpeningKey(o) == <<o.src, o.dst, o.lo, o.hi>>
Recorded(m, key) == {o \in m.openings : OpeningKey(o) = key}
Known(m, src, dst) == dst \in DOMAIN m.hosts /\ src.host \in DOMAIN m.hosts \cup {NoName}
Needless(m, src, dst) == SourceRegion(m, src) # NoRegion /\ SourceRegion(m, src) = m.hosts[dst].region

OpeningPut(m, src, dst, span, open) ==
  LET o == [src |-> src, dst |-> dst, lo |-> span[1], hi |-> span[2], open |-> open, since |-> Range(m.probes)]
      was == Recorded(m, OpeningKey(o))
  IN IF \E x \in was : x.open = open THEN m ELSE [m EXCEPT !.openings = (@ \ was) \cup {o}]

CreateOpening(src, dst, span) ==
  /\ Known(netmap, src, dst) /\ src.host # dst /\ ~Needless(netmap, src, dst)
  /\ Recorded(netmap, <<src, dst, span[1], span[2]>>) = {}
  /\ Edit(OpeningPut(netmap, src, dst, span, TRUE))

(* It is marked closed, or open again; the region rule is not asked again. *)
UpdateOpening(o) == o \in netmap.openings /\ Edit(OpeningPut(netmap, o.src, o.dst, <<o.lo, o.hi>>, ~o.open))

DeleteOpening(o) == o \in netmap.openings /\ Edit([netmap EXCEPT !.openings = @ \ {o}])

RecordUsage(h, port) == h \in DOMAIN netmap.hosts /\ Edit([netmap EXCEPT !.usages = @ \cup {<<h, port>>}])
DeleteUsage(u) == u \in netmap.usages /\ Edit([netmap EXCEPT !.usages = @ \ {u}])

(* A measurement replaces the one before it on its path.                   *)
ReportProbe(src, dst, port, result) ==
  LET OnPath(p) == p.src = src /\ p.dst = dst /\ p.port = port
      others == SelectSeq(netmap.probes, LAMBDA p : ~OnPath(p))
  IN /\ {src, dst} \subseteq DOMAIN netmap.hosts /\ src # dst /\ Len(others) < MaxProbes
     /\ Edit([netmap EXCEPT
          !.probes = Append(others, [src |-> src, dst |-> dst, port |-> port, result |-> result]),
          !.openings = {[o EXCEPT !.since = {p \in @ : ~OnPath(p)}] : o \in @}])

NetInit == netmap \in FirstMaps /\ mapEdits = 0

NetNext ==
  \/ \E r \in RegionNames : DeleteRegion(r) \/ \E range \in RangesOf[r] : PutRegion(r, range)
  \/ \E hr \in HostRows : CreateHost(hr[1], hr[2]) \/ UpdateHost(hr[1], hr[2])
  \/ \E h \in HostNames :
       \/ DeleteHost(h)
       \/ \E src \in SourcesOf, span \in Spans : CreateOpening(src, h, span)
       \/ \E port \in UsedPorts : RecordUsage(h, port)
       \/ \E s \in HostNames, port \in ProbedPorts, result \in Results : ReportProbe(s, h, port, result)
  \/ \E o \in netmap.openings : UpdateOpening(o) \/ DeleteOpening(o)
  \/ \E u \in netmap.usages : DeleteUsage(u)

NetSpec == NetInit /\ [][NetNext]_netVars

-------------------------------------------------------------------------------
(* The port finder and the access check tell one story: a port is said to  *)
(* be reachable exactly if the check answers "open" for every source, and  *)
(* free exactly if besides nothing is known to listen there and no probe   *)
(* of the path as it is now timed out.  The spans are in order and apart,  *)
(* so that their lengths add up to the counts that are shown; what is      *)
(* suggested is free, once, the measured ports first, and there is         *)
(* something to suggest wherever something is free; a requested port is    *)
(* called free exactly if it is, and is then suggested first.              *)
InOrderAndApart(spans) ==
  \A i \in DOMAIN spans : spans[i][1] <= spans[i][2] /\ \A j \in DOMAIN spans : i < j => spans[i][2] + 1 < spans[j][1]

Ours(m) == {h \in DOMAIN m.hosts : m.hosts[h].kind = "managed"}
Askable(m, dst) == (DOMAIN m.hosts \ {dst}) \cup {ip \in Ips : HostAt(m, ip) = NoName}

FinderAgreesWithCheck ==
  \A dst \in Ours(netmap) : \A srcs \in SUBSET Askable(netmap, dst) \ {{}} :
    LET f == Found(netmap, srcs, dst)
        free == PortsOf(f.free)
    IN /\ PortsOf(f.reach) = {p \in 1..PortMax : \A s \in srcs :
                                Decide(netmap, Endpoint(netmap, s), Endpoint(netmap, dst), p) = "open"}
       /\ free = PortsOf(f.reach) \ (f.used \cup f.blocked)
       /\ InOrderAndApart(f.reach) /\ InOrderAndApart(f.free)
       /\ \A port \in 0..PortMax :
            LET suggested == Suggested(f, port)
            IN /\ Range(suggested) \subseteq free /\ IsInjective(suggested)
               /\ free # {} /\ ~f.any => suggested # <<>>
               /\ port # 0 => (Asked(f, port) = "free") = (port \in free)
               /\ port \in free /\ ~f.any => suggested[1] = port
               /\ \A i \in DOMAIN suggested, j \in DOMAIN suggested :
                    j < i /\ suggested[i] \in f.measured => suggested[j] \in f.measured \cup {port}
===============================================================================
