----------------------------- MODULE GatewayRoutes -----------------------------
(***************************************************************************)
(* The gateway routes as administrators edit them (routers/gateway.py):    *)
(* saves and deletions beside a change of the default timeout, and the     *)
(* listing kept for a while by which monitoring finds the name a route is  *)
(* counted under.                                                          *)
(***************************************************************************)
EXTENDS Integers, FiniteSets

CONSTANTS Plain,     \* ids of routes administrators may create
          System,    \* ids of routes provisioned at boot
          NewNames,  \* names beside the ids
          Bodies,    \* what a save may ask for, see BodyType
          Defaults,  \* values of gateway_route_timeout
          Admins,    \* requests at the same time
          ListingTTL,
          MaxEdits, MaxFaults, MaxTicks  \* bounds of the exploration

NoId == "none"  \* the id where there is no route
Ids == Plain \cup System
Names == NewNames \cup Ids

(* A header value that is absent or masked is kept, as is an auth that is  *)
(* not mentioned; a timeout of 0 asks for the default.                     *)
BodyType == [name : Names, key : {"kept", "dropped", "new"}, auth : {"kept", "on", "off"}, timeout : Nat]

ASSUME RoutesAssumption ==
  /\ Bodies \subseteq BodyType /\ Defaults \subseteq Nat \ {0} /\ Plain \cap System = {}
  /\ {ListingTTL, MaxEdits, MaxFaults, MaxTicks} \subseteq Nat
  /\ IsFiniteSet(System) /\ NoId \notin Ids

VARIABLES
  routes,    \* the routes at APISIX: name, header value (0: none), key-auth, override label, timeout
  default,   \* gateway_route_timeout of the settings manager
  job,       \* each request
  cache,     \* _ROUTE_LISTING_CACHE, as the name of each listed route, and its stamp
  fetch,     \* a listing that is on its way into the cache
  ticks,
  meant,     \* history: the header value and the timeout last asked for, by route
  torn,      \* history: routes whose edits have overlapped
  renamed,   \* history: two saves have overlapped
  unsynced,  \* history: routes a change of the default did not reach
  missed,    \* history: a write was under way, or lost its answer, around a fetch
  edits, faults

routeVars == <<routes, default, job, cache, fetch, ticks, meant, torn, renamed, unsynced, missed, edits, faults>>
cacheVars == <<cache, fetch, ticks, missed>>
tallies == <<torn, renamed, edits>>

NoRoute == [name |-> NoId, key |-> 0, auth |-> FALSE, own |-> FALSE, timeout |-> 0]
Provisioned(id) == [name |-> id, key |-> 1, auth |-> TRUE, own |-> FALSE, timeout |-> 0]
NoMeaning == [key |-> 0, timeout |-> 0, open |-> FALSE]
Quiet == [stage |-> "idle", id |-> NoId, body |-> NoRoute, means |-> NoMeaning, left |-> {}]
NoListing == [names |-> [id \in {} |-> NoId], at |-> -1]
NoFetch == [id \in Ids |-> "?"]

(* The name of each route that is there. *)
Listed == [id \in {i \in Ids : routes[i] # NoRoute} |-> routes[id].name]

RoutesInit ==
  /\ routes = [id \in Ids |-> IF id \in System THEN Provisioned(id) ELSE NoRoute]
  /\ default \in Defaults
  /\ job = [a \in Admins |-> Quiet]
  /\ cache = NoListing /\ fetch = NoFetch /\ ticks = 0
  /\ meant = [id \in Ids |-> [NoMeaning EXCEPT !.key = routes[id].key]]
  /\ torn = {} /\ renamed = FALSE /\ unsynced = {} /\ missed = FALSE /\ edits = 0 /\ faults = 0

Working(id) == {a \in Admins : job[a].stage # "idle" /\ job[a].id \in {id, NoId}}
Fault == faults < MaxFaults /\ faults' = faults + 1

(* An edit begins beside those that have not answered yet. *)
Begins(id) ==
  /\ edits < MaxEdits /\ edits' = edits + 1
  /\ torn' = torn \cup {i \in Ids : id \in {i, NoId} /\ Working(i) # {}}
  /\ renamed' = (renamed \/ \E a \in Admins : job[a].stage # "idle" /\ job[a].id # NoId)

-------------------------------------------------------------------------------
(* The name of another route, or its id, is refused; a route that is       *)
(* provisioned keeps its headers, its topology and its key-auth.           *)
Refused(id, body) ==
  IF id \in System
  THEN routes[id] = NoRoute \/ body.key = "new" \/ body.auth = "off"
  ELSE \E other \in DOMAIN Listed \ {id} : body.name \in {other, Listed[other]}

(* Mutant: a value that was not sent is taken as sent. *)
SentHeader(was, body) == IF body.key = "dropped" THEN 0 ELSE edits + 2

(* proxy-rewrite headers.set: a blank or masked value keeps what is        *)
(* stored, and a name that is not sent goes.                               *)
Header(was, body) ==
  CASE body.key = "kept" -> was.key [] body.key = "dropped" -> 0 [] body.key = "new" -> edits + 2

(* _inject_plugins and _apply_route_timeout, on the route as it was listed. *)
Built(id, was, body) ==
  [name |-> IF id \in System THEN id ELSE body.name,
   key |-> IF id \in System THEN was.key ELSE Header(was, body),
   auth |-> CASE body.auth = "on" -> TRUE [] body.auth = "off" -> FALSE
              [] body.auth = "kept" -> IF was = NoRoute THEN TRUE ELSE was.auth,
   own |-> body.timeout # 0,
   timeout |-> IF body.timeout # 0 THEN body.timeout ELSE default]

(* What the save asks for, of a route with this meaning. *)
Meaning(id, was, body) ==
  [key |-> IF id \in System \/ body.key = "kept" THEN was.key ELSE IF body.key = "new" THEN edits + 2 ELSE 0,
   timeout |-> body.timeout,
   open |-> body.auth = "off" \/ (body.auth = "kept" /\ was.open)]

(* save_route up to its PUT: one listing serves the checks and what is kept. *)
SaveRoute(a, id, body) ==
  /\ job[a].stage = "idle" /\ ~Refused(id, body) /\ Begins(id)
  /\ job' = [job EXCEPT ![a] = [Quiet EXCEPT !.stage = "put", !.id = id,
               !.body = Built(id, routes[id], body), !.means = Meaning(id, meant[id], body)]]
  /\ UNCHANGED <<routes, default, cacheVars, meant, unsynced, faults>>

(* delete_route, of a route that is not provisioned. *)
DeleteRoute(a, id) ==
  /\ job[a].stage = "idle" /\ id \in Plain /\ routes[id] # NoRoute /\ Begins(id)
  /\ job' = [job EXCEPT ![a] = [Quiet EXCEPT !.stage = "put", !.id = id]]
  /\ UNCHANGED <<routes, default, cacheVars, meant, unsynced, faults>>

(* The PUT or DELETE: it is applied, or not, and its answer may be lost. *)
PutRoute(a) ==
  /\ job[a].stage = "put"
  /\ LET id == job[a].id IN
     \E applied, answered \in BOOLEAN :
       /\ answered => applied
       /\ IF answered THEN UNCHANGED faults ELSE Fault
       /\ job' = [job EXCEPT ![a] = IF answered THEN [@ EXCEPT !.stage = "answer"] ELSE Quiet]
       /\ missed' = (missed \/ (applied /\ ~answered))
       /\ IF applied
          THEN /\ routes' = [routes EXCEPT ![id] = job[a].body]
               /\ meant' = [meant EXCEPT ![id] = job[a].means]
               /\ unsynced' = IF job[a].body.timeout = default THEN unsynced \ {id} ELSE unsynced \cup {id}
          ELSE UNCHANGED <<routes, meant, unsynced>>
  /\ UNCHANGED <<default, cache, fetch, ticks, tallies>>

(* _invalidate_route_listing_cache, once APISIX has answered. *)
Invalidated(a) == NoListing

AnsweredRoute(a) ==
  /\ job[a].stage = "answer" /\ job' = [job EXCEPT ![a] = Quiet]
  /\ cache' = Invalidated(a)
  /\ UNCHANGED <<routes, default, fetch, ticks, missed, meant, tallies, unsynced, faults>>

-------------------------------------------------------------------------------
(* PUT /admin/query/settings with another default: saved, then a listing   *)
(* says which routes to patch: not the provisioned ones, nor those with a  *)
(* timeout of their own.                                                   *)
ChangeDefault(a, seconds) ==
  /\ job[a].stage = "idle" /\ seconds # default /\ Begins(NoId)
  /\ default' = seconds
  /\ unsynced' = {id \in Plain : ~routes[id].own /\ routes[id].timeout # seconds}
  /\ job' = [job EXCEPT ![a] = [Quiet EXCEPT !.stage = "list"]]
  /\ UNCHANGED <<routes, cacheVars, meant, faults>>

ListForDefault(a) ==
  /\ job[a].stage = "list"
  /\ \/ /\ UNCHANGED faults
        /\ job' = [job EXCEPT ![a] = [@ EXCEPT !.stage = "patch",
             !.left = {id \in Plain : routes[id] # NoRoute /\ ~routes[id].own /\ routes[id].timeout # default}]]
     \/ Fault /\ job' = [job EXCEPT ![a] = Quiet]
  /\ UNCHANGED <<routes, default, cacheVars, meant, tallies, unsynced>>

(* One PATCH after the other; one that fails is only logged. *)
PatchTimeout(a, id) ==
  /\ job[a].stage = "patch" /\ id \in job[a].left
  /\ job' = [job EXCEPT ![a].left = @ \ {id}]
  /\ \/ Fault /\ UNCHANGED <<routes, unsynced>>
     \/ /\ UNCHANGED faults
        /\ IF routes[id] = NoRoute THEN UNCHANGED routes
           ELSE routes' = [routes EXCEPT ![id].timeout = default]
        /\ unsynced' = unsynced \ {id}
  /\ UNCHANGED <<default, cacheVars, meant, tallies>>

DefaultDone(a) ==
  /\ job[a].stage = "patch" /\ job[a].left = {}
  /\ job' = [job EXCEPT ![a] = Quiet]
  /\ UNCHANGED <<routes, default, cacheVars, meant, tallies, unsynced, faults>>

-------------------------------------------------------------------------------
Fresh == cache.at >= 0 /\ ticks - cache.at <= ListingTTL

(* _list_routes_cached: a listing is fetched, and kept with the time it    *)
(* arrived.                                                                *)
FetchListing ==
  /\ ~Fresh /\ fetch = NoFetch /\ fetch' = Listed
  /\ missed' = FALSE
  /\ UNCHANGED <<routes, default, job, cache, ticks, meant, tallies, unsynced, faults>>

KeepListing ==
  /\ fetch # NoFetch /\ fetch' = NoFetch
  /\ cache' = [names |-> fetch, at |-> ticks]
  /\ missed' = (missed \/ fetch # Listed)
  /\ UNCHANGED <<routes, default, job, ticks, meant, tallies, unsynced, faults>>

TickListing ==
  /\ ticks < MaxTicks /\ ticks' = ticks + 1
  /\ UNCHANGED <<routes, default, job, cache, fetch, missed, meant, tallies, unsynced, faults>>

RoutesNext ==
  \/ \E a \in Admins :
       \/ \E id \in Ids, body \in Bodies : SaveRoute(a, id, body)
       \/ \E id \in Ids : DeleteRoute(a, id) \/ PatchTimeout(a, id)
       \/ \E seconds \in Defaults : ChangeDefault(a, seconds)
       \/ PutRoute(a) \/ AnsweredRoute(a) \/ ListForDefault(a) \/ DefaultDone(a)
  \/ FetchListing \/ KeepListing \/ TickListing

RoutesSpec == RoutesInit /\ [][RoutesNext]_routeVars

-------------------------------------------------------------------------------
(* The other label a filter also matches (_route_filter_values): an id     *)
(* brings its name, and a name the id of the one route that has it, unless *)
(* that would take in another route.                                       *)
Owners(names, label) == {id \in DOMAIN names : names[id] = label}
AlsoMatched(names, label) ==
  IF label \in DOMAIN names
  THEN IF names[label] \notin DOMAIN names /\ Owners(names, names[label]) = {label}
       THEN {names[label]} ELSE {}
  ELSE IF Cardinality(Owners(names, label)) = 1 THEN Owners(names, label) ELSE {}

(* An edit that did not meet another one of the same route keeps what it   *)
(* was not asked to change and changes what it was asked to: the upstream  *)
(* credentials, whether a key is needed, and the timeout, which follows    *)
(* the default where it is not the route's own, also when the default has  *)
(* changed since, unless APISIX could not be reached.                      *)
EditsAreKept ==
  \A id \in Ids \ torn :
    (routes[id] # NoRoute /\ \A a \in Working(id) : job[a].id # NoId) =>
      /\ routes[id].key = meant[id].key
      /\ routes[id].auth = ~meant[id].open
      /\ routes[id].own = (meant[id].timeout # 0)
      /\ IF routes[id].own THEN routes[id].timeout = meant[id].timeout
         ELSE id \in Plain \ unsynced => routes[id].timeout = default

(* Monitoring counts a route under its name: two routes have one only if   *)
(* their saves overlapped.  A kept listing is what APISIX has, unless a    *)
(* write met the fetch or lost its answer, and then for no longer than it  *)
(* is fresh; while it is, and no route is called as another's id, a filter *)
(* takes in one route at most, also one that was renamed or made anew.     *)
LabelsTellRoutesApart ==
  /\ ~renamed => \A id \in DOMAIN Listed, other \in DOMAIN Listed : Listed[id] = Listed[other] => id = other
  /\ Fresh /\ ~missed /\ (\A a \in Admins : job[a].stage # "answer") =>
       /\ cache.names = Listed
       /\ (\A id \in DOMAIN Listed : Listed[id] \notin DOMAIN Listed \ {id}) =>
            \A label \in Names : \A also \in AlsoMatched(cache.names, label) :
              Cardinality(Owners(Listed, label) \cup Owners(Listed, also)) <= 1

(* Together: what one reads of the routes, and what one saves of them, is  *)
(* not undone by what somebody else did meanwhile.                         *)
RoutesAreKept == EditsAreKept /\ LabelsTellRoutesApart
===============================================================================
