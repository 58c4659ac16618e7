------------------------------ MODULE QueryLimits ------------------------------
(***************************************************************************)
(* What bounds the queries of a user: the in-memory RateLimiter of the     *)
(* service (rate_limiter.py), the middleware and the query routes that     *)
(* count and undo, and the runtime settings (settings_manager.py) its      *)
(* limits come from, changed by the settings route while queries run.      *)
(***************************************************************************)
EXTENDS Integers, FiniteSets, Functions

CONSTANTS Asks,          \* requests at the same time
          KeyUsers,      \* consumers that come with an API key
          WebUsers,      \* users that come with a bearer token
          Savers,        \* PUT /admin/query/settings at the same time
          Bodies,        \* what a PUT may hold: each sets some of the limits
          FirstLimits,   \* the limits in the table at the start
          Window,        \* 60 seconds
          MaxTime, MaxSaves, MaxRestarts  \* bounds of the exploration

Fields == {"rate", "slots"}  \* rate_limit_per_minute, max_concurrent_queries

ASSUME LimitsAssumption ==
  /\ Window \in Nat \ {0} /\ {MaxTime, MaxSaves, MaxRestarts} \subseteq Nat
  /\ KeyUsers \cap WebUsers = {} /\ IsFiniteSet(Asks)
  /\ FirstLimits \in [Fields -> Nat]

Users == KeyUsers \cup WebUsers
Times == 0..MaxTime

VARIABLES
  now,
  limits,     \* _rate_limit and _max_concurrent of the limiter
  requests,   \* _requests: how many stamps of each time each user has
  concurrent, \* _concurrent
  ask,        \* each request: its stage, user, route, and the stamp it holds
  memory,     \* the settings manager
  table,      \* the system_config rows, as committed
  saver,      \* each PUT: what it still has to do
  counted,    \* history: how many requests let through at each time have passed their 401
  committed,  \* history: the values each setting has had in the table
  overlapped, \* history: two PUTs have been under way at once
  saves, restarts

limitVars == <<now, limits, requests, concurrent, ask, memory, table, saver,
               counted, committed, overlapped, saves, restarts>>
settingVars == <<limits, memory, table, saver, committed, overlapped, saves>>
askVars == <<requests, concurrent, ask, counted>>

Unstamped == -1
Quiet == [stage |-> "free", user |-> "-", route |-> "-", stamp |-> Unstamped]
NoStamps == [t \in Times |-> 0]
NoBody == [f \in {} |-> 0]
Patched(values, body) == [f \in Fields |-> IF f \in DOMAIN body THEN body[f] ELSE values[f]]

LimitsInit ==
  /\ now = 0
  /\ limits = FirstLimits /\ memory = FirstLimits /\ table = FirstLimits
  /\ requests = [u \in Users |-> NoStamps] /\ concurrent = [u \in Users |-> 0]
  /\ ask = [r \in Asks |-> Quiet]
  /\ saver = [s \in Savers |-> [stage |-> "free", body |-> NoBody]]
  /\ counted = [u \in Users |-> NoStamps]
  /\ committed = [f \in Fields |-> {FirstLimits[f]}]
  /\ overlapped = FALSE /\ saves = 0 /\ restarts = 0

-------------------------------------------------------------------------------
(* What the sliding window still sees; check_rate_limit drops the rest.    *)
Recent(stamps) == [t \in Times |-> IF t > now - Window THEN stamps[t] ELSE 0]

Stamped(stamps) == [stamps EXCEPT ![now] = @ + 1]
Full(u) == SumFunction(Recent(requests[u])) >= limits.rate

(* check_rate_limit: a request that is let through goes on with its stamp, *)
(* a refused one is answered 429.                                          *)
Checked(r, u, next) ==
  IF Full(u)
  THEN /\ requests' = [requests EXCEPT ![u] = Recent(@)]
       /\ ask' = [ask EXCEPT ![r] = Quiet]
  ELSE /\ requests' = [requests EXCEPT ![u] = Stamped(Recent(@))]
       /\ ask' = [ask EXCEPT ![r] = next]

(* RateLimitMiddleware.dispatch: only POST .../query/execute of an API key *)
(* consumer is checked before its identity is known.                       *)
Arrive(r, u, route) ==
  /\ ask[r].stage = "free"
  /\ LET next == [stage |-> "auth", user |-> u, route |-> route, stamp |-> Unstamped] IN
     IF u \in KeyUsers /\ route = "execute" THEN Checked(r, u, [next EXCEPT !.stamp = now])
     ELSE ask' = [ask EXCEPT ![r] = next] /\ UNCHANGED requests
  /\ UNCHANGED <<now, concurrent, counted, settingVars, restarts>>

Passed(u, t) == [counted EXCEPT ![u][t] = @ + 1]

(* _run_query checks a bearer-token user once the token is verified; a     *)
(* catalog read is not counted at all.                                     *)
Authenticated(r) ==
  /\ ask[r].stage = "auth"
  /\ LET u == ask[r].user  next == [Quiet EXCEPT !.stage = "checks", !.user = u] IN
     IF u \in WebUsers /\ ask[r].route # "catalog"
     THEN /\ Checked(r, u, next)
          /\ counted' = IF ask'[r] = next THEN Passed(u, now) ELSE counted
     ELSE /\ ask' = [ask EXCEPT ![r] = next] /\ UNCHANGED requests
          /\ counted' = IF ask[r].stamp = Unstamped THEN counted ELSE Passed(u, ask[r].stamp)
  /\ UNCHANGED <<now, concurrent, settingVars, restarts>>

(* Mutant: the newest stamp of the user is taken for one's own. *)
WithoutNewest(stamps, t) ==
  LET held == {x \in Times : stamps[x] > 0} IN
  IF held = {} THEN stamps ELSE [stamps EXCEPT ![CHOOSE x \in held : \A y \in held : y <= x] = @ - 1]

(* The stamp that undo_rate_count takes out, if it is still there. *)
Without(stamps, t) == IF stamps[t] > 0 THEN [stamps EXCEPT ![t] = @ - 1] ELSE stamps

(* A 401 comes back through the middleware, which undoes what it counted.  *)
Unauthorized(r) ==
  /\ ask[r].stage = "auth"
  /\ LET u == ask[r].user  t == ask[r].stamp IN
     requests' = IF t = Unstamped THEN requests ELSE [requests EXCEPT ![u] = Without(@, t)]
  /\ ask' = [ask EXCEPT ![r] = Quiet]
  /\ UNCHANGED <<now, concurrent, counted, settingVars, restarts>>

(* A 403 or 404 of the checks before the query counts against the user.    *)
Rejected(r) ==
  /\ ask[r].stage = "checks" /\ ask' = [ask EXCEPT ![r] = Quiet]
  /\ UNCHANGED <<now, requests, concurrent, counted, settingVars, restarts>>

(* try_acquire: a slot, or 429. *)
Acquire(r) ==
  /\ ask[r].stage = "checks"
  /\ LET u == ask[r].user IN
     IF concurrent[u] >= limits.slots
     THEN ask' = [ask EXCEPT ![r] = Quiet] /\ UNCHANGED concurrent
     ELSE /\ ask' = [ask EXCEPT ![r].stage = "running"]
          /\ concurrent' = [concurrent EXCEPT ![u] = @ + 1]
  /\ UNCHANGED <<now, requests, counted, settingVars, restarts>>

(* The finally clause, whether the query answered, failed or timed out.    *)
Release(r) ==
  /\ ask[r].stage = "running"
  /\ LET u == ask[r].user IN
     concurrent' = [concurrent EXCEPT ![u] = IF @ > 0 THEN @ - 1 ELSE @]
  /\ ask' = [ask EXCEPT ![r] = Quiet]
  /\ UNCHANGED <<now, requests, counted, settingVars, restarts>>

-------------------------------------------------------------------------------
(* SettingsManager.update sets its own values at once, and then goes to    *)
(* the table.                                                              *)
Save(s, body) ==
  /\ saves < MaxSaves /\ saves' = saves + 1
  /\ saver[s].stage = "free"
  /\ saver' = [saver EXCEPT ![s] = [stage |-> "commit", body |-> body]]
  /\ memory' = Patched(memory, body)
  /\ overlapped' = (overlapped \/ \E o \in Savers : saver[o].stage # "free")
  /\ UNCHANGED <<now, limits, table, committed, restarts, askVars>>

SaveCommits(s) ==
  /\ saver[s].stage = "commit"
  /\ saver' = [saver EXCEPT ![s].stage = "sync"]
  /\ table' = Patched(table, saver[s].body)
  /\ committed' = [f \in Fields |-> committed[f] \cup {table'[f]}]
  /\ UNCHANGED <<now, limits, memory, overlapped, saves, restarts, askVars>>

(* The transaction fails: the route ends, with the settings manager ahead  *)
(* of the table until the next save or boot.                               *)
SaveFails(s) ==
  /\ saver[s].stage = "commit"
  /\ saver' = [saver EXCEPT ![s] = [stage |-> "free", body |-> NoBody]]
  /\ UNCHANGED <<now, limits, memory, table, committed, overlapped, saves, restarts, askVars>>

(* What update_limits is given. *)
Synced(s) == Patched(limits, saver[s].body)

SaveSyncs(s) ==
  /\ saver[s].stage = "sync"
  /\ saver' = [saver EXCEPT ![s] = [stage |-> "free", body |-> NoBody]]
  /\ limits' = Synced(s)
  /\ UNCHANGED <<now, memory, table, committed, overlapped, saves, restarts, askVars>>

-------------------------------------------------------------------------------
Tick ==
  /\ now < MaxTime /\ now' = now + 1
  /\ counted' = [u \in Users |-> [t \in Times |-> IF t > now' - Window THEN counted[u][t] ELSE 0]]
  /\ UNCHANGED <<requests, concurrent, ask, settingVars, restarts>>

(* The process ends and comes back: load_from_db and update_limits.        *)
Restart ==
  /\ restarts < MaxRestarts /\ restarts' = restarts + 1
  /\ memory' = table /\ limits' = table
  /\ requests' = [u \in Users |-> NoStamps] /\ concurrent' = [u \in Users |-> 0]
  /\ counted' = [u \in Users |-> NoStamps]
  /\ ask' = [r \in Asks |-> Quiet]
  /\ saver' = [s \in Savers |-> [stage |-> "free", body |-> NoBody]]
  /\ overlapped' = FALSE
  /\ UNCHANGED <<now, table, committed, saves>>

LimitsNext ==
  \/ \E r \in Asks :
       \/ \E u \in Users, route \in {"execute", "template", "catalog"} : Arrive(r, u, route)
       \/ Authenticated(r) \/ Unauthorized(r) \/ Rejected(r) \/ Acquire(r) \/ Release(r)
  \/ \E s \in Savers : (\E body \in Bodies : Save(s, body)) \/ SaveCommits(s) \/ SaveFails(s) \/ SaveSyncs(s)
  \/ Tick \/ Restart

LimitsSpec == LimitsInit /\ [][LimitsNext]_limitVars

-------------------------------------------------------------------------------
(* The window of a user holds the requests that were let through and not   *)
(* taken back with a 401, each once: those past that point and those that  *)
(* still may be taken back.  Taking one back never takes another's place   *)
(* ("exactly their own entry", undo_rate_count).                           *)
WindowIsExact ==
  \A u \in Users : \A t \in {x \in Times : x > now - Window} :
    requests[u][t] = counted[u][t]
      + Cardinality({r \in Asks : ask[r].stage = "auth" /\ ask[r].user = u /\ ask[r].stamp = t})

(* A user holds as many slots as it has queries running, through refusals, *)
(* failures and changes of the limit.                                      *)
SlotsAreHeld ==
  \A u \in Users :
    concurrent[u] = Cardinality({r \in Asks : ask[r].stage = "running" /\ ask[r].user = u})

(* The limits in force have been in the table, and once saves that did not *)
(* overlap are over they are what the table says.                          *)
LimitsWereCommitted ==
  /\ \A f \in Fields : limits[f] \in committed[f]
  /\ ~overlapped /\ (\A s \in Savers : saver[s].stage = "free") => limits = table

(* The limiter counts exactly, and against limits that were committed.     *)
LimiterIsExact == WindowIsExact /\ SlotsAreHeld /\ LimitsWereCommitted
===============================================================================
