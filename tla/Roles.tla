--------------------------------- MODULE Roles ---------------------------------
(***************************************************************************)
(* What a role may do: the roles and role_permissions tables, seeded by    *)
(* every boot of either color (database.py) and edited by administrators   *)
(* (routers/roles.py), and the cache of them that each process decides     *)
(* with (auth.py).  The tables are shared by the colors; the cache is not. *)
(***************************************************************************)
EXTENDS Naturals, FiniteSets

CONSTANTS Stacks,      \* the processes: the two colors
          Releases,    \* what each may run, as [head, seed]: the newest
                       \* migration it knows, its ROLE_SEED_VERSION
          Seeds,       \* _seed_role_definitions of each seed version
          FirstSeeds,  \* by which the tables may be written at the start, or 0
          Custom,      \* names of roles that administrators create
          Contents,    \* sets of permissions an edit may ask for
          Deciders,    \* requests at the same time
          Needed,      \* the permission an edit of roles requires
          MaxAsks, MaxStarts  \* bounds of the exploration

Versions == DOMAIN Seeds
SystemRoles == UNION {DOMAIN Seeds[v] : v \in Versions}
RoleNames == SystemRoles \cup Custom
Actors == {"admin", "user"}  \* ROLE_PRIORITY: the roles a token may carry

ASSUME RolesAssumption ==
  /\ Versions \subseteq Nat \ {0} /\ SystemRoles \cap Custom = {} /\ Actors \subseteq SystemRoles
  /\ Deciders \cap {"nobody", "answered", "other"} = {}
  /\ \A v \in FirstSeeds \ {0}, f \in Releases : \E s \in Stacks : f[s].seed = v
  /\ Releases \subseteq [Stacks -> [head : Nat, seed : Versions]]
  /\ MaxAsks \in Nat /\ MaxStarts \in Nat

VARIABLES
  images,  \* what each process runs
  table,   \* the committed rows of each role, and how many roles have had
           \* its name: their ids differ
  schema,  \* the revision of the database
  stored,  \* role_seed_version in system_config
  start,   \* where the boot of each process is
  cache,   \* _perm_cache of each process, and whether it is within its TTL
  locked,  \* who holds _cache_lock of each process
  asked,   \* each request
  asks, starts,
  (* History, beside what a cache and a refresh missed: see Old. *)
  best,    \* the newest seed version that a boot completed
  intact,  \* the roles nobody touched since the last completed seeding
  orderly  \* no two boots seeded side by side

roleVars == <<images, table, schema, stored, start, cache, locked, asked, asks, starts,
              best, intact, orderly>>

RoleExists(r) == table[r].here
Never == [id |-> 0, here |-> FALSE, system |-> FALSE, may |-> {}]
Gone(row) == [id |-> row.id, here |-> FALSE, system |-> FALSE, may |-> {}]
Added(row, system, may) == [id |-> row.id + 1, here |-> TRUE, system |-> system, may |-> may]
Permitted == [r \in RoleNames |-> table[r].may]

(* What a process read of the tables, and (history) the commits it missed: *)
(* by the request for an edit of its own, "answered" once that request has *)
(* been answered, "other" for whatever else changed the tables.            *)
Nothing == [of |-> [r \in RoleNames |-> {}], missed |-> {}]
Nobody == "nobody"
Stale == [fresh |-> FALSE, view |-> Nothing]
Unlocked == [by |-> Nobody, view |-> Nothing]
Miss(view, what) == [view EXCEPT !.missed = @ \cup {what}]
NoAsk == [at |-> "free"]
Off == [at |-> "off", todo |-> {}, gone |-> {}, mixed |-> {}]

(* The image of one color, or none, has seeded the tables before. *)
RolesInit ==
  /\ images \in Releases
  /\ \E v \in FirstSeeds :
       /\ table = [r \in RoleNames |-> IF v # 0 /\ r \in DOMAIN Seeds[v] THEN Added(Never, TRUE, Seeds[v][r])
                                                                      ELSE Never]
       /\ schema = (IF v = 0 THEN 0 ELSE images[CHOOSE s \in Stacks : images[s].seed = v].head)
       /\ stored = v /\ best = v
       /\ intact = IF v = 0 THEN {} ELSE DOMAIN Seeds[v]
  /\ start = [s \in Stacks |-> Off]
  /\ cache = [s \in Stacks |-> Stale]
  /\ locked = [s \in Stacks |-> Unlocked]
  /\ asked = [d \in Deciders |-> NoAsk]
  /\ asks = 0 /\ starts = 0 /\ orderly = TRUE

tables == <<images, table, schema, stored, best, intact, orderly>>
processes == <<start, cache, locked, starts>>

-------------------------------------------------------------------------------
(* A transaction that replaces the permissions of a role: its DELETE takes *)
(* the rows that are committed then and holds them, so that another DELETE *)
(* of the same rows waits; its INSERT runs into the unique constraint when *)
(* a row it adds was committed in between.                                 *)
Replaced(r, gone, body) == (table[r].may \ gone) \cup body
Clashes(r, gone, body) == (table[r].may \ gone) \cap body # {}

(* Rows of a role that an uncommitted DELETE holds. *)
HeldByEdits(r, but) ==
  UNION {asked[d].gone : d \in {e \in Deciders \ {but} : /\ asked[e].at = "commit"
                                                         /\ asked[e].op = "update"
                                                         /\ asked[e].role = r}}
HeldByBoots(r, but) ==
  UNION {start[s].gone : s \in {o \in Stacks \ {but} : start[o].at = "insert" /\ r = start[o].role}}

Seeding == {s \in Stacks : start[s].at \in {"prune", "delete", "insert", "stamp"}}

(* Whoever read the tables before a commit in process s has missed it. *)
Missed(s, what) ==
  LET seen(o, view) == Miss(view, IF o = s THEN what ELSE "other") IN
  /\ cache' = [o \in Stacks |-> IF cache[o].fresh THEN [cache[o] EXCEPT !.view = seen(o, @)] ELSE cache[o]]
  /\ locked' = [o \in Stacks |-> IF locked[o].by # Nobody THEN [locked[o] EXCEPT !.view = seen(o, @)]
                                                          ELSE locked[o]]

(* A commit of an administrator is seen by every boot that is under way. *)
Touches(r) ==
  /\ intact' = intact \ {r}
  /\ start' = [s \in Stacks |-> IF s \in Seeding THEN [start[s] EXCEPT !.mixed = @ \cup {r}]
                                                 ELSE start[s]]

-------------------------------------------------------------------------------
(* init_db, _run_alembic_upgrade: a database that is past this image's     *)
(* head is left alone, the roles included.                                 *)
StartUp(s) ==
  /\ start[s].at = "off" /\ starts < MaxStarts /\ starts' = starts + 1
  /\ IF schema > images[s].head
     THEN start' = [start EXCEPT ![s].at = "on"] /\ UNCHANGED schema
     ELSE start' = [start EXCEPT ![s].at = "seed"] /\ schema' = images[s].head
  /\ UNCHANGED <<images, table, stored, cache, locked, asked, asks, best, intact, orderly>>

(* Mutant: every boot writes its own definitions. *)
WrittenByNewer(s) == FALSE
(* _seed_roles: what a newer image wrote stays. *)
SeededByNewer(s) == stored > images[s].seed

ReadSeedVersion(s) ==
  /\ start[s].at = "seed"
  /\ start' = [start EXCEPT ![s] = IF SeededByNewer(s) THEN [Off EXCEPT !.at = "on"]
                                                       ELSE [Off EXCEPT !.at = "prune"]]
  /\ orderly' = (orderly /\ (SeededByNewer(s) \/ Seeding = {}))
  /\ UNCHANGED <<images, table, schema, stored, cache, locked, asked, asks, starts, best, intact>>

(* System roles this image does not know go, with their permissions. *)
Prune(s) ==
  /\ start[s].at = "prune"
  /\ LET mine == DOMAIN Seeds[images[s].seed] IN
     /\ table' = [r \in RoleNames |-> IF table[r].system /\ r \notin mine THEN Gone(table[r]) ELSE table[r]]
     /\ start' = [start EXCEPT ![s].at = "delete", ![s].todo = mine]
  /\ intact' = {} /\ Missed(s, "other")
  /\ UNCHANGED <<images, schema, stored, asked, asks, starts, best, orderly>>

(* One transaction for each role. *)
SeedDeletes(s, r) ==
  /\ start[s].at = "delete" /\ r \in start[s].todo
  /\ start' = [start EXCEPT ![s] = [at |-> "insert", role |-> r, todo |-> @.todo \ {r},
                                    gone |-> table[r].may, mixed |-> @.mixed]]
  /\ UNCHANGED <<tables, cache, locked, asked, asks, starts>>

SeedCommits(s) ==
  /\ start[s].at = "insert"
  /\ LET r == start[s].role  gone == start[s].gone  body == Seeds[images[s].seed][r] IN
     /\ (HeldByEdits(r, Nobody) \cup HeldByBoots(r, s)) \cap gone = {}
     /\ IF Clashes(r, gone, body)  \* IntegrityError: the boot fails
        THEN start' = [start EXCEPT ![s] = Off] /\ UNCHANGED <<table, cache, locked>>
        ELSE /\ table' = [table EXCEPT ![r] = IF @.here THEN [@ EXCEPT !.may = Replaced(r, gone, body)]
                                                        ELSE Added(@, TRUE, body)]
             /\ Missed(s, "other")
             /\ start' = [start EXCEPT ![s] =
                            [at |-> IF @.todo = {} THEN "stamp" ELSE "delete",
                             todo |-> @.todo, gone |-> {}, mixed |-> @.mixed]]
  /\ UNCHANGED <<images, schema, stored, asked, asks, starts, best, intact, orderly>>

Stamp(s) ==
  /\ start[s].at = "stamp"
  /\ stored' = images[s].seed
  /\ best' = IF best < images[s].seed THEN images[s].seed ELSE best
  /\ intact' = DOMAIN Seeds[images[s].seed] \ start[s].mixed
  /\ start' = [start EXCEPT ![s] = [Off EXCEPT !.at = "on"]]
  /\ UNCHANGED <<images, table, schema, cache, locked, asked, asks, starts, orderly>>

(* The process ends; what its requests had not committed is undone. *)
Crash(s) ==
  /\ start[s].at # "off"
  /\ start' = [start EXCEPT ![s] = Off]
  /\ cache' = [cache EXCEPT ![s] = Stale]
  /\ locked' = [locked EXCEPT ![s] = Unlocked]
  /\ asked' = [d \in Deciders |-> IF asked[d].at # "free" /\ asked[d].stack = s THEN NoAsk ELSE asked[d]]
  /\ UNCHANGED <<tables, asks, starts>>

-------------------------------------------------------------------------------
(* A request: somebody who acts under a role asks for something that needs *)
(* a permission (require_permission), an edit of a role among others.      *)
Ask(d, s, actor, op, r, body) ==
  /\ asked[d].at = "free" /\ asks < MaxAsks /\ asks' = asks + 1
  /\ start[s].at = "on"
  /\ asked' = [asked EXCEPT ![d] = [at |-> "decide", stack |-> s, actor |-> actor, op |-> op,
                                    role |-> r, body |-> body]]
  /\ UNCHANGED <<tables, processes>>

(* What follows the decision: the lookup of the edit, or the end. *)
Judged(d, may) ==
  IF asked[d].op # "read" /\ Needed \in may THEN [asked EXCEPT ![d].at = "lookup"]
                                            ELSE [asked EXCEPT ![d] = NoAsk]

(* get_role_permissions: with a fresh cache at once, otherwise under the   *)
(* lock, where a cache that another request refreshed meanwhile will do.   *)
Decide(d) ==
  /\ asked[d].at = "decide"
  /\ LET s == asked[d].stack IN
     /\ cache[s].fresh
     /\ asked' = Judged(d, cache[s].view.of[asked[d].actor])
  /\ UNCHANGED <<tables, processes, asks>>

(* _refresh_cache: the rows are read, and stored when they have arrived. *)
Refresh(d) ==
  /\ asked[d].at = "decide"
  /\ LET s == asked[d].stack IN
     /\ ~cache[s].fresh /\ locked[s].by = Nobody
     /\ locked' = [locked EXCEPT ![s] = [by |-> d, view |-> [of |-> Permitted, missed |-> {}]]]
  /\ UNCHANGED <<tables, start, cache, starts, asked, asks>>

Refreshed(d, ok) ==
  /\ asked[d].at = "decide"
  /\ LET s == asked[d].stack  view == locked[s].view IN
     /\ locked[s].by = d /\ locked' = [locked EXCEPT ![s] = Unlocked]
     /\ IF ok THEN /\ cache' = [cache EXCEPT ![s] = [fresh |-> TRUE, view |-> view]]
                   /\ asked' = Judged(d, view.of[asked[d].actor])
              ELSE asked' = [asked EXCEPT ![d] = NoAsk] /\ UNCHANGED cache
  /\ UNCHANGED <<tables, start, starts, asks>>

(* The TTL of a cache passes. *)
CacheExpires(s) ==
  /\ cache[s].fresh
  /\ cache' = [cache EXCEPT ![s] = Stale]
  /\ UNCHANGED <<tables, start, locked, starts, asked, asks>>

-------------------------------------------------------------------------------
Refuse(d) == asked' = [asked EXCEPT ![d] = NoAsk]

(* create_role, update_role and delete_role up to their last check: 404,   *)
(* 409, and no edit of one's own role nor deletion of a system role.       *)
Lookup(d) ==
  /\ asked[d].at = "lookup"
  /\ LET t == asked[d] IN
     IF CASE t.op = "create" -> RoleExists(t.role)
          [] t.op = "update" -> ~RoleExists(t.role) \/ t.role = t.actor
          [] t.op = "delete" -> ~RoleExists(t.role) \/ t.role = t.actor \/ table[t.role].system
     THEN Refuse(d)
     ELSE asked' = [asked EXCEPT ![d] = [at |-> IF t.op = "update" THEN "delete" ELSE "commit",
            stack |-> t.stack, actor |-> t.actor, op |-> t.op, role |-> t.role, body |-> t.body,
            id |-> table[t.role].id, gone |-> {}]]
  /\ UNCHANGED <<tables, processes, asks>>

(* The DELETE of an update, of rows that are committed. *)
DeleteOld(d) ==
  /\ asked[d].at = "delete"
  /\ LET t == asked[d] IN
     asked' = [asked EXCEPT ![d].at = "commit",
                 ![d].gone = IF table[t.role].id = t.id THEN table[t.role].may ELSE {}]
  /\ UNCHANGED <<tables, processes, asks>>

(* What the transaction leaves, or that it fails: the role was created,    *)
(* deleted or written by another in between.                               *)
Written(t) ==
  CASE t.op = "create" -> Added(table[t.role], FALSE, t.body)
    [] t.op = "update" -> [table[t.role] EXCEPT !.may = Replaced(t.role, t.gone, t.body)]
    [] t.op = "delete" -> Gone(table[t.role])
EditFails(t) ==
  \/ table[t.role].id # t.id \/ (t.op = "create") = RoleExists(t.role)
  \/ t.op = "update" /\ Clashes(t.role, t.gone, t.body)

CommitEdit(d) ==
  /\ asked[d].at = "commit"
  /\ LET t == asked[d] IN
     /\ t.op = "update" => (HeldByEdits(t.role, d) \cup HeldByBoots(t.role, Nobody)) \cap t.gone = {}
     /\ IF EditFails(t)
        THEN Refuse(d) /\ UNCHANGED <<table, intact, start, cache, locked>>
        ELSE /\ table' = [table EXCEPT ![t.role] = Written(t)]
             /\ Touches(t.role) /\ Missed(t.stack, d)
             /\ asked' = [asked EXCEPT ![d] = [at |-> "invalidate", stack |-> t.stack]]
  /\ UNCHANGED <<images, schema, stored, best, orderly, asks, starts>>

(* Mutant: the cache is dropped without the lock. *)
NeverWaits(s) == TRUE
MayInvalidate(s) == locked[s].by = Nobody

(* invalidate_permission_cache, and the answer to the administrator. *)
Invalidate(d) ==
  /\ asked[d].at = "invalidate"
  /\ LET s == asked[d].stack IN
     /\ MayInvalidate(s)
     /\ cache' = [cache EXCEPT ![s] = Stale]
     /\ locked' = [locked EXCEPT ![s].view.missed =
                     IF d \in @ THEN (@ \ {d}) \cup {"answered"} ELSE @]
  /\ Refuse(d)
  /\ UNCHANGED <<tables, start, starts, asks>>

RolesNext ==
  \/ \E s \in Stacks : \/ StartUp(s) \/ ReadSeedVersion(s) \/ Prune(s) \/ SeedCommits(s) \/ Stamp(s)
                       \/ Crash(s) \/ CacheExpires(s) \/ \E r \in SystemRoles : SeedDeletes(s, r)
  \/ \E d \in Deciders :
       \/ \E s \in Stacks, actor \in Actors :
            \/ Ask(d, s, actor, "read", actor, {}) \/ \E r \in RoleNames : Ask(d, s, actor, "delete", r, {})
            \/ \E r \in RoleNames, op \in {"create", "update"}, body \in Contents : Ask(d, s, actor, op, r, body)
       \/ Decide(d) \/ Refresh(d) \/ (\E ok \in BOOLEAN : Refreshed(d, ok))
       \/ Lookup(d) \/ DeleteOld(d) \/ CommitEdit(d) \/ Invalidate(d)

RolesSpec == RolesInit /\ [][RolesNext]_roleVars

-------------------------------------------------------------------------------
(* A process that has answered an edit decides by it from then on: no      *)
(* cache it decides with was read before the commit, however the refresh   *)
(* of another request is timed, and what it holds is what was committed    *)
(* (_cache_lock, invalidate_permission_cache).                             *)
DecisionsFollowEdits ==
  \A s \in Stacks : cache[s].fresh =>
    /\ "answered" \notin cache[s].view.missed
    /\ cache[s].view.missed = {} => cache[s].view.of = Permitted

(* The system roles stay what the newest image made them, whichever color  *)
(* boots, crashes and boots again, until an administrator edits them: an   *)
(* old image never takes a permission away again (ROLE_SEED_VERSION).      *)
SeedsNeverGoBack ==
  orderly => \A r \in intact : best > 0 /\ table[r].may = Seeds[best][r]
===============================================================================
