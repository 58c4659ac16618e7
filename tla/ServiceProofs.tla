----------------------------- MODULE ServiceProofs -----------------------------
(***************************************************************************)
(* The clients of the registered databases stay sound, what a remote MCP   *)
(* server offers stays seen and approved, and the limiter counts exactly:  *)
(* proofs for ConnectionPools, McpServers and QueryLimits, which share no  *)
(* variable.                                                               *)
(***************************************************************************)
EXTENDS ConnectionPools, McpServers, QueryLimits, FiniteSetTheorems, TLAPS

(***************************************************************************)
(* The client of a registered database.                                    *)
(***************************************************************************)
ClientType == [kind : Kinds, version : Nat, open : BOOLEAN]
ARow == [id : Nat \ {0}, kind : Kinds, version : Nat]
Wanted == [id : Nat, kind : Kinds \cup {"none"}, version : Nat]
TaskType == [stage : {"idle", "commit", "refresh", "close", "closing", "make", "erase"},
             then : {"end", "create", "update", "delete"}, want : Wanted, closing : SUBSET Nat]
QueryType == [stage : {"idle", "checked", "running"}, kind : Kinds \cup {"unknown"}, client : Nat]

PoolTypes ==
  /\ row \in ARow \cup {NoRow} /\ versions \in Nat
  /\ clients \in Seq(ClientType)
  /\ registry \in [Kinds -> Nat] /\ dbtype \in Kinds \cup {"unknown"}
  /\ task \in [AdminTasks -> TaskType]
  /\ query \in [Queries -> QueryType]
  /\ raced \in BOOLEAN /\ failed \in BOOLEAN

(* A thread is at a client that was made; one that closes it does so for a *)
(* request that waits for it, and for each request there is one.           *)
IsThread(t) ==
  /\ t = [id |-> t.id, client |-> t.client, of |-> t.of, job |-> t.job, at |-> t.at]
  /\ t.client \in DOMAIN clients
  /\ t.job = "close" => t.of \in AdminTasks /\ task[t.of].stage = "closing" /\ t.client \in task[t.of].closing

ThreadsAreAtWork ==
  /\ \A t \in threads : IsThread(t)
  /\ \A t, u \in threads : t.job = "close" /\ u.job = "close" /\ t.of = u.of => t = u

(* Who is at a client that bears one call at a time holds its lock. *)
CallersHoldTheLock ==
  \A t \in threads : t.at = "call" /\ clients[t.client].kind \in Serial => t.client \in locked

RegistryIsByKind ==
  \A k \in Kinds : registry[k] # None => registry[k] \in DOMAIN clients /\ clients[registry[k]].kind = k

(* What a request has popped, to close it, is in no registry. *)
PoppedIsGone ==
  \A a \in AdminTasks :
    /\ task[a].closing \subseteq DOMAIN clients /\ task[a].closing \cap Registered = {}
    /\ task[a].stage \in {"close", "closing"} <=> task[a].closing # {}

TasksKnowTheirRow ==
  \A a \in AdminTasks :
    /\ task[a].stage = "commit" => /\ task[a].then \in {"create", "update"} /\ task[a].want.kind \in Kinds
                                   /\ task[a].then = "create" <=> task[a].want.id = 0
    /\ task[a].stage \in {"refresh", "close", "closing", "make", "erase"} => task[a].want \in ARow
    /\ task[a].stage \in {"refresh", "make"} => task[a].then # "delete"
    /\ task[a].stage = "erase" => task[a].then = "delete"

QueriesKnowTheirKind ==
  \A q \in Queries :
    /\ query[q].stage # "idle" => query[q].kind \in Kinds
    /\ query[q].stage = "running" => query[q].client \in DOMAIN clients

(* What holds of the registry when no request is beyond its commit. *)
Following ==
  /\ \A c \in Registered : clients[c].version = row.version
  /\ Registered # {} => dbtype = row.kind
  /\ ~failed => (Registered = {} <=> row = NoRow)

(* As long as admin requests have not overlapped, the one at work knows    *)
(* the row as it is, and what is open is registered or about to be closed. *)
WorkIsAlone ==
  ~raced =>
    /\ \A a, b \in AdminTasks : ~Idle(a) /\ ~Idle(b) => a = b
    /\ \A c \in Registered : clients[c].kind = row.kind
    /\ \A c \in DOMAIN clients : clients[c].open => c \in Registered \/ \E a \in AdminTasks : c \in task[a].closing
    /\ \A a \in AdminTasks :
         /\ \A c, d \in task[a].closing : c = d
         /\ ~Idle(a) => row = IF task[a].stage = "commit" /\ task[a].then = "create" THEN NoRow ELSE task[a].want
         /\ task[a].stage \in {"close", "closing", "make", "erase"} => Registered = {}
    /\ (\A a \in AdminTasks : task[a].stage \in {"idle", "commit"}) => Following

PoolsInv ==
  /\ PoolTypes /\ ThreadsAreAtWork /\ CallersHoldTheLock /\ RegistryIsByKind /\ PoppedIsGone
  /\ TasksKnowTheirRow /\ QueriesKnowTheirKind /\ WorkIsAlone /\ ClientsAreSound

-------------------------------------------------------------------------------
LEMMA InRegistry ==
  ASSUME NEW c
  PROVE  c \in Registered <=> \E k \in Kinds : registry[k] = c /\ c # None
BY DEF Registered

LEMMA KindsAreNames == "unknown" \notin Kinds /\ "none" \notin Kinds
BY PoolsAssumption

LEMMA PoolsInvInit == PoolsInit => PoolsInv
<1>. SUFFICES ASSUME PoolsInit PROVE PoolsInv
  OBVIOUS
<1>. USE DEF PoolsInit
<1>1. IdleTask \in TaskType /\ IdleTask.stage = "idle" /\ IdleTask.closing = {} /\ IdleTask.then = "end"
  BY DEF IdleTask, TaskType, NoRow, Wanted
<1>2. IdleQuery \in QueryType /\ IdleQuery.stage = "idle"
  BY DEF IdleQuery, QueryType, None
<1>3. Registered = {} /\ DOMAIN clients = {}
  BY DEF Registered
<1>4. PoolTypes
  <2>1. None \in Nat /\ clients \in Seq(ClientType)
    BY DEF None
  <2>2. task \in [AdminTasks -> TaskType] /\ query \in [Queries -> QueryType] /\ registry \in [Kinds -> Nat]
    BY <1>1, <1>2, <2>1
  <2>. QED
    BY <2>1, <2>2 DEF PoolTypes
<1>5. ThreadsAreAtWork /\ CallersHoldTheLock /\ RegistryIsByKind /\ PoppedIsGone
  BY <1>1, <1>3 DEF ThreadsAreAtWork, CallersHoldTheLock, RegistryIsByKind, PoppedIsGone
<1>6. TasksKnowTheirRow /\ QueriesKnowTheirKind
  BY <1>1, <1>2 DEF TasksKnowTheirRow, QueriesKnowTheirKind
<1>7. WorkIsAlone
  BY <1>1, <1>3 DEF WorkIsAlone, Following, Idle
<1>8. ClientsAreSound
  BY <1>1, <1>2, <1>3 DEF ClientsAreSound, PoolsAreUsedSafely, CallsAreSerial, QueryRunsAsValidated,
     RegistryIsTheTable, RegisteredIsOpen, SettledRegistry
<1>. QED
  BY <1>4, <1>5, <1>6, <1>7, <1>8 DEF PoolsInv

-------------------------------------------------------------------------------
(* What no administrator has touched stays as it was. *)
LEMMA RegistryUntouched ==
  ASSUME PoolsInv, UNCHANGED <<row, versions, registry, dbtype, clients, task, raced, failed>>,
         query' \in [Queries -> QueryType]
  PROVE  /\ PoolTypes' /\ RegistryIsByKind' /\ PoppedIsGone' /\ TasksKnowTheirRow' /\ WorkIsAlone'
         /\ RegistryIsTheTable'
<1>1. PoolTypes'
  BY DEF PoolsInv, PoolTypes
<1>2. Registered' = Registered /\ \A a \in AdminTasks : Idle(a)' = Idle(a)
  BY DEF Registered, Idle
<1>3. RegistryIsByKind' /\ PoppedIsGone' /\ TasksKnowTheirRow'
  BY <1>2 DEF PoolsInv, RegistryIsByKind, PoppedIsGone, TasksKnowTheirRow
<1>4. WorkIsAlone'
  BY <1>2 DEF PoolsInv, WorkIsAlone, Following
<1>5. RegistryIsTheTable'
  BY <1>2 DEF PoolsInv, ClientsAreSound, RegistryIsTheTable, RegisteredIsOpen, SettledRegistry
<1>. QED
  BY <1>1, <1>3, <1>4, <1>5

(* Threads stay at what they do while clients are added or shut. *)
LEMMA ThreadsUntouched ==
  ASSUME PoolsInv, UNCHANGED <<threads, locked>>, DOMAIN clients \subseteq DOMAIN clients',
         \A c \in DOMAIN clients : clients'[c].kind = clients[c].kind,
         \A a \in AdminTasks : task[a].stage = "closing" => task'[a] = task[a]
  PROVE  ThreadsAreAtWork' /\ CallersHoldTheLock' /\ CallsAreSerial'
<1>1. ThreadsAreAtWork'
  BY DEF PoolsInv, ThreadsAreAtWork, IsThread
<1>2. CallersHoldTheLock' /\ CallsAreSerial'
  BY DEF PoolsInv, ThreadsAreAtWork, IsThread, CallersHoldTheLock, ClientsAreSound, PoolsAreUsedSafely, CallsAreSerial
<1>. QED
  BY <1>1, <1>2

LEMMA QueriesUntouched ==
  ASSUME PoolsInv, UNCHANGED query, DOMAIN clients \subseteq DOMAIN clients',
         \A c \in DOMAIN clients : clients'[c].kind = clients[c].kind
  PROVE  QueriesKnowTheirKind' /\ QueryRunsAsValidated'
<1>1. QueriesKnowTheirKind'
  BY DEF PoolsInv, QueriesKnowTheirKind
<1>2. QueryRunsAsValidated'
  BY DEF PoolsInv, ClientsAreSound, PoolsAreUsedSafely, QueryRunsAsValidated, QueriesKnowTheirKind
<1>. QED
  BY <1>1, <1>2

(* A new thread waits for the lock of a client that was made. *)
LEMMA ThreadAdded ==
  ASSUME PoolsInv, NEW c \in DOMAIN clients, NEW of, NEW job \in {"query", "close"},
         UNCHANGED <<clients, locked>>, threads' = threads \cup {Waiting(c, of, job)},
         \A a \in AdminTasks : task[a].stage = "closing" => task'[a] = task[a],
         job = "close" => /\ of \in AdminTasks /\ task[of].stage # "closing"
                          /\ task'[of].stage = "closing" /\ c \in task'[of].closing
  PROVE  ThreadsAreAtWork' /\ CallersHoldTheLock' /\ CallsAreSerial'
<1>. DEFINE new == Waiting(c, of, job)
<1>1. /\ new = [id |-> new.id, client |-> new.client, of |-> new.of, job |-> new.job, at |-> new.at]
      /\ new.client = c /\ new.of = of /\ new.job = job /\ new.at = "lock"
  BY DEF Waiting
<1>2. threads' = threads \cup {new}
  OBVIOUS
<1>. HIDE DEF new
<1>3. \A t \in threads : t.job = "close" => t.of \in AdminTasks /\ task[t.of].stage = "closing"
  BY DEF PoolsInv, ThreadsAreAtWork, IsThread
<1>4. ThreadsAreAtWork'
  <2>1. \A t \in threads' : IsThread(t)'
    BY <1>1, <1>2 DEF PoolsInv, ThreadsAreAtWork, IsThread
  <2>2. ASSUME NEW t \in threads', NEW u \in threads', t.job = "close", u.job = "close", t.of = u.of
        PROVE  t = u
    BY <1>1, <1>2, <1>3, <2>2 DEF PoolsInv, ThreadsAreAtWork
  <2>. QED
    BY <2>1, <2>2 DEF ThreadsAreAtWork
<1>5. CallersHoldTheLock' /\ CallsAreSerial'
  BY <1>1, <1>2 DEF PoolsInv, CallersHoldTheLock, ClientsAreSound, PoolsAreUsedSafely, CallsAreSerial
<1>. QED
  BY <1>4, <1>5

(* A thread is done and has given its lock back. *)
LEMMA ThreadGone ==
  ASSUME PoolsInv, NEW t \in threads, Leaves(t), DOMAIN clients \subseteq DOMAIN clients',
         \A c \in DOMAIN clients : clients'[c].kind = clients[c].kind,
         \A a \in AdminTasks : task[a].stage = "closing" /\ (t.job = "close" => a # t.of) => task'[a] = task[a]
  PROVE  ThreadsAreAtWork' /\ CallersHoldTheLock' /\ CallsAreSerial'
<1>1. threads' = threads \ {t} /\ locked' = locked \ {t.client} /\ t.at = "call"
  BY DEF Leaves
<1>2. \A u \in threads : u.client \in DOMAIN clients
  BY DEF PoolsInv, ThreadsAreAtWork, IsThread
<1>3. ThreadsAreAtWork'
  <2>1. ASSUME NEW u \in threads' PROVE IsThread(u)'
    <3>1. u \in threads /\ u # t /\ IsThread(u)
      BY <1>1 DEF PoolsInv, ThreadsAreAtWork
    <3>2. u.job = "close" => task'[u.of] = task[u.of]
      BY <3>1 DEF PoolsInv, ThreadsAreAtWork, IsThread
    <3>. QED
      BY <3>1, <3>2 DEF IsThread
  <2>2. \A u, v \in threads' : u.job = "close" /\ v.job = "close" /\ u.of = v.of => u = v
    BY <1>1 DEF PoolsInv, ThreadsAreAtWork
  <2>. QED
    BY <2>1, <2>2 DEF ThreadsAreAtWork
<1>4. CallsAreSerial'
  BY <1>1, <1>2 DEF PoolsInv, ClientsAreSound, PoolsAreUsedSafely, CallsAreSerial
<1>5. CallersHoldTheLock'
  <2>. SUFFICES ASSUME NEW u \in threads', u.at = "call", clients'[u.client].kind \in Serial
                PROVE  u.client \in locked'
    BY DEF CallersHoldTheLock
  <2>1. u \in threads /\ u # t /\ clients[u.client].kind \in Serial
    BY <1>1, <1>2
  <2>2. u.client \in locked
    BY <2>1 DEF PoolsInv, CallersHoldTheLock
  <2>3. u.client # t.client
    BY <1>1, <2>1 DEF PoolsInv, ClientsAreSound, PoolsAreUsedSafely, CallsAreSerial
  <2>. QED
    BY <1>1, <2>2, <2>3
<1>. QED
  BY <1>3, <1>4, <1>5

-------------------------------------------------------------------------------
(* What queries and their threads do. *)
LEMMA LockTaken ==
  ASSUME PoolsInv, NEW t \in threads, TakesLock(t)
  PROVE  PoolsInv'
<1>. DEFINE new == [t EXCEPT !.at = "call"]
<1>1. /\ t = [id |-> t.id, client |-> t.client, of |-> t.of, job |-> t.job, at |-> t.at]
      /\ \A u \in threads : u.client \in DOMAIN clients
  BY DEF PoolsInv, ThreadsAreAtWork, IsThread
<1>2. /\ new = [id |-> new.id, client |-> new.client, of |-> new.of, job |-> new.job, at |-> new.at]
      /\ new.client = t.client /\ new.of = t.of /\ new.job = t.job /\ new.at = "call"
  BY <1>1
<1>3. /\ threads' = (threads \ {t}) \cup {new} /\ t.at = "lock" /\ t.client \notin locked
      /\ locked' = locked \cup (IF clients[t.client].kind \in Serial THEN {t.client} ELSE {})
      /\ UNCHANGED <<tableVars, managerVars, task, failed, requestVars>>
  BY DEF TakesLock
<1>. HIDE DEF new
<1>4. ThreadsAreAtWork'
  <2>1. \A u \in threads' : IsThread(u)'
    BY <1>2, <1>3 DEF PoolsInv, ThreadsAreAtWork, IsThread, managerVars
  <2>2. \A u, v \in threads' : u.job = "close" /\ v.job = "close" /\ u.of = v.of => u = v
    BY <1>2, <1>3 DEF PoolsInv, ThreadsAreAtWork
  <2>. QED
    BY <2>1, <2>2 DEF ThreadsAreAtWork
<1>5. CallersHoldTheLock'
  BY <1>2, <1>3 DEF PoolsInv, CallersHoldTheLock, managerVars
<1>6. CallsAreSerial'
  <2>. SUFFICES ASSUME NEW u \in threads', NEW v \in threads', u.at = "call", v.at = "call",
                       clients[u.client].kind \in Serial, u.client = v.client
                PROVE  u = v
    BY <1>3 DEF CallsAreSerial, managerVars
  <2>1. \A w \in threads : w.at = "call" /\ clients[w.client].kind \in Serial => w.client # t.client
    BY <1>3 DEF PoolsInv, CallersHoldTheLock
  <2>2. CallsAreSerial
    BY DEF PoolsInv, ClientsAreSound, PoolsAreUsedSafely
  <2>. QED
    BY <1>2, <1>3, <2>1, <2>2 DEF CallsAreSerial
<1>7. QueriesKnowTheirKind' /\ QueryRunsAsValidated' /\ query' \in [Queries -> QueryType]
  BY <1>3, QueriesUntouched DEF managerVars, requestVars, PoolsInv, PoolTypes
<1>8. /\ PoolTypes' /\ RegistryIsByKind' /\ PoppedIsGone' /\ TasksKnowTheirRow' /\ WorkIsAlone'
      /\ RegistryIsTheTable'
  BY <1>3, <1>7, RegistryUntouched DEF tableVars, managerVars, requestVars
<1>. QED
  BY <1>4, <1>5, <1>6, <1>7, <1>8 DEF PoolsInv, ClientsAreSound, PoolsAreUsedSafely

LEMMA CallEnded ==
  ASSUME PoolsInv, NEW t \in threads, CallEnds(t)
  PROVE  PoolsInv'
<1>1. /\ t.job = "query" /\ Leaves(t)
      /\ query' = IF t.of \in Queries THEN [query EXCEPT ![t.of] = IdleQuery] ELSE query
      /\ UNCHANGED <<tableVars, managerVars, task, raced, failed, boots>>
  BY DEF CallEnds
<1>2. IdleQuery \in QueryType /\ IdleQuery.stage = "idle"
  BY DEF IdleQuery, QueryType, None
<1>3. query' \in [Queries -> QueryType]
  BY <1>1, <1>2 DEF PoolsInv, PoolTypes
<1>4. QueriesKnowTheirKind' /\ QueryRunsAsValidated'
  BY <1>1, <1>2 DEF PoolsInv, PoolTypes, QueriesKnowTheirKind, ClientsAreSound, PoolsAreUsedSafely,
     QueryRunsAsValidated, managerVars
<1>5. ThreadsAreAtWork' /\ CallersHoldTheLock' /\ CallsAreSerial'
  BY <1>1, ThreadGone DEF managerVars
<1>6. /\ PoolTypes' /\ RegistryIsByKind' /\ PoppedIsGone' /\ TasksKnowTheirRow' /\ WorkIsAlone'
      /\ RegistryIsTheTable'
  BY <1>1, <1>3, RegistryUntouched DEF tableVars, managerVars
<1>. QED
  BY <1>4, <1>5, <1>6 DEF PoolsInv, ClientsAreSound, PoolsAreUsedSafely

LEMMA Validated ==
  ASSUME PoolsInv, NEW q \in Queries, Validate(q)
  PROVE  PoolsInv'
<1>1. /\ dbtype \in Kinds
      /\ query' = [query EXCEPT ![q].stage = "checked", ![q].kind = dbtype]
      /\ UNCHANGED <<tableVars, managerVars, threadVars, task, raced, failed, boots>>
  BY DEF Validate, PoolsInv, PoolTypes
<1>2. query' \in [Queries -> QueryType]
  BY <1>1 DEF PoolsInv, PoolTypes, QueryType
<1>3. QueriesKnowTheirKind' /\ QueryRunsAsValidated'
  BY <1>1 DEF PoolsInv, PoolTypes, QueryType, QueriesKnowTheirKind, ClientsAreSound, PoolsAreUsedSafely,
     QueryRunsAsValidated, managerVars
<1>4. ThreadsAreAtWork' /\ CallersHoldTheLock' /\ CallsAreSerial'
  BY <1>1, ThreadsUntouched DEF managerVars, threadVars
<1>5. /\ PoolTypes' /\ RegistryIsByKind' /\ PoppedIsGone' /\ TasksKnowTheirRow' /\ WorkIsAlone'
      /\ RegistryIsTheTable'
  BY <1>1, <1>2, RegistryUntouched DEF tableVars, managerVars
<1>. QED
  BY <1>3, <1>4, <1>5 DEF PoolsInv, ClientsAreSound, PoolsAreUsedSafely

LEMMA Fetched ==
  ASSUME PoolsInv, NEW q \in Queries, Fetch(q)
  PROVE  PoolsInv'
<1>. DEFINE c == LookedUp(q)
<1>1. /\ query[q].stage = "checked" /\ query[q].kind \in Kinds
      /\ UNCHANGED <<tableVars, managerVars, locked, task, raced, failed, boots>>
  BY DEF Fetch, PoolsInv, QueriesKnowTheirKind
<1>2. IdleQuery \in QueryType /\ IdleQuery.stage = "idle"
  BY DEF IdleQuery, QueryType, None
<1>3. c # None => c \in DOMAIN clients /\ clients[c].kind = query[q].kind
  BY <1>1 DEF LookedUp, PoolsInv, RegistryIsByKind
<1>4. c \in Nat
  BY <1>1 DEF LookedUp, PoolsInv, PoolTypes
<1>5. \/ c = None /\ query' = [query EXCEPT ![q] = IdleQuery] /\ UNCHANGED threads
      \/ /\ c # None /\ query' = [query EXCEPT ![q].stage = "running", ![q].client = c]
         /\ UNCHANGED threads \/ threads' = threads \cup {Waiting(c, q, "query")}
  BY DEF Fetch
<1>. HIDE DEF c
<1>6. query' \in [Queries -> QueryType]
  <2>1. CASE query' = [query EXCEPT ![q] = IdleQuery]
    BY <1>2, <2>1 DEF PoolsInv, PoolTypes
  <2>2. CASE query' = [query EXCEPT ![q].stage = "running", ![q].client = c]
    BY <1>4, <2>2 DEF PoolsInv, PoolTypes, QueryType
  <2>. QED
    BY <1>5, <2>1, <2>2
<1>7. QueriesKnowTheirKind' /\ QueryRunsAsValidated'
  <2>1. CASE query' = [query EXCEPT ![q] = IdleQuery]
    BY <1>1, <1>2, <2>1 DEF PoolsInv, PoolTypes, QueriesKnowTheirKind, ClientsAreSound, PoolsAreUsedSafely,
       QueryRunsAsValidated, managerVars
  <2>2. CASE c # None /\ query' = [query EXCEPT ![q].stage = "running", ![q].client = c]
    <3>1. query'[q].stage = "running" /\ query'[q].client = c /\ query'[q].kind = query[q].kind
      BY <2>2 DEF PoolsInv, PoolTypes, QueryType
    <3>2. \A r \in Queries \ {q} : query'[r] = query[r]
      BY <2>2 DEF PoolsInv, PoolTypes
    <3>. QED
      BY <1>1, <1>3, <2>2, <3>1, <3>2 DEF PoolsInv, QueriesKnowTheirKind, ClientsAreSound, PoolsAreUsedSafely,
         QueryRunsAsValidated, managerVars
  <2>. QED
    BY <1>5, <2>1, <2>2
<1>8. ThreadsAreAtWork' /\ CallersHoldTheLock' /\ CallsAreSerial'
  <2>1. CASE UNCHANGED threads
    BY <1>1, <2>1, ThreadsUntouched DEF managerVars
  <2>2. CASE c # None /\ threads' = threads \cup {Waiting(c, q, "query")}
    <3>1. UNCHANGED <<clients, locked, task>> /\ c \in DOMAIN clients
      BY <1>1, <1>3, <2>2 DEF managerVars
    <3>. QED
      BY <2>2, <3>1, ThreadAdded
  <2>. QED
    BY <1>5, <2>1, <2>2
<1>9. /\ PoolTypes' /\ RegistryIsByKind' /\ PoppedIsGone' /\ TasksKnowTheirRow' /\ WorkIsAlone'
      /\ RegistryIsTheTable'
  BY <1>1, <1>6, RegistryUntouched DEF tableVars, managerVars
<1>. QED
  BY <1>7, <1>8, <1>9 DEF PoolsInv, ClientsAreSound, PoolsAreUsedSafely

(* A request that gives up leaves its thread at its call, with its lock. *)
LEMMA GaveUp ==
  ASSUME PoolsInv, NEW q \in Queries, TimedOut(q)
  PROVE  PoolsInv'
<1>. DEFINE Left(t) == [t EXCEPT !.of = IF @ = q THEN NoOne ELSE @]
<1>1. /\ query' = [query EXCEPT ![q] = IdleQuery]
      /\ threads' = {Left(t) : t \in threads} /\ UNCHANGED locked
      /\ UNCHANGED <<tableVars, managerVars, task, raced, failed, boots>>
  BY DEF TimedOut, Abandoned
<1>2. ASSUME NEW t \in threads
      PROVE  /\ Left(t) = [id |-> t.id, client |-> t.client, of |-> IF t.of = q THEN NoOne ELSE t.of,
                           job |-> t.job, at |-> t.at]
             /\ Left(t).client = t.client /\ Left(t).at = t.at /\ Left(t).job = t.job
             /\ t.job = "close" => Left(t).of = t.of
             /\ Left(t) = [id |-> Left(t).id, client |-> Left(t).client, of |-> Left(t).of,
                           job |-> Left(t).job, at |-> Left(t).at]
  <2>1. /\ t = [id |-> t.id, client |-> t.client, of |-> t.of, job |-> t.job, at |-> t.at]
        /\ t.job = "close" => t.of \in AdminTasks
    BY DEF PoolsInv, ThreadsAreAtWork, IsThread
  <2>2. t.job = "close" => t.of # q
    BY <2>1, PoolsAssumption
  <2>3. Left(t) = [id |-> t.id, client |-> t.client, of |-> IF t.of = q THEN NoOne ELSE t.of,
                   job |-> t.job, at |-> t.at]
    BY <2>1
  <2>. QED
    BY <2>2, <2>3
<1>3. \A u \in threads' : \E t \in threads : u = Left(t)
  BY <1>1
<1>. HIDE DEF Left
<1>4. ThreadsAreAtWork'
  <2>1. ASSUME NEW u \in threads' PROVE IsThread(u)'
    <3>1. PICK t \in threads : u = Left(t)
      BY <1>3
    <3>2. IsThread(t)
      BY DEF PoolsInv, ThreadsAreAtWork
    <3>. QED
      BY <1>1, <1>2, <3>1, <3>2 DEF IsThread, managerVars
  <2>2. ASSUME NEW u \in threads', NEW v \in threads', u.job = "close", v.job = "close", u.of = v.of
        PROVE  u = v
    BY <1>2, <1>3, <2>2 DEF PoolsInv, ThreadsAreAtWork
  <2>. QED
    BY <2>1, <2>2 DEF ThreadsAreAtWork
<1>5. CallersHoldTheLock' /\ CallsAreSerial'
  BY <1>1, <1>2, <1>3 DEF PoolsInv, CallersHoldTheLock, ClientsAreSound, PoolsAreUsedSafely, CallsAreSerial,
     managerVars
<1>6. IdleQuery \in QueryType /\ IdleQuery.stage = "idle"
  BY DEF IdleQuery, QueryType, None
<1>7. query' \in [Queries -> QueryType] /\ QueriesKnowTheirKind' /\ QueryRunsAsValidated'
  BY <1>1, <1>6 DEF PoolsInv, PoolTypes, QueriesKnowTheirKind, ClientsAreSound, PoolsAreUsedSafely,
     QueryRunsAsValidated, managerVars
<1>8. /\ PoolTypes' /\ RegistryIsByKind' /\ PoppedIsGone' /\ TasksKnowTheirRow' /\ WorkIsAlone'
      /\ RegistryIsTheTable'
  BY <1>1, <1>7, RegistryUntouched DEF tableVars, managerVars
<1>. QED
  BY <1>4, <1>5, <1>7, <1>8 DEF PoolsInv, ClientsAreSound, PoolsAreUsedSafely

LEMMA QueryAnswered ==
  ASSUME PoolsInv, NEW q \in Queries, Answered(q)
  PROVE  PoolsInv'
<1>1. /\ query' = [query EXCEPT ![q] = IdleQuery]
      /\ UNCHANGED <<tableVars, managerVars, threadVars, task, raced, failed, boots>>
  BY DEF Answered
<1>2. IdleQuery \in QueryType /\ IdleQuery.stage = "idle"
  BY DEF IdleQuery, QueryType, None
<1>3. query' \in [Queries -> QueryType] /\ QueriesKnowTheirKind' /\ QueryRunsAsValidated'
  BY <1>1, <1>2 DEF PoolsInv, PoolTypes, QueriesKnowTheirKind, ClientsAreSound, PoolsAreUsedSafely,
     QueryRunsAsValidated, managerVars
<1>4. ThreadsAreAtWork' /\ CallersHoldTheLock' /\ CallsAreSerial'
  BY <1>1, ThreadsUntouched DEF managerVars, threadVars
<1>5. /\ PoolTypes' /\ RegistryIsByKind' /\ PoppedIsGone' /\ TasksKnowTheirRow' /\ WorkIsAlone'
      /\ RegistryIsTheTable'
  BY <1>1, <1>3, RegistryUntouched DEF tableVars, managerVars
<1>. QED
  BY <1>3, <1>4, <1>5 DEF PoolsInv, ClientsAreSound, PoolsAreUsedSafely

-------------------------------------------------------------------------------
(* Administrators: what a request does to the row, the registry and the    *)
(* clients, with whoever is at work beside it.                             *)
RegistryInv ==
  /\ PoolTypes /\ RegistryIsByKind /\ PoppedIsGone /\ TasksKnowTheirRow /\ WorkIsAlone
  /\ RegistryIsTheTable

Grown == /\ DOMAIN clients \subseteq DOMAIN clients'
         /\ \A c \in DOMAIN clients : clients'[c].kind = clients[c].kind

(* Nobody but the given request has done anything. *)
Others(a) == \A b \in AdminTasks \ {a} : task'[b] = task[b]

LEMMA IdleTaskIsIdle ==
  IdleTask \in TaskType /\ IdleTask.stage = "idle" /\ IdleTask.closing = {} /\ IdleTask.then = "end"
BY DEF IdleTask, TaskType, NoRow, Wanted

LEMMA AdminStep ==
  ASSUME PoolsInv, RegistryInv', Grown, UNCHANGED <<threads, locked, query>>,
         NEW a \in AdminTasks, task[a].stage # "closing", Others(a)
  PROVE  PoolsInv'
<1>1. QueriesKnowTheirKind' /\ QueryRunsAsValidated'
  BY QueriesUntouched DEF Grown
<1>2. ThreadsAreAtWork' /\ CallersHoldTheLock' /\ CallsAreSerial'
  BY ThreadsUntouched DEF Grown, Others
<1>. QED
  BY <1>1, <1>2 DEF RegistryInv, PoolsInv, ClientsAreSound, PoolsAreUsedSafely

(* The new client is in its registry, or could not be made. *)
LEMMA ClientRegistered ==
  ASSUME PoolsInv, NEW a \in AdminTasks, NEW made, NEW want \in ARow, Registers(a, made, want),
         made \in Seq(ClientType), Len(made) = Len(clients),
         \A c \in DOMAIN clients : made[c].kind = clients[c].kind,
         \A c \in Registered : made[c] = clients[c],
         UNCHANGED <<row, versions, raced, query>>,
         ~raced => ~Idle(a) /\ Registered = {} /\ row = want /\ \A c \in DOMAIN made : ~made[c].open
  PROVE  RegistryInv' /\ Grown /\ Others(a)
<1>1. task' = [task EXCEPT ![a] = IdleTask]
  BY DEF Registers
<1>2. task'[a] = IdleTask /\ Others(a) /\ task' \in [AdminTasks -> TaskType]
  BY <1>1, IdleTaskIsIdle DEF PoolsInv, PoolTypes, Others
<1>3. DOMAIN made = 1..Len(clients) /\ DOMAIN clients = 1..Len(clients) /\ Len(clients) \in Nat
  BY DEF PoolsInv, PoolTypes
<1>4. TasksKnowTheirRow'
  BY <1>2, IdleTaskIsIdle DEF PoolsInv, TasksKnowTheirRow, Others
<1>5. \A c \in Registered : c \in DOMAIN clients
  BY InRegistry DEF PoolsInv, RegistryIsByKind
<1>6. ~raced => \A b \in AdminTasks : task'[b].stage = "idle" /\ task'[b].closing = {}
  BY <1>2, IdleTaskIsIdle DEF PoolsInv, WorkIsAlone, Idle, Others, PoppedIsGone
<1>7. CASE clients' = made /\ failed' = TRUE /\ UNCHANGED <<registry, dbtype>>
  <2>1. Registered' = Registered /\ Grown
    BY <1>3, <1>7 DEF Registered, Grown
  <2>2. PoolTypes'
    BY <1>2, <1>7 DEF PoolsInv, PoolTypes
  <2>3. RegistryIsByKind'
    BY <1>3, <1>7 DEF PoolsInv, RegistryIsByKind
  <2>4. PoppedIsGone'
    BY <1>2, <1>3, <1>7, <2>1, IdleTaskIsIdle DEF PoolsInv, PoppedIsGone, Others
  <2>5. WorkIsAlone'
    BY <1>3, <1>6, <1>7, <2>1 DEF WorkIsAlone, Following, Idle
  <2>6. RegisteredIsOpen'
    BY <1>3, <1>5, <1>7, <2>1 DEF PoolsInv, ClientsAreSound, RegistryIsTheTable, RegisteredIsOpen
  <2>7. SettledRegistry'
    BY <1>3, <1>7, <2>1 DEF SettledRegistry
  <2>. QED
    BY <1>2, <1>4, <2>1, <2>2, <2>3, <2>4, <2>5, <2>6, <2>7 DEF RegistryInv, RegistryIsTheTable
<1>8. CASE /\ clients' = Append(made, [kind |-> want.kind, version |-> want.version, open |-> TRUE])
           /\ registry' = [registry EXCEPT ![want.kind] = Len(clients')]
           /\ dbtype' = want.kind /\ failed' = FALSE
  <2>. DEFINE new == [kind |-> want.kind, version |-> want.version, open |-> TRUE]
              n == Len(clients) + 1
  <2>1. /\ new \in ClientType /\ new.kind = want.kind /\ new.version = want.version /\ new.open
        /\ want.kind \in Kinds
    BY DEF ClientType, ARow
  <2>2. clients' = Append(made, new)
    BY <1>8
  <2>. HIDE DEF new
  <2>3. /\ clients' \in Seq(ClientType) /\ Len(clients') = n /\ DOMAIN clients' = 1..n
        /\ clients'[n] = new /\ \A c \in DOMAIN clients : clients'[c] = made[c]
    BY <1>3, <2>1, <2>2
  <2>4. n \in Nat /\ n # None /\ n \notin DOMAIN clients
    BY <1>3 DEF None
  <2>5. registry' = [registry EXCEPT ![want.kind] = n]
    BY <1>8, <2>3
  <2>6. /\ registry' \in [Kinds -> Nat] /\ registry'[want.kind] = n
        /\ \A k \in Kinds \ {want.kind} : registry'[k] = registry[k]
    BY <2>1, <2>4, <2>5 DEF PoolsInv, PoolTypes
  <2>. HIDE DEF n
  <2>7. n \in Registered' /\ \A c \in Registered' : c = n \/ c \in Registered
    BY <2>1, <2>4, <2>6 DEF Registered
  <2>8. PoolTypes'
    BY <1>2, <1>8, <2>1, <2>3, <2>6 DEF PoolsInv, PoolTypes
  <2>9. Grown
    BY <2>3, <1>3, <2>4 DEF Grown, n
  <2>10. RegistryIsByKind'
    <3>. SUFFICES ASSUME NEW k \in Kinds, registry'[k] # None
                  PROVE  registry'[k] \in DOMAIN clients' /\ clients'[registry'[k]].kind = k
      BY DEF RegistryIsByKind
    <3>1. CASE k = want.kind
      <4>1. n \in 1..n
        BY <1>3 DEF n
      <4>. QED
        BY <3>1, <4>1, <2>1, <2>3, <2>6
    <3>2. CASE k # want.kind
      BY <3>2, <2>6, <2>9 DEF Grown, PoolsInv, RegistryIsByKind
    <3>. QED
      BY <3>1, <3>2
  <2>11. PoppedIsGone'
    BY <1>2, <2>4, <2>7, <2>9, IdleTaskIsIdle DEF PoolsInv, PoppedIsGone, Others, Grown
  <2>12. RegisteredIsOpen'
    BY <1>5, <1>8, <2>1, <2>3, <2>4, <2>6, <2>7 DEF PoolsInv, ClientsAreSound, RegistryIsTheTable, RegisteredIsOpen
  <2>13. ASSUME ~raced
         PROVE  /\ \A c \in Registered' : c = n
                /\ \A c \in DOMAIN clients' : clients'[c].open => c = n
                /\ row = want /\ row # NoRow
    <3>1. row = want /\ row # NoRow /\ Registered = {}
      BY <2>13 DEF ARow, NoRow
    <3>2. \A c \in DOMAIN clients' : c = n \/ c \in DOMAIN clients
      BY <1>3, <2>3 DEF n
    <3>. QED
      BY <1>3, <2>3, <2>7, <2>13, <3>1, <3>2
  <2>14. WorkIsAlone'
    BY <1>6, <1>8, <2>1, <2>3, <2>7, <2>13 DEF WorkIsAlone, Following, Idle
  <2>15. SettledRegistry'
    BY <1>8, <2>1, <2>3, <2>7, <2>13 DEF SettledRegistry
  <2>. QED
    BY <1>2, <1>4, <2>8, <2>9, <2>10, <2>11, <2>12, <2>14, <2>15 DEF RegistryInv, RegistryIsTheTable
<1>. QED
  BY <1>7, <1>8 DEF Registers

LEMMA RankIsNumber ==
  ASSUME NEW k \in Kinds
  PROVE  Rank(k) \in 1..4
<1>1. \E i \in DOMAIN Order : Order[i] = k
  BY PoolsAssumption DEF Order
<1>2. DOMAIN Order = 1..4
  BY DEF Order
<1>. QED
  BY <1>1, <1>2 DEF Rank

(* There is a client to close next among those to close. *)
LEMMA NextIsToClose ==
  ASSUME PoolsInv, NEW a \in AdminTasks, task[a].closing # {}
  PROVE  NextToClose(a) \in task[a].closing
<1>. DEFINE S == task[a].closing
            r(c) == Rank(clients[c].kind)
<1>1. \A c \in S : r(c) \in 1..4
  <2>. SUFFICES ASSUME NEW c \in S PROVE r(c) \in 1..4
    OBVIOUS
  <2>1. c \in DOMAIN clients /\ clients \in Seq(ClientType)
    BY DEF PoolsInv, PoppedIsGone, PoolTypes
  <2>2. clients[c] \in ClientType
    BY <2>1
  <2>3. clients[c].kind \in Kinds
    BY <2>2 DEF ClientType
  <2>. QED
    BY <2>3, RankIsNumber
<1>2. \E c \in S : \A d \in S : r(c) <= r(d)
  <2>. HIDE DEF r
  <2>1. CASE \E c \in S : r(c) = 1
    BY <1>1, <2>1
  <2>2. CASE (\A c \in S : r(c) # 1) /\ \E c \in S : r(c) = 2
    BY <1>1, <2>2
  <2>3. CASE (\A c \in S : r(c) \notin {1, 2}) /\ \E c \in S : r(c) = 3
    BY <1>1, <2>3
  <2>4. CASE \A c \in S : r(c) \notin {1, 2, 3}
    BY <1>1, <2>4
  <2>. QED
    BY <2>1, <2>2, <2>3, <2>4
<1>. QED
  BY <1>2 DEF NextToClose

(* One client more is shut, and the request goes on, or ends with the      *)
(* error of the close.                                                     *)
LEMMA OneClosed ==
  ASSUME PoolsInv, NEW a \in AdminTasks, task[a].stage \in {"close", "closing"}, NEW c \in task[a].closing,
         Closed(a, c) \/ CloseRaises(a, c), UNCHANGED <<row, versions, raced, query>>
  PROVE  RegistryInv' /\ Grown /\ Others(a)
<1>. DEFINE shut == Shut(c)
<1>1. c \in DOMAIN clients /\ c \notin Registered
  BY DEF PoolsInv, PoppedIsGone
<1>2. /\ shut \in Seq(ClientType) /\ Len(shut) = Len(clients) /\ DOMAIN shut = DOMAIN clients
      /\ \A d \in DOMAIN clients : shut[d].kind = clients[d].kind /\ shut[d].version = clients[d].version
      /\ ~shut[c].open /\ \A d \in DOMAIN clients \ {c} : shut[d] = clients[d]
  <2>. DEFINE new == [clients[c] EXCEPT !.open = FALSE]
  <2>1. clients \in Seq(ClientType) /\ clients[c] \in ClientType
    BY <1>1 DEF PoolsInv, PoolTypes
  <2>2. new \in ClientType /\ new.kind = clients[c].kind /\ new.version = clients[c].version /\ ~new.open
    BY <2>1 DEF ClientType
  <2>3. shut = [clients EXCEPT ![c] = new]
    BY DEF Shut
  <2>. HIDE DEF new, shut
  <2>. QED
    BY <1>1, <2>1, <2>2, <2>3
<1>3. \A d \in Registered : d \in DOMAIN clients /\ shut[d] = clients[d]
  BY <1>1, <1>2, InRegistry DEF PoolsInv, RegistryIsByKind
<1>4. ~raced => /\ Registered = {} /\ row = task[a].want /\ task[a].closing = {c}
                /\ \A b \in AdminTasks \ {a} : Idle(b) /\ task[b].closing = {}
  BY DEF PoolsInv, WorkIsAlone, Idle, PoppedIsGone
<1>5. ~raced => \A d \in DOMAIN shut : ~shut[d].open
  BY <1>2, <1>4 DEF PoolsInv, WorkIsAlone
<1>6. task[a].want \in ARow
  BY DEF PoolsInv, TasksKnowTheirRow
<1>7. CASE Registers(a, shut, task[a].want)
  <2>. HIDE DEF shut
  <2>. QED
    BY <1>2, <1>3, <1>4, <1>5, <1>6, <1>7, ClientRegistered DEF Idle
<1>8. CASE CloseRaises(a, c)
  <2>1. /\ clients' = shut /\ failed' = TRUE /\ UNCHANGED <<registry, dbtype>>
        /\ task' = [task EXCEPT ![a] = IdleTask]
    BY <1>8 DEF CloseRaises
  <2>. HIDE DEF shut
  <2>2. Registered' = Registered /\ Grown
    BY <1>2, <2>1 DEF Registered, Grown
  <2>3. task'[a] = IdleTask /\ Others(a) /\ task' \in [AdminTasks -> TaskType]
    BY <2>1, IdleTaskIsIdle DEF PoolsInv, PoolTypes, Others
  <2>4. PoolTypes' /\ RegistryIsByKind'
    BY <1>2, <2>1, <2>3 DEF PoolsInv, PoolTypes, RegistryIsByKind
  <2>5. PoppedIsGone' /\ TasksKnowTheirRow'
    BY <1>2, <2>1, <2>2, <2>3, IdleTaskIsIdle DEF PoolsInv, PoppedIsGone, TasksKnowTheirRow, Others
  <2>6. WorkIsAlone'
    BY <1>2, <1>4, <1>5, <2>1, <2>2, <2>3, IdleTaskIsIdle DEF WorkIsAlone, Following, Idle, Others
  <2>7. RegistryIsTheTable'
    BY <1>3, <1>4, <1>5, <2>1, <2>2 DEF PoolsInv, ClientsAreSound, RegistryIsTheTable, RegisteredIsOpen, SettledRegistry
  <2>. QED
    BY <2>2, <2>3, <2>4, <2>5, <2>6, <2>7 DEF RegistryInv
<1>9. CASE /\ clients' = shut /\ UNCHANGED <<registry, dbtype, failed>>
           /\ task' = [task EXCEPT ![a].closing = @ \ {c},
                         ![a].stage = IF task[a].closing # {c} THEN "close"
                                      ELSE IF task[a].then = "delete" THEN "erase" ELSE "make"]
  <2>. DEFINE left == task[a].closing \ {c}
              stage == IF task[a].closing # {c} THEN "close" ELSE IF task[a].then = "delete" THEN "erase" ELSE "make"
  <2>1. /\ task'[a].closing = left /\ task'[a].stage = stage
        /\ task'[a].then = task[a].then /\ task'[a].want = task[a].want
        /\ Others(a) /\ task' \in [AdminTasks -> TaskType]
    <3>1. left \in SUBSET Nat /\ stage \in {"close", "erase", "make"} /\ task[a] \in TaskType
      BY DEF PoolsInv, PoolTypes, TaskType
    <3>2. task' = [task EXCEPT ![a].closing = left, ![a].stage = stage]
      BY <1>9
    <3>3. task' = [task EXCEPT ![a] = [task[a] EXCEPT !.closing = left, !.stage = stage]]
      BY <3>2
    <3>. HIDE DEF left, stage
    <3>4. [task[a] EXCEPT !.closing = left, !.stage = stage] \in TaskType
      BY <3>1 DEF TaskType
    <3>. QED
      BY <3>1, <3>3, <3>4 DEF PoolsInv, PoolTypes, Others, TaskType
  <2>2. /\ clients' = shut /\ UNCHANGED <<registry, dbtype, failed>>
        /\ stage = "close" <=> left # {}
        /\ stage \in {"close", "erase", "make"} /\ (stage = "erase" => task[a].then = "delete")
        /\ (stage = "make" => task[a].then # "delete")
    BY <1>9
  <2>. HIDE DEF shut, left, stage
  <2>3. Registered' = Registered /\ Grown
    BY <1>2, <2>2 DEF Registered, Grown
  <2>4. PoolTypes' /\ RegistryIsByKind'
    BY <1>2, <2>1, <2>2 DEF PoolsInv, PoolTypes, RegistryIsByKind
  <2>5. PoppedIsGone'
    <3>1. left \subseteq task[a].closing
      BY DEF left
    <3>. QED
      BY <1>2, <2>1, <2>2, <2>3, <3>1 DEF PoolsInv, PoppedIsGone, Others
  <2>6. TasksKnowTheirRow'
    BY <1>6, <2>1, <2>2 DEF PoolsInv, TasksKnowTheirRow, Others
  <2>7. WorkIsAlone'
    <3>. SUFFICES ASSUME ~raced PROVE WorkIsAlone'
      BY DEF WorkIsAlone
    <3>1. left = {} /\ task[a].stage \notin {"idle", "commit"} /\ stage \in {"erase", "make"}
      BY <1>4, <2>2 DEF left
    <3>. QED
      BY <1>2, <1>4, <1>5, <2>1, <2>2, <2>3, <3>1 DEF WorkIsAlone, Idle, Others
  <2>8. RegistryIsTheTable'
    <3>1. RegisteredIsOpen'
      BY <1>3, <2>2, <2>3 DEF PoolsInv, ClientsAreSound, RegistryIsTheTable, RegisteredIsOpen
    <3>2. ~Idle(a)'
      BY <2>1, <2>2 DEF Idle
    <3>. QED
      BY <3>1, <3>2 DEF RegistryIsTheTable, SettledRegistry
  <2>. QED
    BY <2>1, <2>3, <2>4, <2>5, <2>6, <2>7, <2>8 DEF RegistryInv
<1>. QED
  BY <1>7, <1>8, <1>9 DEF Closed

(* Everything of the alias is popped, to be closed by the request. *)
LEMMA AllPopped ==
  ASSUME PoolsInv, NEW a \in AdminTasks, NEW new \in TaskType, task' = [task EXCEPT ![a] = new], PopsAll,
         new.want \in ARow, new.closing = Registered,
         new.stage = IF Registered = {} THEN "erase" ELSE "close", new.stage = "erase" => new.then = "delete",
         UNCHANGED <<row, versions, clients, query, failed>>, raced' \in BOOLEAN,
         ~raced' => /\ ~raced /\ row = new.want /\ \A b \in AdminTasks \ {a} : Idle(b)
                    /\ \A b \in AdminTasks : task[b].closing = {}
  PROVE  RegistryInv' /\ Grown /\ Others(a)
<1>1. task'[a] = new /\ Others(a) /\ task' \in [AdminTasks -> TaskType]
  BY DEF PoolsInv, PoolTypes, Others
<1>2. registry' \in [Kinds -> Nat] /\ Registered' = {} /\ dbtype' = "unknown" /\ \A k \in Kinds : registry'[k] = None
  BY DEF PopsAll, Registered, None
<1>3. Grown
  BY DEF Grown
<1>4. PoolTypes' /\ RegistryIsByKind'
  BY <1>1, <1>2 DEF PoolsInv, PoolTypes, RegistryIsByKind
<1>5. \A c \in Registered : c \in DOMAIN clients
  BY InRegistry DEF PoolsInv, RegistryIsByKind
<1>6. PoppedIsGone' /\ TasksKnowTheirRow'
  BY <1>1, <1>2, <1>5 DEF PoolsInv, PoppedIsGone, TasksKnowTheirRow, Others
<1>7. WorkIsAlone'
  <2>. SUFFICES ASSUME ~raced' PROVE WorkIsAlone'
    BY DEF WorkIsAlone
  <2>1. \A c, d \in Registered : c = d
    <3>1. \A c \in Registered : clients[c].kind = row.kind
      BY DEF PoolsInv, WorkIsAlone
    <3>. QED
      BY <3>1, InRegistry DEF PoolsInv, RegistryIsByKind
  <2>2. \A c \in DOMAIN clients : clients[c].open => c \in Registered
    BY DEF PoolsInv, WorkIsAlone
  <2>3. \A b \in AdminTasks \ {a} : task'[b].stage = "idle" /\ task'[b].closing = {}
    BY <1>1 DEF Idle, Others
  <2>4. task'[a].stage \notin {"idle", "commit"}
    BY <1>1
  <2>. QED
    BY <1>1, <1>2, <2>1, <2>2, <2>3, <2>4 DEF WorkIsAlone, Idle
<1>8. RegisteredIsOpen' /\ SettledRegistry'
  BY <1>1, <1>2 DEF RegisteredIsOpen, SettledRegistry, Idle
<1>. QED
  BY <1>1, <1>3, <1>4, <1>6, <1>7, <1>8 DEF RegistryInv, RegistryIsTheTable

LEMMA Deleted ==
  ASSUME PoolsInv, NEW a \in AdminTasks, Delete(a)
  PROVE  PoolsInv'
<1>. DEFINE new == [stage |-> IF Registered = {} THEN "erase" ELSE "close", then |-> "delete",
                    want |-> row, closing |-> Registered]
<1>1. /\ row # NoRow /\ Idle(a) /\ task' = [task EXCEPT ![a] = new] /\ PopsAll
      /\ raced' = (raced \/ \E b \in AdminTasks : ~Idle(b))
      /\ UNCHANGED <<tableVars, clients, threadVars, query, failed, boots>>
  BY DEF Delete, Starts
<1>2. row \in ARow /\ Registered \subseteq Nat
  BY <1>1 DEF PoolsInv, PoolTypes, Registered
<1>3. new \in TaskType
  BY <1>2 DEF TaskType, Wanted, ARow
<1>4. /\ new.want = row /\ new.closing = Registered /\ new.then = "delete"
      /\ new.stage = IF Registered = {} THEN "erase" ELSE "close"
  OBVIOUS
<1>5. /\ raced' \in BOOLEAN
      /\ ~raced' => ~raced /\ \A b \in AdminTasks : Idle(b) /\ task[b].closing = {}
  BY <1>1 DEF PoolsInv, PoolTypes, PoppedIsGone, Idle
<1>. HIDE DEF new
<1>6. RegistryInv' /\ Grown /\ Others(a)
  BY <1>1, <1>2, <1>3, <1>4, <1>5, AllPopped DEF tableVars
<1>. QED
  BY <1>1, <1>6, AdminStep DEF threadVars, Idle

(* Nothing but one request moves, and the row, the registry and the        *)
(* clients stay.                                                           *)
LEMMA RequestMoves ==
  ASSUME PoolsInv, NEW a \in AdminTasks, NEW new \in TaskType, task' = [task EXCEPT ![a] = new],
         UNCHANGED <<row, versions, registry, dbtype, clients, query, failed>>, raced' \in BOOLEAN,
         task[a].closing = {}, new.closing = {}, new.stage \in {"idle", "commit", "make"},
         new.stage = "commit" => /\ new.then \in {"create", "update"} /\ new.want.kind \in Kinds
                                 /\ new.then = "create" <=> new.want.id = 0,
         new.stage = "make" => new.want \in ARow /\ new.then # "delete" /\ Registered = {},
         ~raced' => /\ ~raced /\ \A b \in AdminTasks \ {a} : Idle(b)
                    /\ new.stage = "commit" => row = IF new.then = "create" THEN NoRow ELSE new.want
                    /\ new.stage = "make" => row = new.want
                    /\ new.stage # "make" => task[a].stage \in {"idle", "commit"}
  PROVE  RegistryInv' /\ Grown /\ Others(a)
<1>1. task'[a] = new /\ Others(a) /\ task' \in [AdminTasks -> TaskType]
  BY DEF PoolsInv, PoolTypes, Others
<1>2. Registered' = Registered /\ Grown
  BY DEF Registered, Grown
<1>3. PoolTypes' /\ RegistryIsByKind'
  BY <1>1 DEF PoolsInv, PoolTypes, RegistryIsByKind
<1>4. PoppedIsGone'
  BY <1>1, <1>2 DEF PoolsInv, PoppedIsGone, Others
<1>5. TasksKnowTheirRow'
  BY <1>1 DEF PoolsInv, TasksKnowTheirRow, Others
<1>6. WorkIsAlone'
  <2>. SUFFICES ASSUME ~raced' PROVE WorkIsAlone'
    BY DEF WorkIsAlone
  <2>1. \A b \in AdminTasks \ {a} : task[b].stage = "idle" /\ task'[b].stage = "idle" /\ task[b].closing = {} /\ task'[b].closing = {}
    BY <1>1 DEF Idle, Others, PoolsInv, PoppedIsGone
  <2>2. \A c \in DOMAIN clients : clients[c].open => c \in Registered
    BY <2>1 DEF PoolsInv, WorkIsAlone
  <2>3. new.stage # "make" => Following
    BY <2>1 DEF PoolsInv, WorkIsAlone
  <2>4. (\A b \in AdminTasks : task'[b].stage \in {"idle", "commit"}) => Following'
    BY <1>1, <1>2, <2>3 DEF Following
  <2>. QED
    BY <1>1, <1>2, <2>1, <2>2, <2>4 DEF WorkIsAlone, Idle, PoolsInv
<1>7. RegisteredIsOpen'
  BY <1>2 DEF PoolsInv, ClientsAreSound, RegistryIsTheTable, RegisteredIsOpen
<1>8. SettledRegistry'
  <2>. SUFFICES ASSUME ~raced', \A b \in AdminTasks : task'[b].stage = "idle" PROVE SettledRegistry'
    BY DEF SettledRegistry, Idle
  <2>1. Following' /\ \A b \in AdminTasks : task'[b].closing = {}
    BY <1>4, <1>6 DEF WorkIsAlone, PoppedIsGone
  <2>. QED
    BY <1>6, <2>1 DEF WorkIsAlone, SettledRegistry, Following
<1>. QED
  BY <1>1, <1>2, <1>3, <1>4, <1>5, <1>6, <1>7, <1>8 DEF RegistryInv, RegistryIsTheTable

LEMMA Begun ==
  ASSUME PoolsInv, NEW a \in AdminTasks, (\E kind \in Kinds : Create(a, kind)) \/ Update(a)
  PROVE  PoolsInv'
<1>1. PICK new : /\ task' = [task EXCEPT ![a] = new] /\ new \in TaskType /\ new.closing = {} /\ new.stage = "commit"
                 /\ new.then \in {"create", "update"} /\ new.want.kind \in Kinds
                 /\ new.then = "create" <=> new.want.id = 0
                 /\ row = IF new.then = "create" THEN NoRow ELSE new.want
  <2>1. CASE \E kind \in Kinds : Create(a, kind)
    <3>1. PICK kind \in Kinds : Create(a, kind)
      BY <2>1
    <3>. DEFINE made == [IdleTask EXCEPT !.stage = "commit", !.then = "create", !.want.kind = kind]
                want == [NoRow EXCEPT !.kind = kind]
    <3>2. want = [id |-> 0, kind |-> kind, version |-> 0]
      BY DEF NoRow
    <3>3. want \in Wanted /\ want.kind \in Kinds /\ want.id = 0
      BY <3>2 DEF Wanted
    <3>4. row = NoRow /\ task' = [task EXCEPT ![a] = made]
      BY <3>1 DEF Create
    <3>5. made = [IdleTask EXCEPT !.stage = "commit", !.then = "create", !.want = want]
      BY IdleTaskIsIdle DEF IdleTask
    <3>. HIDE DEF want, made
    <3>6. /\ made \in TaskType /\ made.closing = {} /\ made.stage = "commit" /\ made.then = "create"
          /\ made.want = want
      BY <3>3, <3>5, IdleTaskIsIdle DEF TaskType
    <3>. QED
      BY <3>3, <3>4, <3>6
  <2>2. CASE Update(a)
    <3>. DEFINE made == [IdleTask EXCEPT !.stage = "commit", !.then = "update", !.want = row]
    <3>1. made = [IdleTask EXCEPT !.stage = "commit", !.then = "update", !.want = row]
      OBVIOUS
    <3>2. row # NoRow /\ task' = [task EXCEPT ![a] = made]
      BY <2>2 DEF Update
    <3>. HIDE DEF made
    <3>3. row \in ARow
      BY <3>2 DEF PoolsInv, PoolTypes
    <3>4. row \in Wanted /\ row.kind \in Kinds /\ row.id # 0
      BY <3>3 DEF Wanted, ARow
    <3>5. /\ made \in TaskType /\ made.closing = {} /\ made.stage = "commit" /\ made.then = "update"
          /\ made.want = row
      BY <3>1, <3>4, IdleTaskIsIdle DEF TaskType
    <3>. QED
      BY <3>2, <3>4, <3>5
  <2>. QED
    BY <2>1, <2>2
<1>2. /\ Idle(a) /\ raced' = (raced \/ \E b \in AdminTasks : ~Idle(b))
      /\ UNCHANGED <<tableVars, managerVars, threadVars, query, failed, boots>>
  BY DEF Create, Update, Starts
<1>3. /\ raced' \in BOOLEAN /\ task[a].closing = {} /\ task[a].stage = "idle"
      /\ ~raced' => ~raced /\ \A b \in AdminTasks : Idle(b)
  BY <1>2 DEF PoolsInv, PoolTypes, PoppedIsGone, Idle
<1>4. RegistryInv' /\ Grown /\ Others(a)
  BY <1>1, <1>2, <1>3, RequestMoves DEF tableVars, managerVars
<1>. QED
  BY <1>2, <1>3, <1>4, AdminStep DEF threadVars

(* A request that knows the row alone has everybody else idle. *)
LEMMA AloneAtWork ==
  ASSUME PoolsInv, NEW a \in AdminTasks, ~Idle(a), ~raced
  PROVE  \A b \in AdminTasks \ {a} : Idle(b)
BY DEF PoolsInv, WorkIsAlone

LEMMA RequestEnds ==
  ASSUME PoolsInv, NEW a \in AdminTasks, task' = [task EXCEPT ![a] = IdleTask], task[a].closing = {},
         UNCHANGED <<row, versions, registry, dbtype, clients, query, failed, raced>>, ~Idle(a),
         raced \/ task[a].stage = "commit"
  PROVE  RegistryInv' /\ Grown /\ Others(a)
<1>1. ~raced => \A b \in AdminTasks \ {a} : Idle(b)
  BY AloneAtWork
<1>2. raced' \in BOOLEAN
  BY DEF PoolsInv, PoolTypes
<1>. QED
  BY <1>1, <1>2, IdleTaskIsIdle, RequestMoves

LEMMA Committed ==
  ASSUME PoolsInv, NEW a \in AdminTasks, Commits(a)
  PROVE  PoolsInv'
<1>1. /\ task[a].stage = "commit" /\ ~Idle(a) /\ task[a].closing = {}
      /\ UNCHANGED <<managerVars, threadVars, failed, requestVars>>
  BY DEF Commits, Idle, PoolsInv, PoppedIsGone
<1>2. /\ task[a].then \in {"create", "update"} /\ task[a].want.kind \in Kinds
      /\ task[a].then = "create" <=> task[a].want.id = 0
  BY <1>1 DEF PoolsInv, TasksKnowTheirRow
<1>3. CASE task' = [task EXCEPT ![a] = IdleTask] /\ UNCHANGED tableVars
  <2>1. RegistryInv' /\ Grown /\ Others(a)
    <3>1. ~raced => \A b \in AdminTasks \ {a} : Idle(b)
      BY <1>1, AloneAtWork
    <3>. QED
      BY <1>1, <1>3, RequestEnds DEF tableVars, managerVars, requestVars
  <2>. QED
    BY <1>1, <2>1, AdminStep DEF threadVars, requestVars
<1>4. CASE /\ row.id = task[a].want.id /\ versions' = versions + 1
           /\ row' = [id |-> IF task[a].then = "create" THEN versions' ELSE row.id,
                      kind |-> task[a].want.kind, version |-> versions']
           /\ task' = [task EXCEPT ![a].stage = "refresh", ![a].want = row']
  <2>. DEFINE n == versions + 1
              new == [id |-> IF task[a].then = "create" THEN n ELSE row.id, kind |-> task[a].want.kind, version |-> n]
              job == [task[a] EXCEPT !.stage = "refresh", !.want = new]
  <2>1. row' = new /\ versions' = n /\ n \in Nat \ {0}
    BY <1>4 DEF PoolsInv, PoolTypes
  <2>2. row.id \in Nat /\ (task[a].then # "create" => row.id # 0)
    BY <1>2, <1>4 DEF PoolsInv, PoolTypes, ARow, NoRow
  <2>3. new \in ARow /\ new \in Wanted /\ new.kind = task[a].want.kind
    BY <1>2, <2>1, <2>2 DEF ARow, Wanted
  <2>4. task' = [task EXCEPT ![a] = job]
    BY <1>4, <2>1
  <2>. HIDE DEF new, n
  <2>5. /\ job \in TaskType /\ job.stage = "refresh" /\ job.want = new /\ job.then = task[a].then /\ job.closing = {}
    BY <1>1, <2>3 DEF PoolsInv, PoolTypes, TaskType
  <2>. HIDE DEF job
  <2>6. task'[a] = job /\ Others(a) /\ task' \in [AdminTasks -> TaskType]
    BY <2>4, <2>5 DEF PoolsInv, PoolTypes, Others
  <2>7. Registered' = Registered /\ Grown
    BY <1>1 DEF Registered, Grown, managerVars
  <2>8. PoolTypes' /\ RegistryIsByKind'
    BY <1>1, <2>1, <2>3, <2>6 DEF PoolsInv, PoolTypes, RegistryIsByKind, managerVars, requestVars
  <2>9. PoppedIsGone' /\ TasksKnowTheirRow'
    BY <1>1, <1>2, <2>1, <2>3, <2>5, <2>6, <2>7 DEF PoolsInv, PoppedIsGone, TasksKnowTheirRow, Others, managerVars
  <2>10. WorkIsAlone'
    <3>. SUFFICES ASSUME ~raced PROVE WorkIsAlone'
      BY <1>1 DEF WorkIsAlone, requestVars
    <3>1. \A b \in AdminTasks \ {a} : task'[b].stage = "idle" /\ task'[b].closing = {} /\ task[b].closing = {}
      BY <1>1, <2>6, AloneAtWork DEF Idle, Others, PoolsInv, PoppedIsGone
    <3>2. \A c \in Registered : clients[c].kind = new.kind
      <4>1. CASE task[a].then = "update"
        BY <1>1, <2>3, <4>1 DEF PoolsInv, WorkIsAlone, Idle
      <4>2. CASE task[a].then = "create"
        <5>1. \A c \in Registered : clients[c].kind = "none"
          BY <1>1, <4>2 DEF PoolsInv, WorkIsAlone, Idle, NoRow
        <5>. QED
          BY <5>1, KindsAreNames, InRegistry DEF PoolsInv, RegistryIsByKind
      <4>. QED
        BY <1>2, <4>1, <4>2
    <3>3. \A c \in DOMAIN clients : clients[c].open => c \in Registered
      BY <1>1, <3>1 DEF PoolsInv, WorkIsAlone
    <3>. QED
      BY <1>1, <2>1, <2>5, <2>6, <2>7, <3>1, <3>2, <3>3 DEF WorkIsAlone, Idle, managerVars
  <2>11. RegisteredIsOpen'
    BY <1>1, <2>7 DEF PoolsInv, ClientsAreSound, RegistryIsTheTable, RegisteredIsOpen, managerVars
  <2>12. SettledRegistry'
    BY <2>5, <2>6 DEF SettledRegistry, Idle
  <2>13. RegistryInv'
    BY <2>8, <2>9, <2>10, <2>11, <2>12 DEF RegistryInv, RegistryIsTheTable
  <2>. QED
    BY <1>1, <2>6, <2>7, <2>13, AdminStep DEF threadVars, requestVars
<1>. QED
  BY <1>3, <1>4 DEF Commits

LEMMA RowErased ==
  ASSUME PoolsInv, NEW a \in AdminTasks, EraseRow(a)
  PROVE  PoolsInv'
<1>1. /\ task[a].stage = "erase" /\ ~Idle(a) /\ task[a].closing = {}
      /\ row' = IF row.id = task[a].want.id THEN NoRow ELSE row
      /\ failed' = FALSE /\ task' = [task EXCEPT ![a] = IdleTask]
      /\ UNCHANGED <<versions, managerVars, threadVars, requestVars>>
  BY DEF EraseRow, Idle, PoolsInv, PoppedIsGone
<1>2. task'[a] = IdleTask /\ Others(a) /\ task' \in [AdminTasks -> TaskType]
  BY <1>1, IdleTaskIsIdle DEF PoolsInv, PoolTypes, Others
<1>3. Registered' = Registered /\ Grown
  BY <1>1 DEF Registered, Grown, managerVars
<1>4. PoolTypes' /\ RegistryIsByKind'
  BY <1>1, <1>2 DEF PoolsInv, PoolTypes, RegistryIsByKind, managerVars, requestVars
<1>5. PoppedIsGone' /\ TasksKnowTheirRow'
  BY <1>1, <1>2, <1>3, IdleTaskIsIdle DEF PoolsInv, PoppedIsGone, TasksKnowTheirRow, Others, managerVars
<1>6. ~raced => /\ Registered = {} /\ row' = NoRow /\ \A b \in AdminTasks : task'[b].stage = "idle"
                /\ \A c \in DOMAIN clients : ~clients[c].open
  <2>. SUFFICES ASSUME ~raced
                PROVE  /\ Registered = {} /\ row' = NoRow /\ \A b \in AdminTasks : task'[b].stage = "idle"
                       /\ \A c \in DOMAIN clients : ~clients[c].open
    OBVIOUS
  <2>1. Registered = {} /\ row = task[a].want
    BY <1>1 DEF PoolsInv, WorkIsAlone, Idle
  <2>2. \A b \in AdminTasks : task'[b].stage = "idle" /\ task[b].closing = {}
    BY <1>1, <1>2, IdleTaskIsIdle, AloneAtWork DEF Idle, Others, PoolsInv, PoppedIsGone
  <2>3. \A c \in DOMAIN clients : ~clients[c].open
    BY <2>1, <2>2 DEF PoolsInv, WorkIsAlone
  <2>. QED
    BY <1>1, <2>1, <2>2, <2>3
<1>7. WorkIsAlone'
  BY <1>1, <1>3, <1>5, <1>6 DEF WorkIsAlone, Following, Idle, PoppedIsGone, managerVars, requestVars
<1>8. RegistryIsTheTable'
  BY <1>1, <1>3, <1>6 DEF PoolsInv, ClientsAreSound, RegistryIsTheTable, RegisteredIsOpen, SettledRegistry,
     managerVars, requestVars
<1>9. RegistryInv'
  BY <1>4, <1>5, <1>7, <1>8 DEF RegistryInv
<1>. QED
  BY <1>1, <1>2, <1>3, <1>9, AdminStep DEF threadVars, requestVars

LEMMA RowRefreshed ==
  ASSUME PoolsInv, NEW a \in AdminTasks, Refreshed(a)
  PROVE  PoolsInv'
<1>1. /\ task[a].stage = "refresh" /\ ~Idle(a) /\ task[a].closing = {}
      /\ UNCHANGED <<tableVars, threadVars, requestVars>>
  BY DEF Refreshed, Idle, PoolsInv, PoppedIsGone
<1>2. task[a].want \in ARow /\ task[a].then # "delete" /\ task[a] \in TaskType
  BY <1>1 DEF PoolsInv, TasksKnowTheirRow, PoolTypes
<1>3. row.id = task[a].want.id => row \in ARow /\ row \in Wanted
  BY <1>2 DEF PoolsInv, PoolTypes, ARow, NoRow, Wanted
<1>4. ~raced => /\ row = task[a].want
                /\ \A b \in AdminTasks \ {a} : Idle(b)
  BY <1>1, AloneAtWork DEF PoolsInv, WorkIsAlone
<1>5. raced' \in BOOLEAN /\ raced' = raced
  BY <1>1 DEF requestVars, PoolsInv, PoolTypes
<1>6. \A b \in AdminTasks : task[b].stage = "idle" => task[b].closing = {}
  BY DEF PoolsInv, PoppedIsGone
<1>7. CASE row.id # task[a].want.id /\ task' = [task EXCEPT ![a] = IdleTask] /\ UNCHANGED <<managerVars, failed>>
  <2>1. raced
    BY <1>4, <1>7
  <2>2. RegistryInv' /\ Grown /\ Others(a)
    BY <1>1, <1>5, <1>7, <2>1, RequestEnds DEF tableVars, managerVars, requestVars
  <2>. QED
    BY <1>1, <2>2, AdminStep DEF threadVars, requestVars
<1>8. CASE /\ row.id = task[a].want.id /\ Registered # {}
           /\ task' = [task EXCEPT ![a] = [@ EXCEPT !.stage = "close", !.want = row, !.closing = Registered]]
           /\ PopsAll /\ UNCHANGED <<clients, failed>>
  <2>. DEFINE new == [task[a] EXCEPT !.stage = "close", !.want = row, !.closing = Registered]
  <2>1. Registered \in SUBSET Nat
    BY DEF PoolsInv, PoolTypes, Registered
  <2>2. /\ new \in TaskType /\ new.stage = "close" /\ new.want = row /\ new.closing = Registered
        /\ new.then = task[a].then
    BY <1>2, <1>3, <1>8, <2>1 DEF TaskType
  <2>3. task' = [task EXCEPT ![a] = new]
    BY <1>8
  <2>. HIDE DEF new
  <2>4. /\ ~raced' => /\ ~raced /\ row = new.want /\ \A b \in AdminTasks \ {a} : Idle(b)
                      /\ \A b \in AdminTasks : task[b].closing = {}
        /\ new.want \in ARow /\ new.stage = (IF Registered = {} THEN "erase" ELSE "close")
        /\ new.stage = "erase" => new.then = "delete"
        /\ UNCHANGED <<row, versions, clients, query, failed>>
    BY <1>1, <1>3, <1>4, <1>5, <1>6, <1>8, <2>2 DEF Idle, tableVars, requestVars
  <2>5. RegistryInv' /\ Grown /\ Others(a)
    BY <1>5, <1>8, <2>2, <2>3, <2>4, AllPopped
  <2>. QED
    BY <1>1, <2>5, AdminStep DEF threadVars, requestVars
<1>9. CASE /\ row.id = task[a].want.id /\ Registered = {}
           /\ task' = [task EXCEPT ![a] = [@ EXCEPT !.stage = "make", !.want = row]]
           /\ UNCHANGED <<managerVars, failed>>
  <2>. DEFINE new == [task[a] EXCEPT !.stage = "make", !.want = row]
  <2>1. /\ new \in TaskType /\ new.stage = "make" /\ new.want = row /\ new.closing = {}
        /\ new.then = task[a].then
    BY <1>1, <1>2, <1>3, <1>9 DEF TaskType
  <2>2. task' = [task EXCEPT ![a] = new]
    BY <1>9
  <2>. HIDE DEF new
  <2>3. /\ ~raced' => ~raced /\ row = new.want /\ \A b \in AdminTasks \ {a} : Idle(b)
        /\ new.want \in ARow /\ new.then # "delete"
        /\ UNCHANGED <<row, versions, registry, dbtype, clients, query, failed>>
    BY <1>1, <1>2, <1>3, <1>4, <1>5, <1>9, <2>1 DEF tableVars, managerVars, requestVars
  <2>4. RegistryInv' /\ Grown /\ Others(a)
    BY <1>1, <1>5, <1>9, <2>1, <2>2, <2>3, RequestMoves
  <2>. QED
    BY <1>1, <2>4, AdminStep DEF threadVars, requestVars
<1>10. CASE row.id = task[a].want.id /\ Registered = {} /\ Registers(a, clients, row)
  <2>1. clients \in Seq(ClientType)
    BY DEF PoolsInv, PoolTypes
  <2>2. ~raced => \A c \in DOMAIN clients : ~clients[c].open
    BY <1>1, <1>4, <1>6, <1>10 DEF PoolsInv, WorkIsAlone, Idle
  <2>3. RegistryInv' /\ Grown /\ Others(a)
    BY <1>1, <1>3, <1>10, <2>1, <2>2, ClientRegistered DEF tableVars, requestVars
  <2>. QED
    BY <1>1, <2>3, AdminStep DEF threadVars, requestVars
<1>. QED
  BY <1>7, <1>8, <1>9, <1>10 DEF Refreshed

LEMMA ClientMade ==
  ASSUME PoolsInv, NEW a \in AdminTasks, Made(a)
  PROVE  PoolsInv'
<1>1. /\ task[a].stage = "make" /\ ~Idle(a) /\ task[a].closing = {} /\ task[a].want \in ARow
      /\ Registers(a, clients, task[a].want)
      /\ UNCHANGED <<tableVars, threadVars, requestVars>>
  BY DEF Made, Idle, PoolsInv, PoppedIsGone, TasksKnowTheirRow
<1>2. clients \in Seq(ClientType)
  BY DEF PoolsInv, PoolTypes
<1>3. ~raced => Registered = {} /\ row = task[a].want
  BY <1>1 DEF PoolsInv, WorkIsAlone
<1>4. ~raced => \A b \in AdminTasks : task[b].closing = {}
  BY <1>1, AloneAtWork DEF Idle, PoolsInv, PoppedIsGone
<1>5. ~raced => \A c \in DOMAIN clients : ~clients[c].open
  BY <1>3, <1>4 DEF PoolsInv, WorkIsAlone
<1>6. RegistryInv' /\ Grown /\ Others(a)
  BY <1>1, <1>2, <1>3, <1>5, ClientRegistered DEF tableVars, requestVars
<1>. QED
  BY <1>1, <1>6, AdminStep DEF threadVars, requestVars

LEMMA CloseBegun ==
  ASSUME PoolsInv, NEW a \in AdminTasks, Closes(a)
  PROVE  PoolsInv'
<1>. DEFINE c == NextToClose(a)
<1>1. /\ task[a].stage = "close" /\ ~Idle(a) /\ task[a].closing # {}
      /\ UNCHANGED <<tableVars, locked, requestVars>>
  BY DEF Closes, Idle, PoolsInv, PoppedIsGone
<1>2. c \in task[a].closing /\ c \in DOMAIN clients
  BY <1>1, NextIsToClose DEF PoolsInv, PoppedIsGone
<1>3. CASE (Closed(a, c) \/ CloseRaises(a, c)) /\ UNCHANGED threads
  <2>1. RegistryInv' /\ Grown /\ Others(a)
    BY <1>1, <1>2, <1>3, OneClosed DEF tableVars, requestVars
  <2>. QED
    BY <1>1, <1>3, <2>1, AdminStep DEF requestVars
<1>4. CASE /\ threads' = threads \cup {Waiting(c, a, "close")}
           /\ task' = [task EXCEPT ![a].stage = "closing"]
           /\ UNCHANGED <<managerVars, failed>>
  <2>. DEFINE new == [task[a] EXCEPT !.stage = "closing"]
  <2>1. /\ new \in TaskType /\ new.stage = "closing" /\ new.want = task[a].want /\ new.closing = task[a].closing
        /\ new.then = task[a].then
    BY DEF PoolsInv, PoolTypes, TaskType
  <2>2. task' = [task EXCEPT ![a] = new]
    BY <1>4
  <2>. HIDE DEF new, c
  <2>3. task'[a] = new /\ Others(a) /\ task' \in [AdminTasks -> TaskType]
    BY <2>1, <2>2 DEF PoolsInv, PoolTypes, Others
  <2>4. Registered' = Registered
    BY <1>4 DEF Registered, managerVars
  <2>5. PoolTypes' /\ RegistryIsByKind'
    BY <1>1, <1>4, <2>3 DEF PoolsInv, PoolTypes, RegistryIsByKind, managerVars, tableVars, requestVars
  <2>6. PoppedIsGone' /\ TasksKnowTheirRow'
    BY <1>1, <1>4, <2>1, <2>3, <2>4 DEF PoolsInv, PoppedIsGone, TasksKnowTheirRow, Others, managerVars
  <2>7. WorkIsAlone'
    <3>. SUFFICES ASSUME ~raced PROVE WorkIsAlone'
      BY <1>1 DEF WorkIsAlone, requestVars
    <3>1. \A b \in AdminTasks : task'[b].closing = task[b].closing /\ (task'[b].stage = "idle" <=> task[b].stage = "idle")
      BY <1>1, <2>1, <2>3 DEF Others
    <3>. QED
      BY <1>1, <1>4, <2>1, <2>3, <2>4, <3>1 DEF PoolsInv, WorkIsAlone, Idle, Others, managerVars, tableVars
  <2>8. RegisteredIsOpen'
    BY <1>4, <2>4 DEF PoolsInv, ClientsAreSound, RegistryIsTheTable, RegisteredIsOpen, managerVars
  <2>9. SettledRegistry'
    BY <2>1, <2>3 DEF SettledRegistry, Idle
  <2>10. ThreadsAreAtWork' /\ CallersHoldTheLock' /\ CallsAreSerial'
    <3>1. \A b \in AdminTasks : task[b].stage = "closing" => task'[b] = task[b]
      BY <1>1, <2>3 DEF Others
    <3>. QED
      BY <1>1, <1>2, <1>4, <2>1, <2>3, <3>1, ThreadAdded DEF managerVars
  <2>11. QueriesKnowTheirKind' /\ QueryRunsAsValidated'
    BY <1>1, <1>4, QueriesUntouched DEF managerVars, requestVars
  <2>. QED
    BY <2>5, <2>6, <2>7, <2>8, <2>9, <2>10, <2>11 DEF PoolsInv, ClientsAreSound, PoolsAreUsedSafely, RegistryIsTheTable
<1>. QED
  BY <1>3, <1>4 DEF Closes

LEMMA CloseEnded ==
  ASSUME PoolsInv, NEW t \in threads, CloseEnds(t)
  PROVE  PoolsInv'
<1>1. /\ t.job = "close" /\ Leaves(t)
      /\ Closed(t.of, t.client) \/ CloseRaises(t.of, t.client)
      /\ UNCHANGED <<tableVars, requestVars>>
  BY DEF CloseEnds
<1>2. t.of \in AdminTasks /\ task[t.of].stage = "closing" /\ t.client \in task[t.of].closing
  BY <1>1 DEF PoolsInv, ThreadsAreAtWork, IsThread
<1>3. RegistryInv' /\ Grown /\ Others(t.of)
  BY <1>1, <1>2, OneClosed DEF tableVars, requestVars
<1>4. ThreadsAreAtWork' /\ CallersHoldTheLock' /\ CallsAreSerial'
  BY <1>1, <1>2, <1>3, ThreadGone DEF Grown, Others
<1>5. QueriesKnowTheirKind' /\ QueryRunsAsValidated'
  BY <1>1, <1>3, QueriesUntouched DEF Grown, requestVars
<1>. QED
  BY <1>3, <1>4, <1>5 DEF RegistryInv, PoolsInv, ClientsAreSound, PoolsAreUsedSafely

-------------------------------------------------------------------------------
(* A boot opens the client of the row, or none. *)
LEMMA Booted ==
  ASSUME PoolsInv, Boot
  PROVE  PoolsInv'
<1>1. PICK up \in BOOLEAN :
        /\ up => row # NoRow
        /\ failed' = (row # NoRow /\ ~up)
        /\ clients' = IF up THEN <<[kind |-> row.kind, version |-> row.version, open |-> TRUE]>> ELSE <<>>
        /\ registry' = [k \in Kinds |-> IF up /\ k = row.kind THEN 1 ELSE None]
        /\ dbtype' = IF up THEN row.kind ELSE "unknown"
  BY DEF Boot
<1>2. /\ threads' = {} /\ locked' = {} /\ raced' = FALSE /\ UNCHANGED tableVars
      /\ task' = [a \in AdminTasks |-> IdleTask] /\ query' = [q \in Queries |-> IdleQuery]
  BY DEF Boot
<1>3. IdleQuery \in QueryType /\ IdleQuery.stage = "idle"
  BY DEF IdleQuery, QueryType, None
<1>4. /\ task' \in [AdminTasks -> TaskType] /\ query' \in [Queries -> QueryType]
      /\ \A a \in AdminTasks : task'[a] = IdleTask
      /\ \A q \in Queries : query'[q] = IdleQuery
  BY <1>2, <1>3, IdleTaskIsIdle
<1>5. up => row \in ARow
  BY <1>1 DEF PoolsInv, PoolTypes
<1>6. registry' \in [Kinds -> Nat] /\ \A k \in Kinds : registry'[k] = IF up /\ k = row.kind THEN 1 ELSE 0
  BY <1>1 DEF None
<1>7. QueriesKnowTheirKind' /\ QueryRunsAsValidated' /\ ThreadsAreAtWork' /\ CallersHoldTheLock' /\ CallsAreSerial'
  BY <1>2, <1>3, <1>4 DEF QueriesKnowTheirKind, QueryRunsAsValidated, ThreadsAreAtWork, CallersHoldTheLock, CallsAreSerial
<1>8. TasksKnowTheirRow'
  BY <1>4, IdleTaskIsIdle DEF TasksKnowTheirRow
<1>9. CASE up
  <2>. DEFINE new == [kind |-> row.kind, version |-> row.version, open |-> TRUE]
  <2>1. /\ new \in ClientType /\ new.kind = row.kind /\ new.version = row.version /\ new.open
        /\ row.kind \in Kinds /\ row # NoRow
    BY <1>1, <1>5, <1>9 DEF ClientType, ARow
  <2>2. clients' = <<new>>
    BY <1>1, <1>9
  <2>. HIDE DEF new
  <2>3. clients' \in Seq(ClientType) /\ DOMAIN clients' = {1} /\ clients'[1] = new
    BY <2>1, <2>2
  <2>4. Registered' = {1}
    BY <1>6, <1>9, <2>1 DEF Registered, None
  <2>5. dbtype' = row.kind /\ failed' = FALSE
    BY <1>1, <1>9
  <2>6. PoolTypes' /\ RegistryIsByKind'
    BY <1>2, <1>4, <1>6, <1>9, <2>1, <2>3, <2>5 DEF PoolsInv, PoolTypes, RegistryIsByKind, tableVars, None
  <2>7. PoppedIsGone'
    BY <1>4, IdleTaskIsIdle DEF PoppedIsGone
  <2>8. WorkIsAlone'
    BY <1>2, <1>4, <2>1, <2>3, <2>4, <2>5, IdleTaskIsIdle DEF WorkIsAlone, Following, Idle, tableVars
  <2>9. RegistryIsTheTable'
    BY <1>2, <1>6, <1>9, <2>1, <2>3, <2>4, <2>5 DEF RegistryIsTheTable, RegisteredIsOpen, SettledRegistry, tableVars, None
  <2>. QED
    BY <1>7, <1>8, <2>6, <2>7, <2>8, <2>9 DEF PoolsInv, ClientsAreSound, PoolsAreUsedSafely
<1>10. CASE ~up
  <2>1. clients' = <<>> /\ DOMAIN clients' = {} /\ clients' \in Seq(ClientType)
    BY <1>1, <1>10
  <2>2. Registered' = {} /\ dbtype' = "unknown" /\ failed' = (row # NoRow)
    BY <1>1, <1>6, <1>10 DEF Registered, None
  <2>3. PoolTypes' /\ RegistryIsByKind'
    BY <1>2, <1>4, <1>6, <1>10, <2>1, <2>2 DEF PoolsInv, PoolTypes, RegistryIsByKind, tableVars, None
  <2>4. PoppedIsGone'
    BY <1>4, <2>1, IdleTaskIsIdle DEF PoppedIsGone
  <2>5. WorkIsAlone'
    BY <1>2, <1>4, <2>1, <2>2, IdleTaskIsIdle DEF WorkIsAlone, Following, Idle, tableVars
  <2>6. RegistryIsTheTable'
    BY <1>2, <2>1, <2>2 DEF RegistryIsTheTable, RegisteredIsOpen, SettledRegistry, tableVars
  <2>. QED
    BY <1>7, <1>8, <2>3, <2>4, <2>5, <2>6 DEF PoolsInv, ClientsAreSound, PoolsAreUsedSafely
<1>. QED
  BY <1>9, <1>10

LEMMA PoolsStutter ==
  ASSUME PoolsInv, UNCHANGED poolVars
  PROVE  PoolsInv'
<1>1. query' \in [Queries -> QueryType]
  BY DEF PoolsInv, PoolTypes, poolVars
<1>2. /\ PoolTypes' /\ RegistryIsByKind' /\ PoppedIsGone' /\ TasksKnowTheirRow' /\ WorkIsAlone'
      /\ RegistryIsTheTable'
  BY <1>1, RegistryUntouched DEF poolVars
<1>3. QueriesKnowTheirKind' /\ QueryRunsAsValidated' /\ ThreadsAreAtWork' /\ CallersHoldTheLock' /\ CallsAreSerial'
  BY QueriesUntouched, ThreadsUntouched DEF poolVars
<1>. QED
  BY <1>2, <1>3 DEF PoolsInv, ClientsAreSound, PoolsAreUsedSafely

(* The client a query runs on is of the type its statement was checked     *)
(* for, one call at a time is at a client that bears no more, what is      *)
(* registered is open, and after administrators who did not overlap it is  *)
(* made from the row as it is (connection_manager.py, admin.py).           *)
THEOREM ClientsStaySound == PoolsSpec => []ClientsAreSound
<1>1. PoolsInit => PoolsInv
  BY PoolsInvInit
<1>2. PoolsInv /\ [PoolsNext]_poolVars => PoolsInv'
  <2>. SUFFICES ASSUME PoolsInv, [PoolsNext]_poolVars PROVE PoolsInv'
    OBVIOUS
  <2>1. CASE UNCHANGED poolVars
    BY <2>1, PoolsStutter
  <2>2. CASE \E a \in AdminTasks :
          \/ \E kind \in Kinds : Create(a, kind)
          \/ Update(a) \/ Delete(a) \/ Commits(a) \/ Refreshed(a) \/ Made(a) \/ Closes(a) \/ EraseRow(a)
    BY <2>2, Begun, Deleted, Committed, RowRefreshed, ClientMade, CloseBegun, RowErased
  <2>3. CASE \E t \in threads : TakesLock(t) \/ CloseEnds(t) \/ CallEnds(t)
    BY <2>3, LockTaken, CloseEnded, CallEnded
  <2>4. CASE \E q \in Queries : Validate(q) \/ Fetch(q) \/ TimedOut(q) \/ Answered(q)
    BY <2>4, Validated, Fetched, GaveUp, QueryAnswered
  <2>5. CASE Boot
    BY <2>5, Booted
  <2>. QED
    BY <2>1, <2>2, <2>3, <2>4, <2>5 DEF PoolsNext
<1>3. PoolsInv => ClientsAreSound
  BY DEF PoolsInv
<1>. QED
  BY <1>1, <1>2, <1>3, PTL DEF PoolsSpec

(***************************************************************************)
(* The registration of an external MCP server.                             *)
(***************************************************************************)
Tools == UNION Listings
Places == Urls \cup {Nowhere}
RowType == [url : Places, rev : Nat, tools : SUBSET Tools, approved : SUBSET Tools]
EditType ==
  [op : {"none", "create", "update", "delete", "refresh", "approve"},
   stage : {"idle", "flush", "upstream", "route", "commit", "forget", "unroute", "unupstream", "erase",
            "listed", "send", "write"},
   row : RowType, url : Places, entries : SUBSET Tools, revokes : BOOLEAN]
CallType == [stage : {"idle", "open", "opened", "send"}, rev : Nat, session : Places, again : BOOLEAN]

McpTypes ==
  /\ server \in RowType /\ revisions \in Nat /\ mishaps \in Nat
  /\ writer \in Editors \cup {Nobody}
  /\ upstream \in Places /\ relay \in Places /\ grant \in {"none", "given", "left"}
  /\ edit \in [Editors -> EditType] /\ call \in [Relays -> CallType]
  /\ kept \in [key : Int, url : Places]
  /\ crossed \in BOOLEAN /\ halfway \in BOOLEAN

(* A registered server has an address and a revision, and nobody knows a   *)
(* revision that was not given out.                                        *)
RevisionsAreGivenOut ==
  /\ server = Unregistered \/ (server.url \in Urls /\ server.rev # 0)
  /\ server.rev <= revisions
  /\ kept.key = -1 \/ kept.key \in 1..revisions
  /\ \A c \in Relays : call[c].stage # "idle" => call[c].rev \in 1..revisions

(* The steps of each request. *)
InTransaction == {"upstream", "route", "commit"}
StagesOf(op) ==
  CASE op = "none" -> {"idle"}
    [] op = "create" -> {"flush"} \cup InTransaction
    [] op = "update" -> {"flush", "forget"} \cup InTransaction
    [] op = "delete" -> {"unroute", "unupstream", "erase"}
    [] op = "refresh" -> {"listed", "write"}
    [] op = "approve" -> {"send", "write"}

EditsAreInOrder ==
  \A a \in Editors :
    /\ edit[a].stage \in StagesOf(edit[a].op)
    /\ edit[a].op \in {"create", "update", "approve"} => edit[a].url \in Urls

(* Who has written the row holds it until its commit: a create finds it    *)
(* missing and an update there, and no grant comes in between.             *)
RowIsHeld ==
  \A a \in Editors :
    /\ writer = a <=> edit[a].stage \in InTransaction
    /\ edit[a].stage \in InTransaction =>
         /\ edit[a].op = "create" <=> server = Unregistered
         /\ edit[a].op = "create" /\ ~edit[a].revokes => grant = "none"

(* Every approval, of the row or of a row somebody has read, was given by  *)
(* an administrator who saw the tool.                                      *)
Seen == {e \in Tools : \E url \in Urls : <<url, e>> \in reviewed}
ApprovalsWereSeen ==
  /\ server.approved \subseteq Seen
  /\ \A a \in Editors :
       /\ edit[a].row.approved \subseteq Seen
       /\ edit[a].op = "approve" /\ edit[a].stage = "write" => edit[a].entries \subseteq Seen

SessionsAreThere ==
  /\ kept.key = server.rev => kept.url = server.url
  /\ \A c \in Relays : call[c].stage = "opened" /\ call[c].rev = server.rev => call[c].session = server.url

(* As long as changes have not overlapped, what is at the gateway follows  *)
(* from the step the one change is at.                                     *)
ChangesAreAlone ==
  ~crossed =>
    /\ \A a, b \in Changing : a = b
    /\ \A a \in Editors :
         /\ edit[a].op = "update" /\ edit[a].stage # "forget" => edit[a].row.url = server.url
         /\ edit[a].stage \in {"route", "commit"} => upstream = edit[a].url
         /\ edit[a].stage = "commit" => relay = edit[a].url
         /\ edit[a].stage \in {"unupstream", "erase"} => relay = Nowhere
         /\ edit[a].stage = "erase" => upstream = Nowhere
    /\ ~halfway /\ (\A a \in Editors : edit[a].stage \notin {"route", "commit", "unupstream", "erase"}) =>
         upstream = server.url /\ relay = server.url /\ SessionsAreThere

McpInv ==
  /\ McpTypes /\ RevisionsAreGivenOut /\ EditsAreInOrder /\ RowIsHeld /\ NoInheritedGrant
  /\ ApprovalsWereSeen /\ ChangesAreAlone

-------------------------------------------------------------------------------
LEMMA McpConstants ==
  /\ Unregistered \in RowType /\ Unregistered.approved = {} /\ Unregistered.url = Nowhere /\ Unregistered.rev = 0
  /\ NoSession \in [key : Int, url : Places] /\ NoSession.key = -1
  /\ IdleEdit \in EditType /\ IdleEdit.op = "none" /\ IdleEdit.stage = "idle" /\ IdleEdit.row.approved = {}
  /\ IdleCall \in CallType /\ IdleCall.stage = "idle"
<1>1. /\ Unregistered \in RowType /\ Unregistered.approved = {} /\ Unregistered.url = Nowhere
      /\ Unregistered.rev = 0
  BY DEF Unregistered, RowType, Places
<1>2. NoSession \in [key : Int, url : Places] /\ NoSession.key = -1
  BY DEF NoSession, Places
<1>3. /\ IdleEdit \in EditType /\ IdleEdit.op = "none" /\ IdleEdit.stage = "idle"
      /\ IdleEdit.row.approved = {}
  BY <1>1 DEF IdleEdit, EditType, Places
<1>4. IdleCall \in CallType /\ IdleCall.stage = "idle"
  BY DEF IdleCall, CallType, Places
<1>. QED
  BY <1>1, <1>2, <1>3, <1>4

LEMMA McpInvInit == McpInit => McpInv
<1>. SUFFICES ASSUME McpInit PROVE McpInv
  OBVIOUS
<1>. USE McpConstants, McpAssumption DEF McpInit
<1>1. McpTypes
  <2>1. edit \in [Editors -> EditType] /\ call \in [Relays -> CallType]
    OBVIOUS
  <2>. QED
    BY <2>1 DEF McpTypes, Places
<1>2. RevisionsAreGivenOut /\ NoInheritedGrant
  BY DEF RevisionsAreGivenOut, NoInheritedGrant
<1>3. EditsAreInOrder /\ RowIsHeld
  BY DEF EditsAreInOrder, RowIsHeld, StagesOf, InTransaction
<1>4. ApprovalsWereSeen
  BY DEF ApprovalsWereSeen
<1>5. ChangesAreAlone
  BY DEF ChangesAreAlone, SessionsAreThere, Changing, Changes
<1>. QED
  BY <1>1, <1>2, <1>3, <1>4, <1>5 DEF McpInv

LEMMA McpHolds ==
  ASSUME McpInv
  PROVE  NothingUnseen
<1>1. GatewayFollowsTheRow
  <2>. SUFFICES ASSUME Settled
                PROVE  upstream = server.url /\ relay = server.url /\ (Finds(server.rev) => kept.url = server.url)
    BY DEF GatewayFollowsTheRow
  <2>1. \A a \in Editors : edit[a].op \notin Changes /\ edit[a].stage \in StagesOf(edit[a].op) /\ edit[a] \in EditType
    BY DEF Settled, Changing, McpInv, EditsAreInOrder, McpTypes
  <2>2. \A a \in Editors : edit[a].stage \notin {"route", "commit", "unupstream", "erase"}
    BY <2>1 DEF StagesOf, Changes, EditType
  <2>3. upstream = server.url /\ relay = server.url /\ SessionsAreThere
    BY <2>2 DEF Settled, McpInv, ChangesAreAlone
  <2>. QED
    BY <2>3 DEF SessionsAreThere, Finds, SessionKey
<1>2. OfferedWasReviewed
  BY DEF OfferedWasReviewed, Offered, McpInv, ApprovalsWereSeen, Seen
<1>. QED
  BY <1>1, <1>2 DEF NothingUnseen, RegistrationIsClean, McpInv

-------------------------------------------------------------------------------
(* Relayed calls move, and the sessions with them. *)
LEMMA CallsMove ==
  ASSUME McpInv, UNCHANGED <<server, revisions, writer, upstream, relay, halfway, mishaps, grant, edit, reviewed, crossed>>,
         call' \in [Relays -> CallType], kept' \in [key : Int, url : Places], RevisionsAreGivenOut',
         upstream = server.url /\ relay = server.url /\ SessionsAreThere => SessionsAreThere'
  PROVE  McpInv'
<1>1. McpTypes'
  BY DEF McpInv, McpTypes
<1>2. EditsAreInOrder' /\ RowIsHeld' /\ NoInheritedGrant'
  BY DEF McpInv, EditsAreInOrder, RowIsHeld, NoInheritedGrant
<1>3. ApprovalsWereSeen'
  BY DEF McpInv, ApprovalsWereSeen, Seen
<1>4. Changing' = Changing
  BY DEF Changing
<1>5. ChangesAreAlone'
  BY <1>4 DEF McpInv, ChangesAreAlone
<1>. QED
  BY <1>1, <1>2, <1>3, <1>5 DEF McpInv

LEMMA OneCalls ==
  ASSUME McpInv, NEW c \in Relays, Call(c) \/ Open(c) \/ Store(c) \/ Answer(c) \/ Expired(c)
  PROVE  McpInv'
<1>1. UNCHANGED <<server, revisions, writer, upstream, relay, halfway, mishaps, grant, edit, reviewed, crossed>>
  BY DEF Call, Open, Store, Answer, Expired, gatewayVars, historyVars
<1>2. /\ call \in [Relays -> CallType] /\ call[c] \in CallType /\ kept \in [key : Int, url : Places]
      /\ server \in RowType /\ upstream \in Places
      /\ call[c].stage # "idle" => call[c].rev \in 1..revisions
      /\ server.rev \in 0..revisions /\ revisions \in Nat
  BY DEF McpInv, McpTypes, RevisionsAreGivenOut, RowType
<1>3. Reached \in Places
  BY <1>2 DEF Reached, Places
<1>4. CASE Call(c)
  <2>. DEFINE new == [IdleCall EXCEPT !.stage = "open", !.rev = server.rev]
  <2>1. server.rev # 0
    BY <1>4, McpConstants DEF Call, Offered, McpInv, RevisionsAreGivenOut
  <2>2. new \in CallType /\ new.stage = "open" /\ new.rev = server.rev
    BY <1>2, McpConstants DEF CallType, RowType
  <2>3. call' = [call EXCEPT ![c] = new] /\ kept' = kept
    BY <1>4 DEF Call
  <2>. HIDE DEF new
  <2>4. /\ call' \in [Relays -> CallType] /\ call'[c] = new
        /\ \A d \in Relays \ {c} : call'[d] = call[d]
    BY <1>2, <2>2, <2>3
  <2>5. RevisionsAreGivenOut'
    BY <1>1, <1>2, <2>1, <2>2, <2>3, <2>4 DEF McpInv, RevisionsAreGivenOut
  <2>6. SessionsAreThere => SessionsAreThere'
    BY <1>1, <2>2, <2>3, <2>4 DEF SessionsAreThere
  <2>. QED
    BY <1>1, <1>2, <2>3, <2>4, <2>5, <2>6, CallsMove
<1>5. CASE Open(c)
  <2>1. PICK new \in CallType :
          /\ call' = [call EXCEPT ![c] = new] /\ kept' = kept
          /\ new.stage # "idle" => new.rev = call[c].rev
          /\ new.stage = "opened" => new.session = Reached /\ Reached # Nowhere
    <3>1. CASE Finds(call[c].rev)
      <4>. DEFINE new == [call[c] EXCEPT !.stage = "send", !.session = kept.url]
      <4>1. new \in CallType /\ new.stage = "send" /\ new.rev = call[c].rev
        BY <1>2 DEF CallType
      <4>2. call' = [call EXCEPT ![c] = new] /\ kept' = kept
        BY <1>5, <3>1 DEF Open
      <4>. QED
        BY <4>1, <4>2
    <3>2. CASE ~Finds(call[c].rev) /\ Reached # Nowhere
      <4>. DEFINE new == [call[c] EXCEPT !.stage = "opened", !.session = Reached]
      <4>1. new \in CallType /\ new.stage = "opened" /\ new.rev = call[c].rev /\ new.session = Reached
        BY <1>2, <1>3 DEF CallType
      <4>2. call' = [call EXCEPT ![c] = new] /\ kept' = kept
        BY <1>5, <3>2 DEF Open
      <4>. QED
        BY <3>2, <4>1, <4>2
    <3>3. CASE ~Finds(call[c].rev) /\ Reached = Nowhere
      <4>1. call' = [call EXCEPT ![c] = IdleCall] /\ kept' = kept
        BY <1>5, <3>3 DEF Open
      <4>. QED
        BY <4>1, McpConstants
    <3>. QED
      BY <3>1, <3>2, <3>3
  <2>2. call[c].stage = "open"
    BY <1>5 DEF Open
  <2>3. /\ call' \in [Relays -> CallType] /\ call'[c] = new
        /\ \A d \in Relays \ {c} : call'[d] = call[d]
    BY <1>2, <2>1
  <2>4. RevisionsAreGivenOut'
    BY <1>1, <1>2, <2>1, <2>2, <2>3 DEF McpInv, RevisionsAreGivenOut
  <2>5. upstream = server.url /\ relay = server.url /\ SessionsAreThere => SessionsAreThere'
    BY <1>1, <2>1, <2>3 DEF SessionsAreThere, Reached
  <2>. QED
    BY <1>1, <1>2, <2>1, <2>3, <2>4, <2>5, CallsMove
<1>6. CASE Store(c)
  <2>. DEFINE new == [call[c] EXCEPT !.stage = "send"]
              session == [key |-> call[c].rev, url |-> call[c].session]
  <2>1. new \in CallType /\ new.stage = "send" /\ new.rev = call[c].rev
    BY <1>2 DEF CallType
  <2>2. call' = [call EXCEPT ![c] = new] /\ kept' = session /\ call[c].stage = "opened"
    BY <1>6 DEF Store, SessionKey
  <2>3. session \in [key : Int, url : Places] /\ session.key = call[c].rev /\ session.url = call[c].session
    BY <1>2 DEF CallType
  <2>. HIDE DEF new, session
  <2>4. /\ call' \in [Relays -> CallType] /\ call'[c] = new
        /\ \A d \in Relays \ {c} : call'[d] = call[d]
    BY <1>2, <2>1, <2>2
  <2>5. RevisionsAreGivenOut'
    BY <1>1, <1>2, <2>1, <2>2, <2>3, <2>4 DEF McpInv, RevisionsAreGivenOut
  <2>6. SessionsAreThere => SessionsAreThere'
    BY <1>1, <2>1, <2>2, <2>3, <2>4 DEF SessionsAreThere
  <2>. QED
    BY <1>1, <2>2, <2>3, <2>4, <2>5, <2>6, CallsMove
<1>7. CASE Answer(c)
  <2>1. call' = [call EXCEPT ![c] = IdleCall] /\ kept' = kept
    BY <1>7 DEF Answer
  <2>2. /\ call' \in [Relays -> CallType] /\ call'[c] = IdleCall
        /\ \A d \in Relays \ {c} : call'[d] = call[d]
    BY <1>2, <2>1, McpConstants
  <2>3. RevisionsAreGivenOut'
    BY <1>1, <1>2, <2>1, <2>2, McpConstants DEF McpInv, RevisionsAreGivenOut
  <2>4. SessionsAreThere => SessionsAreThere'
    BY <1>1, <2>1, <2>2, McpConstants DEF SessionsAreThere
  <2>. QED
    BY <1>1, <1>2, <2>1, <2>2, <2>3, <2>4, CallsMove
<1>8. CASE Expired(c)
  <2>1. PICK new \in CallType :
          /\ call' = [call EXCEPT ![c] = new]
          /\ new.stage \in {"idle", "open"} /\ (new.stage # "idle" => new.rev = call[c].rev)
    <3>. DEFINE again == [call[c] EXCEPT !.stage = "open", !.again = TRUE, !.session = Nowhere]
    <3>1. again \in CallType /\ again.stage = "open" /\ again.rev = call[c].rev
      BY <1>2 DEF CallType, Places
    <3>2. call' = [call EXCEPT ![c] = IdleCall] \/ call' = [call EXCEPT ![c] = again]
      BY <1>8 DEF Expired
    <3>. HIDE DEF again
    <3>. QED
      BY <3>1, <3>2, McpConstants
  <2>2. call[c].stage = "send" /\ kept' \in {kept, NoSession}
    BY <1>8 DEF Expired
  <2>3. /\ call' \in [Relays -> CallType] /\ call'[c] = new
        /\ \A d \in Relays \ {c} : call'[d] = call[d]
    BY <1>2, <2>1
  <2>4. RevisionsAreGivenOut'
    BY <1>1, <1>2, <2>1, <2>2, <2>3, McpConstants DEF McpInv, RevisionsAreGivenOut
  <2>5. SessionsAreThere => SessionsAreThere'
    BY <1>1, <1>2, <2>1, <2>2, <2>3, McpConstants DEF SessionsAreThere
  <2>. QED
    BY <1>1, <1>2, <2>2, <2>3, <2>4, <2>5, McpConstants, CallsMove
<1>. QED
  BY <1>4, <1>5, <1>6, <1>7, <1>8

LEMMA SessionDropped ==
  ASSUME McpInv, Drop
  PROVE  McpInv'
<1>1. UNCHANGED <<server, revisions, writer, upstream, relay, halfway, mishaps, grant, edit, reviewed, crossed, call>>
  BY DEF Drop, gatewayVars, historyVars
<1>2. kept' = NoSession
  BY DEF Drop
<1>3. RevisionsAreGivenOut'
  BY <1>1, <1>2, McpConstants DEF McpInv, RevisionsAreGivenOut
<1>4. SessionsAreThere => SessionsAreThere'
  BY <1>1, <1>2, McpConstants DEF SessionsAreThere, McpInv, McpTypes, RowType
<1>5. call' \in [Relays -> CallType]
  BY <1>1 DEF McpInv, McpTypes
<1>. QED
  BY <1>1, <1>2, <1>3, <1>4, <1>5, McpConstants, CallsMove

-------------------------------------------------------------------------------
(* One request of an administrator makes a step that commits nothing: its  *)
(* record becomes new.                                                     *)
LEMMA OneEdits ==
  ASSUME McpInv, NEW a \in Editors, NEW new \in EditType, edit' = [edit EXCEPT ![a] = new],
         UNCHANGED <<server, revisions, grant, call>>, kept' \in {kept, NoSession},
         upstream' \in Places, relay' \in Places, mishaps' \in Nat, crossed' \in BOOLEAN, halfway' \in BOOLEAN,
         new.stage \in StagesOf(new.op), new.op \in {"create", "update", "approve"} => new.url \in Urls,
         writer' \in Editors \cup {Nobody}, writer' = a <=> new.stage \in InTransaction,
         \A b \in Editors \ {a} : writer' = b <=> writer = b,
         new.stage \in InTransaction => /\ new.op = "create" <=> server = Unregistered
                                        /\ new.op = "create" /\ ~new.revokes => grant = "none",
         reviewed \subseteq reviewed', new.row.approved \subseteq Seen',
         new.op = "approve" /\ new.stage = "write" => new.entries \subseteq Seen',
         ChangesAreAlone'
  PROVE  McpInv'
<1>1. /\ edit'[a] = new /\ edit' \in [Editors -> EditType]
      /\ \A b \in Editors \ {a} : edit'[b] = edit[b]
  BY DEF McpInv, McpTypes
<1>2. kept' \in [key : Int, url : Places] /\ (kept'.key = kept.key \/ kept'.key = -1)
  BY McpConstants DEF McpInv, McpTypes
<1>3. McpTypes'
  BY <1>1, <1>2 DEF McpInv, McpTypes
<1>4. RevisionsAreGivenOut'
  BY <1>2 DEF McpInv, RevisionsAreGivenOut
<1>5. EditsAreInOrder'
  BY <1>1 DEF McpInv, EditsAreInOrder
<1>6. RowIsHeld'
  BY <1>1 DEF McpInv, RowIsHeld
<1>7. NoInheritedGrant'
  BY DEF McpInv, NoInheritedGrant
<1>8. ApprovalsWereSeen'
  <2>1. Seen \subseteq Seen'
    BY DEF Seen
  <2>. QED
    BY <1>1, <2>1 DEF McpInv, ApprovalsWereSeen
<1>. QED
  BY <1>3, <1>4, <1>5, <1>6, <1>7, <1>8 DEF McpInv

(* Who changes nothing of the registration leaves it to who does. *)
LEMMA ReaderIsAside ==
  ASSUME McpInv, NEW a \in Editors, NEW new \in EditType, edit' = [edit EXCEPT ![a] = new],
         UNCHANGED <<server, upstream, relay, halfway, crossed, kept, call>>,
         edit[a].op \notin Changes, new.op \notin Changes, new.stage \in StagesOf(new.op)
  PROVE  ChangesAreAlone'
<1>1. /\ edit'[a] = new
      /\ \A b \in Editors \ {a} : edit'[b] = edit[b]
  BY DEF McpInv, McpTypes
<1>2. /\ new.op # "update" /\ edit[a].op # "update"
      /\ new.stage \notin {"route", "commit", "unupstream", "erase"}
      /\ edit[a].stage \notin {"route", "commit", "unupstream", "erase"}
  <2>1. edit[a].stage \in StagesOf(edit[a].op) /\ edit[a] \in EditType
    BY DEF McpInv, McpTypes, EditsAreInOrder
  <2>. QED
    BY <2>1 DEF StagesOf, Changes, EditType
<1>3. Changing' = Changing
  BY <1>1 DEF Changing
<1>4. SessionsAreThere' <=> SessionsAreThere
  BY DEF SessionsAreThere
<1>. QED
  BY <1>1, <1>2, <1>3, <1>4 DEF McpInv, ChangesAreAlone

(* The one change at work makes a step at the gateway, or none. *)
LEMMA ChangeIsAlone ==
  ASSUME McpInv, NEW a \in Editors, NEW new \in EditType, edit' = [edit EXCEPT ![a] = new],
         UNCHANGED <<server, call>>, kept' \in {kept, NoSession},
         ~crossed' => /\ ~crossed /\ \A b \in Editors \ {a} : edit[b].op \notin Changes
                      /\ new.op = "update" /\ new.stage # "forget" => new.row.url = server.url
                      /\ new.stage \in {"route", "commit"} => upstream' = new.url
                      /\ new.stage = "commit" => relay' = new.url
                      /\ new.stage \in {"unupstream", "erase"} => relay' = Nowhere
                      /\ new.stage = "erase" => upstream' = Nowhere
                      /\ ~halfway' /\ new.stage \notin {"route", "commit", "unupstream", "erase"} =>
                           /\ edit[a].stage \notin {"route", "commit", "unupstream", "erase"}
                           /\ ~halfway /\ UNCHANGED <<upstream, relay>>
  PROVE  ChangesAreAlone'
<1>. SUFFICES ASSUME ~crossed' PROVE ChangesAreAlone'
  BY DEF ChangesAreAlone
<1>1. /\ edit'[a] = new
      /\ \A b \in Editors \ {a} : edit'[b] = edit[b]
  BY DEF McpInv, McpTypes
<1>2. \A b \in Editors \ {a} : /\ edit[b].op \notin Changes
                              /\ edit[b].stage \notin {"route", "commit", "unupstream", "erase"}
  <2>1. \A b \in Editors : edit[b].stage \in StagesOf(edit[b].op) /\ edit[b] \in EditType
    BY DEF McpInv, McpTypes, EditsAreInOrder
  <2>. QED
    BY <2>1 DEF StagesOf, Changes, EditType
<1>3. \A b, c \in Changing' : b = c
  BY <1>1, <1>2 DEF Changing
<1>4. SessionsAreThere => SessionsAreThere'
  BY McpConstants DEF SessionsAreThere, McpInv, McpTypes, RowType
<1>5. ASSUME ~halfway', \A b \in Editors : edit'[b].stage \notin {"route", "commit", "unupstream", "erase"}
      PROVE  upstream' = server.url /\ relay' = server.url /\ SessionsAreThere'
  <2>1. /\ edit[a].stage \notin {"route", "commit", "unupstream", "erase"}
        /\ ~halfway /\ UNCHANGED <<upstream, relay>>
    BY <1>1, <1>5
  <2>2. upstream = server.url /\ relay = server.url /\ SessionsAreThere
    BY <1>2, <2>1 DEF McpInv, ChangesAreAlone
  <2>. QED
    BY <1>4, <2>1, <2>2
<1>6. \A b \in Editors :
         /\ edit'[b].op = "update" /\ edit'[b].stage # "forget" => edit'[b].row.url = server'.url
         /\ edit'[b].stage \in {"route", "commit"} => upstream' = edit'[b].url
         /\ edit'[b].stage = "commit" => relay' = edit'[b].url
         /\ edit'[b].stage \in {"unupstream", "erase"} => relay' = Nowhere
         /\ edit'[b].stage = "erase" => upstream' = Nowhere
  BY <1>1, <1>2 DEF Changes
<1>. QED
  BY <1>3, <1>5, <1>6 DEF ChangesAreAlone

(* While one change is alone nobody else is at one. *)
LEMMA AloneAtChange ==
  ASSUME McpInv, NEW a \in Editors, edit[a].op \in Changes, ~crossed
  PROVE  \A b \in Editors \ {a} : edit[b].op \notin Changes
BY DEF McpInv, ChangesAreAlone, Changing

LEMMA StageTellsOp ==
  ASSUME McpInv, NEW a \in Editors
  PROVE  /\ edit[a].stage \in StagesOf(edit[a].op) /\ edit[a] \in EditType
         /\ edit[a].stage = "idle" <=> edit[a].op = "none"
         /\ edit[a].stage \in {"flush", "upstream", "route", "commit"} => edit[a].op \in {"create", "update"}
         /\ edit[a].stage = "forget" => edit[a].op = "update"
         /\ edit[a].stage \in {"unroute", "unupstream", "erase"} => edit[a].op = "delete"
         /\ edit[a].stage = "listed" => edit[a].op = "refresh"
         /\ edit[a].stage = "send" => edit[a].op = "approve"
         /\ edit[a].stage = "write" => edit[a].op \in {"refresh", "approve"}
<1>1. edit[a].stage \in StagesOf(edit[a].op) /\ edit[a] \in EditType
  BY DEF McpInv, McpTypes, EditsAreInOrder
<1>2. edit[a].op \in {"none", "create", "update", "delete", "refresh", "approve"}
  BY <1>1 DEF EditType
<1>. QED
  BY <1>1, <1>2 DEF StagesOf, InTransaction

LEMMA ChangeBegins ==
  ASSUME McpInv, NEW a \in Editors, NEW op \in Changes, NEW url \in Places, op # "delete" => url \in Urls,
         Begin(a, op, url)
  PROVE  McpInv'
<1>. DEFINE read == IF op = "update" THEN server ELSE Unregistered
            first == IF op = "delete" THEN "unroute" ELSE "flush"
            new == [IdleEdit EXCEPT !.op = op, !.url = url, !.row = read, !.stage = first]
<1>1. /\ edit' = [edit EXCEPT ![a] = new] /\ edit[a].stage = "idle"
      /\ crossed' = (crossed \/ \E b \in Editors : edit[b].op \in Changes)
      /\ UNCHANGED <<server, revisions, writer, upstream, relay, halfway, mishaps, grant, call, kept, reviewed>>
  BY DEF Begin, gatewayVars
<1>2. read \in RowType /\ read.approved \subseteq Seen /\ (op = "update" => read = server)
  BY McpConstants DEF McpInv, McpTypes, ApprovalsWereSeen
<1>3. op \in {"create", "update", "delete"}
  BY DEF Changes
<1>. HIDE DEF read
<1>4. /\ new \in EditType /\ new.op = op /\ new.url = url /\ new.row = read /\ new.stage = first
  BY <1>2, <1>3, McpConstants DEF EditType
<1>5. first \in StagesOf(op) /\ first \notin InTransaction
  BY <1>3 DEF StagesOf, InTransaction
<1>6. first \in {"flush", "unroute"}
  OBVIOUS
<1>. HIDE DEF new, first
<1>7. crossed' \in BOOLEAN /\ writer # a /\ edit[a].stage \notin {"route", "commit", "unupstream", "erase"}
  BY <1>1 DEF McpInv, McpTypes, RowIsHeld, InTransaction
<1>8. ChangesAreAlone'
  BY <1>1, <1>2, <1>4, <1>6, <1>7, ChangeIsAlone DEF McpInv, McpTypes
<1>9. McpTypes
  BY DEF McpInv
<1>10. Seen' = Seen
  BY <1>1 DEF Seen
<1>. QED
  BY <1>1, <1>2, <1>3, <1>4, <1>5, <1>6, <1>7, <1>8, <1>9, <1>10, OneEdits DEF McpTypes

(* A request ends, or ends in error, with nothing committed. *)
LEMMA EditEnds ==
  ASSUME McpInv, NEW a \in Editors, Ends(a), edit[a].op \in Changes,
         UNCHANGED <<server, revisions, upstream, relay, grant, call, crossed>>, kept' \in {kept, NoSession},
         reviewed' = reviewed, mishaps' \in Nat, halfway' \in BOOLEAN,
         writer' = IF edit[a].stage \in InTransaction THEN Nobody ELSE writer,
         ~halfway' => ~halfway /\ edit[a].stage \notin {"route", "commit", "unupstream", "erase"}
  PROVE  McpInv'
<1>1. edit' = [edit EXCEPT ![a] = IdleEdit]
  BY DEF Ends
<1>2. ~crossed => \A b \in Editors \ {a} : edit[b].op \notin Changes
  BY AloneAtChange
<1>3. ChangesAreAlone'
  BY <1>1, <1>2, ChangeIsAlone, McpConstants
<1>4. /\ McpTypes /\ \A b \in Editors : writer = b <=> edit[b].stage \in InTransaction
  BY DEF McpInv, RowIsHeld
<1>5. /\ writer' \in Editors \cup {Nobody} /\ writer' # a
      /\ \A b \in Editors \ {a} : writer' = b <=> writer = b
  BY <1>4, McpAssumption DEF McpTypes
<1>6. /\ IdleEdit.stage \in StagesOf(IdleEdit.op) /\ IdleEdit.stage \notin InTransaction
      /\ IdleEdit.op = "none" /\ IdleEdit.row.approved \subseteq Seen'
  BY McpConstants DEF StagesOf, InTransaction
<1>. QED
  BY <1>1, <1>3, <1>4, <1>5, <1>6, McpConstants, OneEdits DEF McpTypes

LEMMA RowFlushed ==
  ASSUME McpInv, NEW a \in Editors, Flush(a)
  PROVE  McpInv'
<1>1. /\ edit[a].stage = "flush" /\ writer = Nobody /\ edit[a].op \in {"create", "update"} /\ edit[a] \in EditType
      /\ UNCHANGED <<server, revisions, upstream, relay, halfway, mishaps, grant, call, kept, reviewed, crossed>>
  BY StageTellsOp DEF Flush, gatewayVars, historyVars
<1>2. McpTypes /\ edit[a].op \in Changes
  BY <1>1 DEF McpInv, Changes
<1>3. CASE Ends(a) /\ UNCHANGED writer
  BY <1>1, <1>2, <1>3, EditEnds DEF McpTypes, InTransaction
<1>4. CASE /\ (edit[a].op = "create") = (server = Unregistered) /\ writer' = a
           /\ edit' = [edit EXCEPT ![a].stage = "upstream", ![a].revokes = Revokes(a)]
  <2>. DEFINE revokes == Revokes(a)
              new == [edit[a] EXCEPT !.stage = "upstream", !.revokes = revokes]
  <2>1. revokes \in BOOLEAN /\ (edit[a].op = "create" /\ ~revokes => grant = "none")
    BY DEF Revokes
  <2>2. edit' = [edit EXCEPT ![a] = new]
    BY <1>4
  <2>. HIDE DEF revokes
  <2>3. /\ new \in EditType /\ new.stage = "upstream" /\ new.revokes = revokes /\ new.op = edit[a].op
        /\ new.url = edit[a].url /\ new.row = edit[a].row /\ new.entries = edit[a].entries
    BY <1>1, <2>1 DEF EditType
  <2>. HIDE DEF new
  <2>4. new.stage \in StagesOf(new.op) /\ new.stage \in InTransaction
    BY <1>1, <2>3 DEF StagesOf, InTransaction
  <2>5. ~crossed => \A b \in Editors \ {a} : edit[b].op \notin Changes
    BY <1>2, AloneAtChange
  <2>6. ~crossed /\ new.op = "update" => new.row.url = server.url
    BY <1>1, <2>3 DEF McpInv, ChangesAreAlone
  <2>7. ChangesAreAlone'
    BY <1>1, <2>2, <2>3, <2>5, <2>6, ChangeIsAlone
  <2>8. new.row.approved \subseteq Seen' /\ new.url \in Urls
    BY <1>1, <2>3 DEF McpInv, ApprovalsWereSeen, Seen, EditsAreInOrder
  <2>9. \A b \in Editors \ {a} : writer' = b <=> writer = b
    BY <1>1, <1>4, McpAssumption
  <2>10. /\ upstream' \in Places /\ relay' \in Places /\ mishaps' \in Nat /\ crossed' \in BOOLEAN
         /\ halfway' \in BOOLEAN /\ kept' \in {kept, NoSession} /\ writer' \in Editors \cup {Nobody}
         /\ reviewed \subseteq reviewed' /\ new.stage # "write"
         /\ new.op = "create" <=> server = Unregistered
    BY <1>1, <1>2, <1>4, <2>3 DEF McpTypes
  <2>. QED
    BY <1>1, <1>4, <2>1, <2>2, <2>3, <2>4, <2>7, <2>8, <2>9, <2>10, OneEdits
<1>. QED
  BY <1>3, <1>4 DEF Flush

(* A change goes on to its next stage, with what it has put at the gateway. *)
LEMMA ChangeGoesOn ==
  ASSUME McpInv, NEW a \in Editors, edit[a].op \in Changes, NEW next, NEW revokes \in BOOLEAN,
         edit' = [edit EXCEPT ![a].stage = next, ![a].revokes = revokes],
         next \in StagesOf(edit[a].op), next \in {"route", "commit", "unupstream", "erase"},
         next \in InTransaction <=> edit[a].stage \in InTransaction, next \in InTransaction => revokes = edit[a].revokes,
         UNCHANGED <<server, revisions, writer, halfway, mishaps, grant, call, reviewed, crossed>>,
         kept' \in {kept, NoSession}, upstream' \in Places, relay' \in Places,
         ~crossed => /\ next \in {"route", "commit"} => upstream' = edit[a].url
                     /\ next = "commit" => relay' = edit[a].url
                     /\ next \in {"unupstream", "erase"} => relay' = Nowhere
                     /\ next = "erase" => upstream' = Nowhere
  PROVE  McpInv'
<1>. DEFINE new == [edit[a] EXCEPT !.stage = next, !.revokes = revokes]
<1>1. edit' = [edit EXCEPT ![a] = new]
  OBVIOUS
<1>2. /\ new \in EditType /\ new.stage = next /\ new.revokes = revokes /\ new.op = edit[a].op
      /\ new.url = edit[a].url /\ new.row = edit[a].row /\ new.entries = edit[a].entries
  BY StageTellsOp DEF EditType
<1>. HIDE DEF new
<1>3. ~crossed => \A b \in Editors \ {a} : edit[b].op \notin Changes
  BY AloneAtChange
<1>4. /\ McpTypes /\ edit[a].stage # "forget"
      /\ writer = a <=> edit[a].stage \in InTransaction
      /\ edit[a].stage \in InTransaction =>
           /\ edit[a].op = "create" <=> server = Unregistered
           /\ edit[a].op = "create" /\ ~edit[a].revokes => grant = "none"
  <2>1. next \in InTransaction \/ edit[a].op = "delete"
    BY StageTellsOp DEF StagesOf, InTransaction, Changes
  <2>2. edit[a].stage # "forget"
    BY <2>1, StageTellsOp DEF InTransaction
  <2>. QED
    BY <2>2 DEF McpInv, RowIsHeld
<1>5. ~crossed /\ new.op = "update" => new.row.url = server.url
  BY <1>2, <1>4 DEF McpInv, ChangesAreAlone
<1>6. ChangesAreAlone'
  <2>1. ~crossed' => /\ ~crossed /\ \A b \in Editors \ {a} : edit[b].op \notin Changes
                     /\ new.op = "update" /\ new.stage # "forget" => new.row.url = server.url
                     /\ new.stage \in {"route", "commit"} => upstream' = new.url
                     /\ new.stage = "commit" => relay' = new.url
                     /\ new.stage \in {"unupstream", "erase"} => relay' = Nowhere
                     /\ new.stage = "erase" => upstream' = Nowhere
                     /\ ~halfway' /\ new.stage \notin {"route", "commit", "unupstream", "erase"} =>
                          /\ edit[a].stage \notin {"route", "commit", "unupstream", "erase"}
                          /\ ~halfway /\ UNCHANGED <<upstream, relay>>
    BY <1>2, <1>3, <1>5
  <2>. QED
    BY <1>1, <1>2, <2>1, ChangeIsAlone
<1>7. new.row.approved \subseteq Seen' /\ (new.op \in {"create", "update", "approve"} => new.url \in Urls)
  BY <1>2 DEF McpInv, ApprovalsWereSeen, Seen, EditsAreInOrder
<1>8. /\ mishaps' \in Nat /\ crossed' \in BOOLEAN /\ halfway' \in BOOLEAN /\ writer' \in Editors \cup {Nobody}
      /\ reviewed \subseteq reviewed' /\ new.stage # "write" /\ writer' = writer
      /\ new.stage \in StagesOf(new.op) /\ \A b \in Editors \ {a} : writer' = b <=> writer = b
  BY <1>2, <1>4 DEF McpTypes
<1>9. /\ writer' = a <=> new.stage \in InTransaction
      /\ new.stage \in InTransaction => /\ new.op = "create" <=> server = Unregistered
                                        /\ new.op = "create" /\ ~new.revokes => grant = "none"
  BY <1>2, <1>4
<1>. QED
  BY <1>1, <1>2, <1>6, <1>7, <1>8, <1>9, OneEdits

LEMMA GatewayWritten ==
  ASSUME McpInv, NEW a \in Editors, WritesUpstream(a) \/ WritesRoute(a) \/ Unroute(a) \/ Unupstream(a)
  PROVE  McpInv'
<1>1. /\ McpTypes /\ edit[a] \in EditType /\ edit[a].revokes \in BOOLEAN /\ edit[a].url \in Places
      /\ Nowhere \in Places
  BY DEF McpInv, McpTypes, EditType, Places
<1>2. CASE WritesUpstream(a)
  <2>1. /\ edit[a].stage = "upstream" /\ edit[a].op \in {"create", "update"} /\ upstream' = edit[a].url
        /\ edit' = [edit EXCEPT ![a].stage = "route"]
        /\ UNCHANGED <<server, revisions, writer, relay, halfway, mishaps, grant, call, kept, reviewed, crossed>>
    BY <1>2, StageTellsOp DEF WritesUpstream, historyVars
  <2>2. edit' = [edit EXCEPT ![a].stage = "route", ![a].revokes = edit[a].revokes]
    BY <1>1, <2>1 DEF McpTypes, EditType
  <2>3. /\ edit[a].op \in Changes /\ "route" \in StagesOf(edit[a].op)
        /\ "route" \in InTransaction /\ edit[a].stage \in InTransaction
    BY <2>1 DEF Changes, StagesOf, InTransaction
  <2>. QED
    BY <1>1, <2>1, <2>2, <2>3, ChangeGoesOn DEF McpTypes
<1>3. CASE WritesRoute(a)
  <2>1. /\ edit[a].stage = "route" /\ edit[a].op \in {"create", "update"} /\ relay' = edit[a].url
        /\ edit' = [edit EXCEPT ![a].stage = "commit"]
        /\ UNCHANGED <<server, revisions, writer, upstream, halfway, mishaps, grant, call, kept, reviewed, crossed>>
    BY <1>3, StageTellsOp DEF WritesRoute, historyVars
  <2>2. edit' = [edit EXCEPT ![a].stage = "commit", ![a].revokes = edit[a].revokes]
    BY <1>1, <2>1 DEF McpTypes, EditType
  <2>3. /\ edit[a].op \in Changes /\ "commit" \in StagesOf(edit[a].op)
        /\ "commit" \in InTransaction /\ edit[a].stage \in InTransaction
    BY <2>1 DEF Changes, StagesOf, InTransaction
  <2>4. ~crossed => upstream = edit[a].url
    BY <2>1 DEF McpInv, ChangesAreAlone
  <2>. QED
    BY <1>1, <2>1, <2>2, <2>3, <2>4, ChangeGoesOn DEF McpTypes
<1>4. CASE Unroute(a)
  <2>1. /\ edit[a].stage = "unroute" /\ edit[a].op = "delete" /\ relay' = Nowhere
        /\ edit' = [edit EXCEPT ![a].stage = "unupstream"]
        /\ UNCHANGED <<server, revisions, writer, upstream, halfway, mishaps, grant, call, kept, reviewed, crossed>>
    BY <1>4, StageTellsOp DEF Unroute, historyVars
  <2>2. edit' = [edit EXCEPT ![a].stage = "unupstream", ![a].revokes = edit[a].revokes]
    BY <1>1, <2>1 DEF McpTypes, EditType
  <2>3. /\ edit[a].op \in Changes /\ "unupstream" \in StagesOf(edit[a].op)
        /\ "unupstream" \notin InTransaction /\ edit[a].stage \notin InTransaction
    BY <2>1 DEF Changes, StagesOf, InTransaction
  <2>. QED
    BY <1>1, <2>1, <2>2, <2>3, ChangeGoesOn DEF McpTypes
<1>5. CASE Unupstream(a)
  <2>1. /\ edit[a].stage = "unupstream" /\ edit[a].op = "delete" /\ upstream' = Nowhere /\ kept' = NoSession
        /\ edit' = [edit EXCEPT ![a].stage = "erase", ![a].revokes = grant # "none"]
        /\ UNCHANGED <<server, revisions, writer, relay, halfway, mishaps, grant, call, reviewed, crossed>>
    BY <1>5, StageTellsOp DEF Unupstream, historyVars
  <2>2. /\ edit[a].op \in Changes /\ "erase" \in StagesOf(edit[a].op)
        /\ "erase" \notin InTransaction /\ edit[a].stage \notin InTransaction
    BY <2>1 DEF Changes, StagesOf, InTransaction
  <2>3. ~crossed => relay = Nowhere
    BY <2>1 DEF McpInv, ChangesAreAlone
  <2>4. (grant # "none") \in BOOLEAN
    OBVIOUS
  <2>. QED
    BY <1>1, <2>1, <2>2, <2>3, <2>4, ChangeGoesOn DEF McpTypes
<1>. QED
  BY <1>2, <1>3, <1>4, <1>5

LEMMA ChangeGivenUp ==
  ASSUME McpInv, NEW a \in Editors, RollsBack(a) \/ DeleteFails(a) \/ Forget(a)
  PROVE  McpInv'
<1>1. McpTypes /\ mishaps + 1 \in Nat
  BY DEF McpInv, McpTypes
<1>2. CASE RollsBack(a)
  <2>1. /\ edit[a].stage \in InTransaction /\ edit[a].op \in Changes /\ writer' = Nobody /\ Ends(a)
        /\ mishaps' = mishaps + 1 /\ halfway' = (halfway \/ edit[a].stage # "upstream")
        /\ UNCHANGED <<server, revisions, upstream, relay, grant, call, kept, reviewed, crossed>>
    BY <1>2, StageTellsOp DEF RollsBack, Mishap, InTransaction, Changes, historyVars
  <2>. QED
    BY <1>1, <2>1, EditEnds DEF McpTypes
<1>3. CASE DeleteFails(a)
  <2>1. /\ edit[a].stage \in {"unroute", "unupstream", "erase"} /\ edit[a].op \in Changes /\ Ends(a)
        /\ edit[a].stage \notin InTransaction
        /\ mishaps' = mishaps + 1 /\ halfway' = (halfway \/ edit[a].stage # "unroute")
        /\ UNCHANGED <<server, revisions, writer, upstream, relay, grant, call, kept, reviewed, crossed>>
    BY <1>3, StageTellsOp DEF DeleteFails, Mishap, InTransaction, Changes, historyVars
  <2>2. ~halfway' => ~halfway /\ edit[a].stage \notin {"route", "commit", "unupstream", "erase"}
    BY <2>1
  <2>. QED
    BY <1>1, <2>1, <2>2, EditEnds DEF McpTypes
<1>4. CASE Forget(a)
  <2>1. /\ edit[a].stage = "forget" /\ edit[a].stage \notin InTransaction /\ edit[a].op \in Changes /\ Ends(a)
        /\ kept' = NoSession
        /\ UNCHANGED <<server, revisions, writer, upstream, relay, halfway, mishaps, grant, call, reviewed, crossed>>
    BY <1>4, StageTellsOp DEF Forget, InTransaction, Changes, gatewayVars, historyVars
  <2>. QED
    BY <1>1, <2>1, EditEnds DEF McpTypes
<1>. QED
  BY <1>2, <1>3, <1>4

-------------------------------------------------------------------------------
(* Listings and approvals. *)
LEMMA ReadersMove ==
  ASSUME McpInv, NEW a \in Editors, NEW new \in EditType, edit' = [edit EXCEPT ![a] = new],
         UNCHANGED <<server, revisions, writer, upstream, relay, halfway, mishaps, grant, call, kept, crossed>>,
         edit[a].op \in {"none", "refresh", "approve"}, new.op \in {"none", "refresh", "approve"},
         new.stage \in StagesOf(new.op), new.op = "approve" => new.url \in Urls,
         reviewed \subseteq reviewed', new.row.approved \subseteq Seen,
         new.op = "approve" /\ new.stage = "write" => new.entries \subseteq Seen'
  PROVE  McpInv'
<1>1. /\ new.stage \notin InTransaction /\ edit[a].stage \notin InTransaction
      /\ edit[a].op \notin Changes /\ new.op \notin Changes /\ new.op \notin {"create", "update"}
  BY StageTellsOp DEF StagesOf, InTransaction, Changes
<1>2. writer # a /\ McpTypes
  BY <1>1 DEF McpInv, RowIsHeld
<1>3. ChangesAreAlone'
  BY <1>1, ReaderIsAside
<1>4. Seen \subseteq Seen'
  BY DEF Seen
<1>. QED
  BY <1>1, <1>2, <1>3, <1>4, OneEdits DEF McpTypes

LEMMA ToolsListed ==
  ASSUME McpInv, NEW a \in Editors, NEW listing \in Listings, List(a, listing)
  PROVE  McpInv'
<1>. DEFINE new == [IdleEdit EXCEPT !.op = "refresh", !.stage = "listed", !.url = server.url, !.entries = listing]
<1>1. /\ edit' = [edit EXCEPT ![a] = new] /\ edit[a].stage = "idle"
      /\ UNCHANGED <<server, revisions, writer, upstream, relay, halfway, mishaps, grant, call, kept, reviewed, crossed>>
  BY DEF List, gatewayVars, historyVars
<1>2. listing \in SUBSET Tools /\ server.url \in Places
  BY DEF Tools, McpInv, McpTypes, RowType
<1>3. new \in EditType /\ new.op = "refresh" /\ new.stage = "listed" /\ new.row.approved = {}
  BY <1>2, McpConstants DEF EditType
<1>. HIDE DEF new
<1>4. new.stage \in StagesOf(new.op) /\ edit[a].op = "none"
  BY <1>1, <1>3, StageTellsOp DEF StagesOf
<1>. QED
  BY <1>1, <1>3, <1>4, ReadersMove

LEMMA PageLoaded ==
  ASSUME McpInv, NEW a \in Editors, NEW wanted \in SUBSET server.tools, Look(a, wanted)
  PROVE  McpInv'
<1>. DEFINE new == [IdleEdit EXCEPT !.op = "approve", !.stage = "send", !.url = server.url, !.entries = wanted]
<1>1. /\ edit' = [edit EXCEPT ![a] = new] /\ edit[a].stage = "idle" /\ wanted # {}
      /\ UNCHANGED <<server, revisions, writer, upstream, relay, halfway, mishaps, grant, call, kept, reviewed, crossed>>
  BY DEF Look, gatewayVars, historyVars
<1>2. server \in RowType /\ wanted \in SUBSET Tools
  BY DEF McpInv, McpTypes, RowType
<1>3. server.url \in Urls
  BY <1>1 DEF McpInv, RevisionsAreGivenOut, Unregistered
<1>4. new \in EditType /\ new.op = "approve" /\ new.stage = "send" /\ new.row.approved = {} /\ new.url \in Urls
  BY <1>2, <1>3, McpConstants DEF EditType, Places
<1>. HIDE DEF new
<1>5. new.stage \in StagesOf(new.op) /\ edit[a].op = "none"
  BY <1>1, <1>4, StageTellsOp DEF StagesOf
<1>. QED
  BY <1>1, <1>4, <1>5, ReadersMove

LEMMA RowReread ==
  ASSUME McpInv, NEW a \in Editors, Reread(a) \/ Approve(a)
  PROVE  McpInv'
<1>. DEFINE new == [edit[a] EXCEPT !.stage = "write", !.row = server]
<1>1. /\ edit' = [edit EXCEPT ![a] = new] \/ edit' = [edit EXCEPT ![a] = IdleEdit]
      /\ UNCHANGED <<server, revisions, writer, upstream, relay, halfway, mishaps, grant, call, kept, crossed>>
      /\ edit[a].op \in {"refresh", "approve"} /\ reviewed \subseteq reviewed'
      /\ edit[a].op = "approve" => reviewed' = reviewed \cup {<<edit[a].url, e>> : e \in edit[a].entries}
  <2>1. CASE Reread(a)
    BY <2>1 DEF Reread, Ends, gatewayVars, historyVars
  <2>2. CASE Approve(a)
    BY <2>2 DEF Approve, Ends, gatewayVars
  <2>. QED
    BY <2>1, <2>2
<1>2. server \in RowType /\ edit[a] \in EditType /\ server.approved \subseteq Seen
  BY DEF McpInv, McpTypes, ApprovalsWereSeen
<1>3. /\ new \in EditType /\ new.op = edit[a].op /\ new.stage = "write" /\ new.row = server
      /\ new.url = edit[a].url /\ new.entries = edit[a].entries
  BY <1>2 DEF EditType
<1>4. edit[a].op = "approve" => edit[a].url \in Urls /\ edit[a].entries \subseteq Seen'
  <2>1. edit[a].op = "approve" => edit[a].url \in Urls
    BY DEF McpInv, EditsAreInOrder
  <2>. QED
    BY <1>1, <1>2, <2>1 DEF Seen, EditType
<1>. HIDE DEF new
<1>5. /\ new.stage \in StagesOf(new.op) /\ IdleEdit.stage \in StagesOf(IdleEdit.op)
      /\ IdleEdit.op = "none" /\ IdleEdit \in EditType /\ IdleEdit.row.approved = {}
  BY <1>1, <1>3, McpConstants DEF StagesOf
<1>6. CASE edit' = [edit EXCEPT ![a] = new]
  BY <1>1, <1>2, <1>3, <1>4, <1>5, <1>6, ReadersMove
<1>7. CASE edit' = [edit EXCEPT ![a] = IdleEdit]
  BY <1>1, <1>5, <1>7, ReadersMove
<1>. QED
  BY <1>1, <1>6, <1>7

-------------------------------------------------------------------------------
(* What is committed.  A row that becomes another one has a revision no    *)
(* session is kept under.                                                  *)
LEMMA NewRevisionIsUnknown ==
  ASSUME McpInv, UNCHANGED <<call, kept>>, server'.rev = revisions + 1 \/ server'.rev = 0
  PROVE  SessionsAreThere'
<1>1. /\ kept.key # revisions + 1 /\ kept.key # 0 /\ revisions \in Nat
      /\ \A c \in Relays : call[c].stage = "opened" => call[c].rev # revisions + 1 /\ call[c].rev # 0
  BY DEF McpInv, RevisionsAreGivenOut, McpTypes
<1>. QED
  BY <1>1 DEF SessionsAreThere

LEMMA Recolumn ==
  ASSUME NEW was, NEW new, NEW value
  PROVE  Column(was, new, value) \in {new, value}
BY DEF Column

LEMMA RowMoved ==
  ASSUME McpInv, NEW a \in Editors, edit[a].stage \in InTransaction
  PROVE  /\ Moved(a) \in RowType /\ Moved(a).approved \subseteq Seen
         /\ edit[a].op = "create" \/ edit[a].url # edit[a].row.url => Moved(a).url = edit[a].url
         /\ edit[a].op = "update" /\ edit[a].url = edit[a].row.url => Moved(a) = server
         /\ Moved(a).url \in Urls
<1>1. /\ edit[a] \in EditType /\ server \in RowType /\ server.approved \subseteq Seen
      /\ edit[a].op \in {"create", "update"} /\ edit[a].url \in Urls
      /\ edit[a].op = "update" => server.url \in Urls
  <2>1. edit[a].op \in {"create", "update"}
    BY StageTellsOp DEF InTransaction
  <2>. QED
    BY <2>1 DEF McpInv, McpTypes, ApprovalsWereSeen, EditsAreInOrder, RowIsHeld, RevisionsAreGivenOut
<1>2. CASE edit[a].op = "create"
  <2>1. Moved(a) = [Unregistered EXCEPT !.url = edit[a].url]
    BY <1>2 DEF Moved
  <2>. QED
    BY <1>1, <1>2, <2>1, McpConstants DEF RowType, Places
<1>3. CASE edit[a].op # "create" /\ edit[a].url = edit[a].row.url
  <2>1. Moved(a) = server
    BY <1>3 DEF Moved
  <2>. QED
    BY <1>1, <1>3, <2>1
<1>4. CASE edit[a].op # "create" /\ edit[a].url # edit[a].row.url
  <2>. DEFINE tools == Column(edit[a].row.tools, server.tools, {})
              approved == Column(edit[a].row.approved, server.approved, {})
  <2>1. tools \in {server.tools, {}} /\ approved \in {server.approved, {}}
    BY Recolumn
  <2>2. Moved(a) = [server EXCEPT !.url = edit[a].url, !.tools = tools, !.approved = approved]
    BY <1>4 DEF Moved
  <2>. HIDE DEF tools, approved
  <2>3. /\ Moved(a).url = edit[a].url /\ Moved(a).approved = approved
        /\ Moved(a) \in RowType
    BY <1>1, <2>1, <2>2 DEF RowType, Places
  <2>. QED
    BY <1>1, <1>4, <2>1, <2>3
<1>. QED
  BY <1>2, <1>3, <1>4

LEMMA ChangeCommits ==
  ASSUME McpInv, NEW a \in Editors, Commit(a)
  PROVE  McpInv'
<1>1. /\ edit[a].stage = "commit" /\ edit[a].stage \in InTransaction /\ edit[a].op \in {"create", "update"}
      /\ edit[a].op \in Changes /\ edit[a] \in EditType
      /\ revisions' = revisions + 1 /\ writer' = Nobody /\ halfway' = FALSE
      /\ server' = [Moved(a) EXCEPT !.rev = revisions + 1]
      /\ grant' = IF edit[a].revokes THEN "none" ELSE grant
      /\ UNCHANGED <<upstream, relay, mishaps, call, kept, reviewed, crossed>>
  BY StageTellsOp DEF Commit, InTransaction, Changes, NewRevision, Revised, historyVars
<1>2. PICK new \in EditType :
        /\ edit' = [edit EXCEPT ![a] = new]
        /\ \/ new.op = "update" /\ new.stage = "forget" /\ new.url = edit[a].url /\ new.row = edit[a].row
           \/ new = IdleEdit
  <2>1. CASE edit[a].op = "update"
    <3>. DEFINE new == [edit[a] EXCEPT !.stage = "forget"]
    <3>1. /\ new \in EditType /\ new.op = "update" /\ new.stage = "forget" /\ new.url = edit[a].url
          /\ new.row = edit[a].row
      BY <1>1, <2>1 DEF EditType
    <3>2. edit' = [edit EXCEPT ![a] = new]
      BY <2>1 DEF Commit
    <3>. QED
      BY <3>1, <3>2
  <2>2. CASE edit[a].op # "update"
    BY <2>2, McpConstants DEF Commit, Ends
  <2>. QED
    BY <2>1, <2>2
<1>3. /\ edit'[a] = new /\ edit' \in [Editors -> EditType]
      /\ \A b \in Editors \ {a} : edit'[b] = edit[b]
  BY <1>2 DEF McpInv, McpTypes
<1>4. /\ Moved(a) \in RowType /\ Moved(a).approved \subseteq Seen /\ Moved(a).url \in Urls
      /\ edit[a].op = "create" \/ edit[a].url # edit[a].row.url => Moved(a).url = edit[a].url
      /\ edit[a].op = "update" /\ edit[a].url = edit[a].row.url => Moved(a) = server
  BY <1>1, RowMoved
<1>5. /\ server' \in RowType /\ server'.url = Moved(a).url /\ server'.rev = revisions + 1
      /\ server'.approved = Moved(a).approved /\ revisions \in Nat
      /\ server' # Unregistered
  <2>1. revisions \in Nat
    BY DEF McpInv, McpTypes
  <2>. QED
    BY <1>1, <1>4, <2>1, McpConstants DEF RowType
<1>6. /\ new.stage \in StagesOf(new.op)
      /\ new.op \in {"create", "update", "approve"} => new.url \in Urls
      /\ new.stage \notin InTransaction /\ new.row.approved \subseteq Seen
      /\ new.stage # "write" /\ new.op \in {"none", "update"} /\ (new.op = "update" => new.stage = "forget")
      /\ new.stage \notin {"route", "commit", "unupstream", "erase"}
  BY <1>1, <1>2, McpConstants DEF StagesOf, InTransaction, McpInv, EditsAreInOrder, ApprovalsWereSeen
<1>7. \A b \in Editors \ {a} : edit[b].stage \notin InTransaction
  BY <1>1 DEF McpInv, RowIsHeld
<1>8. McpTypes'
  <2>1. revisions' \in Nat
    BY <1>1, <1>5
  <2>3. grant' \in {"none", "given", "left"}
    BY <1>1 DEF McpInv, McpTypes
  <2>4. halfway' \in BOOLEAN
    <3>1. halfway' = FALSE
      BY <1>1
    <3>. QED
      BY <3>1
  <2>2. /\ mishaps' \in Nat /\ writer' \in Editors \cup {Nobody} /\ upstream' \in Places /\ relay' \in Places
        /\ call' \in [Relays -> CallType] /\ kept' \in [key : Int, url : Places] /\ crossed' \in BOOLEAN
    BY <1>1 DEF McpInv, McpTypes
  <2>. QED
    BY <1>3, <1>5, <2>1, <2>2, <2>3, <2>4 DEF McpTypes
<1>9. RevisionsAreGivenOut'
  BY <1>1, <1>4, <1>5 DEF McpInv, RevisionsAreGivenOut
<1>10. EditsAreInOrder'
  BY <1>3, <1>6 DEF McpInv, EditsAreInOrder
<1>11. RowIsHeld'
  BY <1>1, <1>3, <1>6, <1>7, McpAssumption DEF RowIsHeld
<1>12. NoInheritedGrant'
  <2>1. edit[a].op = "create" /\ ~edit[a].revokes => grant = "none"
    BY <1>1 DEF McpInv, RowIsHeld
  <2>2. edit[a].op = "update" => grant # "left"
    BY <1>1 DEF McpInv, RowIsHeld, NoInheritedGrant
  <2>. QED
    BY <1>1, <2>1, <2>2 DEF NoInheritedGrant
<1>13. ApprovalsWereSeen'
  <2>1. Seen' = Seen
    BY <1>1 DEF Seen
  <2>. QED
    BY <1>3, <1>4, <1>5, <1>6, <2>1 DEF McpInv, ApprovalsWereSeen
<1>14. ChangesAreAlone'
  <2>. SUFFICES ASSUME ~crossed PROVE ChangesAreAlone'
    BY <1>1 DEF ChangesAreAlone
  <2>1. /\ upstream = edit[a].url /\ relay = edit[a].url
        /\ edit[a].op = "update" => edit[a].row.url = server.url
    BY <1>1 DEF McpInv, ChangesAreAlone
  <2>2. server'.url = edit[a].url
    BY <1>1, <1>4, <1>5, <2>1
  <2>3. SessionsAreThere'
    BY <1>1, <1>5, NewRevisionIsUnknown
  <2>4. \A b \in Editors \ {a} : /\ edit[b].op \notin Changes
                                /\ edit[b].stage \notin {"route", "commit", "unupstream", "erase"}
    <3>1. \A b \in Editors \ {a} : edit[b].op \notin Changes
      BY <1>1, AloneAtChange
    <3>. QED
      BY <3>1, StageTellsOp DEF Changes
  <2>5. \A b, c \in Changing' : b = c
    BY <1>3, <2>4 DEF Changing
  <2>. QED
    BY <1>1, <1>3, <1>6, <2>1, <2>2, <2>3, <2>4, <2>5 DEF ChangesAreAlone, Changes
<1>. QED
  BY <1>8, <1>9, <1>10, <1>11, <1>12, <1>13, <1>14 DEF McpInv

LEMMA RowIsErased ==
  ASSUME McpInv, NEW a \in Editors, Erase(a)
  PROVE  McpInv'
<1>1. /\ edit[a].stage = "erase" /\ edit[a].op = "delete" /\ writer = Nobody
      /\ server' = Unregistered /\ halfway' = FALSE /\ edit' = [edit EXCEPT ![a] = IdleEdit]
      /\ grant' = IF edit[a].revokes THEN "none" ELSE IF grant = "given" THEN "left" ELSE grant
      /\ UNCHANGED <<revisions, writer, upstream, relay, mishaps, call, kept, reviewed, crossed>>
  BY StageTellsOp DEF Erase, Ends, historyVars
<1>2. /\ edit'[a] = IdleEdit /\ edit' \in [Editors -> EditType]
      /\ \A b \in Editors \ {a} : edit'[b] = edit[b]
  BY <1>1, McpConstants DEF McpInv, McpTypes
<1>3. McpTypes'
  BY <1>1, <1>2, McpConstants DEF McpInv, McpTypes
<1>4. RevisionsAreGivenOut'
  BY <1>1, McpConstants DEF McpInv, RevisionsAreGivenOut, McpTypes
<1>5. EditsAreInOrder' /\ NoInheritedGrant'
  BY <1>1, <1>2, McpConstants DEF McpInv, EditsAreInOrder, NoInheritedGrant, StagesOf
<1>6. RowIsHeld'
  <2>1. \A b \in Editors : edit'[b].stage \notin InTransaction
    <3>1. \A b \in Editors : edit[b].stage \notin InTransaction
      BY <1>1, McpAssumption DEF McpInv, RowIsHeld
    <3>. QED
      BY <1>2, <3>1, McpConstants DEF InTransaction
  <2>. QED
    BY <1>1, <2>1, McpAssumption DEF RowIsHeld
<1>7. ApprovalsWereSeen'
  <2>1. Seen' = Seen
    BY <1>1 DEF Seen
  <2>. QED
    BY <1>1, <1>2, <2>1, McpConstants DEF McpInv, ApprovalsWereSeen
<1>8. ChangesAreAlone'
  <2>. SUFFICES ASSUME ~crossed PROVE ChangesAreAlone'
    BY <1>1 DEF ChangesAreAlone
  <2>1. upstream = Nowhere /\ relay = Nowhere /\ server'.url = Nowhere /\ server'.rev = 0
    BY <1>1, McpConstants DEF McpInv, ChangesAreAlone
  <2>2. SessionsAreThere'
    BY <1>1, <2>1, NewRevisionIsUnknown
  <2>3. \A b \in Editors : /\ edit'[b].op \notin Changes
                          /\ edit'[b].stage \notin {"route", "commit", "unupstream", "erase"}
    <3>1. \A b \in Editors \ {a} : edit[b].op \notin Changes
      BY <1>1, AloneAtChange DEF Changes
    <3>. QED
      BY <1>2, <3>1, StageTellsOp, McpConstants DEF Changes
  <2>4. \A b, c \in Changing' : b = c
    BY <2>3 DEF Changing
  <2>. QED
    BY <1>1, <2>1, <2>2, <2>3, <2>4 DEF ChangesAreAlone, Changes
<1>. QED
  BY <1>3, <1>4, <1>5, <1>6, <1>7, <1>8 DEF McpInv

(* A listing or an approval is written into the row, or changes nothing. *)
LEMMA RowWritten ==
  ASSUME McpInv, NEW a \in Editors, Write(a)
  PROVE  McpInv'
<1>1. /\ edit[a].stage = "write" /\ edit[a].op \in {"refresh", "approve"} /\ writer = Nobody
      /\ edit' = [edit EXCEPT ![a] = IdleEdit] /\ edit[a] \in EditType
      /\ UNCHANGED <<writer, upstream, relay, halfway, mishaps, grant, call, kept, reviewed, crossed>>
  BY StageTellsOp DEF Write, Ends, gatewayVars, historyVars
<1>. DEFINE was == edit[a].row
            refresh == edit[a].op = "refresh"
            tools == IF refresh THEN edit[a].entries ELSE was.tools
            approved == IF refresh THEN StillApproved(was, tools) ELSE edit[a].entries
            listed == Column(was.tools, server.tools, tools)
            granted == Column(was.approved, server.approved, approved)
<1>2. CASE UNCHANGED <<server, revisions>>
  <2>1. IdleEdit.stage \in StagesOf(IdleEdit.op) /\ IdleEdit.op = "none" /\ IdleEdit.row.approved = {}
    BY McpConstants DEF StagesOf
  <2>. QED
    BY <1>1, <1>2, <2>1, McpConstants, ReadersMove
<1>3. CASE /\ server # Unregistered /\ revisions' = revisions + 1
           /\ server' = [server EXCEPT !.tools = listed, !.approved = granted, !.rev = revisions + 1]
  <2>1. /\ was \in RowType /\ was.approved \subseteq Seen /\ server \in RowType /\ server.approved \subseteq Seen
        /\ edit[a].entries \in SUBSET Tools /\ revisions \in Nat
        /\ ~refresh => edit[a].entries \subseteq Seen
    BY <1>1 DEF McpInv, McpTypes, ApprovalsWereSeen, EditType
  <2>2. tools \in SUBSET Tools /\ approved \in SUBSET Tools /\ approved \subseteq Seen
    BY <2>1 DEF RowType, StillApproved, Seen
  <2>3. listed \in {server.tools, tools} /\ granted \in {server.approved, approved}
    BY Recolumn
  <2>4. listed \in SUBSET Tools /\ granted \in SUBSET Tools /\ granted \subseteq Seen
    BY <2>1, <2>2, <2>3 DEF RowType
  <2>. HIDE DEF listed, granted, tools, approved, was, refresh
  <2>5. /\ server' \in RowType /\ server'.url = server.url /\ server'.rev = revisions + 1
        /\ server'.approved = granted /\ server' # Unregistered
    <3>1. revisions + 1 \in Nat \ {0}
      BY <2>1
    <3>2. /\ server' \in RowType /\ server'.url = server.url /\ server'.rev = revisions + 1
          /\ server'.approved = granted
      BY <1>3, <2>1, <2>4, <3>1 DEF RowType
    <3>. QED
      BY <3>1, <3>2, McpConstants
  <2>6. /\ edit'[a] = IdleEdit /\ edit' \in [Editors -> EditType]
        /\ \A b \in Editors \ {a} : edit'[b] = edit[b]
    BY <1>1, McpConstants DEF McpInv, McpTypes
  <2>7. \A b \in Editors : edit[b].stage \notin InTransaction /\ edit'[b].stage \notin InTransaction
    <3>1. \A b \in Editors : edit[b].stage \notin InTransaction
      BY <1>1, McpAssumption DEF McpInv, RowIsHeld
    <3>. QED
      BY <2>6, <3>1, McpConstants DEF InTransaction
  <2>8. McpTypes'
    BY <1>1, <1>3, <2>1, <2>5, <2>6 DEF McpInv, McpTypes
  <2>9. RevisionsAreGivenOut'
    BY <1>1, <1>3, <2>1, <2>5 DEF McpInv, RevisionsAreGivenOut
  <2>10. EditsAreInOrder' /\ NoInheritedGrant'
    BY <1>1, <1>3, <2>6, McpConstants DEF McpInv, EditsAreInOrder, NoInheritedGrant, StagesOf
  <2>11. RowIsHeld'
    BY <1>1, <2>7, McpAssumption DEF RowIsHeld
  <2>12. ApprovalsWereSeen'
    <3>1. Seen' = Seen
      BY <1>1 DEF Seen
    <3>. QED
      BY <2>4, <2>5, <2>6, <3>1, McpConstants DEF McpInv, ApprovalsWereSeen
  <2>13. ChangesAreAlone'
    <3>1. SessionsAreThere'
      BY <1>1, <2>5, NewRevisionIsUnknown
    <3>2. Changing' = Changing
      BY <1>1, <2>6, McpConstants DEF Changing, Changes
    <3>3. /\ edit[a].op # "update" /\ IdleEdit.op # "update"
          /\ edit[a].stage \notin {"route", "commit", "unupstream", "erase"}
          /\ IdleEdit.stage \notin {"route", "commit", "unupstream", "erase"}
      BY <1>1, McpConstants
    <3>. QED
      BY <1>1, <2>5, <2>6, <3>1, <3>2, <3>3 DEF McpInv, ChangesAreAlone
  <2>. QED
    BY <2>8, <2>9, <2>10, <2>11, <2>12, <2>13 DEF McpInv
<1>4. Revised([server EXCEPT !.tools = listed, !.approved = granted])
        = [server EXCEPT !.tools = listed, !.approved = granted, !.rev = revisions + 1]
  <2>. HIDE DEF listed, granted
  <2>1. server \in RowType
    BY DEF McpInv, McpTypes
  <2>. QED
    BY <2>1 DEF Revised, RowType
<1>. QED
  BY <1>2, <1>3, <1>4 DEF Write, NewRevision

LEMMA KeyGranted ==
  ASSUME McpInv, Grant
  PROVE  McpInv'
<1>1. /\ server # Unregistered /\ grant' = "given"
      /\ UNCHANGED <<server, revisions, writer, upstream, relay, halfway, mishaps, edit, call, kept, reviewed, crossed>>
  BY DEF Grant, gatewayVars, historyVars
<1>2. McpTypes'
  BY <1>1 DEF McpInv, McpTypes
<1>3. RevisionsAreGivenOut' /\ EditsAreInOrder' /\ NoInheritedGrant'
  BY <1>1 DEF McpInv, RevisionsAreGivenOut, EditsAreInOrder, NoInheritedGrant
<1>4. RowIsHeld'
  BY <1>1 DEF McpInv, RowIsHeld
<1>5. ApprovalsWereSeen'
  BY <1>1 DEF McpInv, ApprovalsWereSeen, Seen
<1>6. ChangesAreAlone'
  <2>1. Changing' = Changing /\ (SessionsAreThere' <=> SessionsAreThere)
    BY <1>1 DEF Changing, SessionsAreThere
  <2>. QED
    BY <1>1, <2>1 DEF McpInv, ChangesAreAlone
<1>. QED
  BY <1>2, <1>3, <1>4, <1>5, <1>6 DEF McpInv

LEMMA McpBooted ==
  ASSUME McpInv, McpBoot
  PROVE  McpInv'
<1>1. /\ mishaps' = mishaps + 1 /\ writer' = Nobody /\ kept' = NoSession
      /\ edit' = [a \in Editors |-> IdleEdit] /\ call' = [c \in Relays |-> IdleCall]
      /\ upstream' \in {upstream, server.url} /\ relay' \in {relay, server.url}
      /\ halfway' = (upstream' # server.url \/ relay' # server.url)
      /\ crossed' = FALSE /\ UNCHANGED <<server, revisions, grant, reviewed>>
  BY DEF McpBoot, Mishap
<1>2. /\ edit' \in [Editors -> EditType] /\ call' \in [Relays -> CallType]
      /\ \A a \in Editors : edit'[a] = IdleEdit
      /\ \A c \in Relays : call'[c] = IdleCall
  BY <1>1, McpConstants
<1>3. McpTypes'
  <2>1. mishaps' \in Nat
    BY <1>1 DEF McpInv, McpTypes
  <2>3. upstream' \in Places /\ relay' \in Places
    <3>1. server.url \in Places /\ upstream \in Places /\ relay \in Places
      BY DEF McpInv, McpTypes, RowType
    <3>. QED
      BY <1>1, <3>1
  <2>4. halfway' \in BOOLEAN /\ crossed' \in BOOLEAN
    <3>1. crossed' = FALSE
      BY <1>1
    <3>2. halfway' \in BOOLEAN
      BY <1>1
    <3>. QED
      BY <3>1, <3>2
  <2>2. /\ server' \in RowType /\ revisions' \in Nat /\ writer' \in Editors \cup {Nobody}
        /\ grant' \in {"none", "given", "left"} /\ kept' \in [key : Int, url : Places]
    BY <1>1, McpConstants DEF McpInv, McpTypes
  <2>. QED
    BY <1>2, <2>1, <2>2, <2>3, <2>4 DEF McpTypes
<1>4. RevisionsAreGivenOut' /\ NoInheritedGrant'
  BY <1>1, <1>2, McpConstants DEF McpInv, RevisionsAreGivenOut, NoInheritedGrant
<1>5. EditsAreInOrder' /\ RowIsHeld'
  BY <1>1, <1>2, McpConstants, McpAssumption DEF EditsAreInOrder, RowIsHeld, StagesOf, InTransaction
<1>6. ApprovalsWereSeen'
  BY <1>1, <1>2, McpConstants DEF McpInv, ApprovalsWereSeen, Seen
<1>7. ChangesAreAlone'
  <2>1. SessionsAreThere'
    <3>1. server'.rev # -1
      BY <1>1 DEF McpInv, McpTypes, RowType
    <3>. QED
      BY <1>1, <1>2, <3>1, McpConstants DEF SessionsAreThere
  <2>2. Changing' = {}
    BY <1>2, McpConstants DEF Changing, Changes
  <2>. QED
    BY <1>1, <1>2, <2>1, <2>2, McpConstants DEF ChangesAreAlone
<1>. QED
  BY <1>3, <1>4, <1>5, <1>6, <1>7 DEF McpInv

(* What a registration leaves behind or finds is never taken over unseen:  *)
(* after changes that did not overlap the gateway and the sessions lead    *)
(* where the row says, a server registered again inherits no grant, and    *)
(* every offered tool was seen and approved (routers/mcp.py).              *)
THEOREM NothingStaysUnseen == McpSpec => []NothingUnseen
<1>1. McpInit => McpInv
  BY McpInvInit
<1>2. McpInv /\ [McpNext]_mcpVars => McpInv'
  <2>. SUFFICES ASSUME McpInv, [McpNext]_mcpVars PROVE McpInv'
    OBVIOUS
  <2>1. CASE UNCHANGED mcpVars
    <3>1. /\ UNCHANGED <<server, revisions, writer, upstream, relay, halfway, mishaps, grant, edit, reviewed, crossed>>
          /\ UNCHANGED <<call, kept>>
      BY <2>1 DEF mcpVars
    <3>2. RevisionsAreGivenOut' /\ (SessionsAreThere => SessionsAreThere')
      BY <3>1 DEF McpInv, RevisionsAreGivenOut, SessionsAreThere
    <3>. QED
      BY <3>1, <3>2, CallsMove DEF McpInv, McpTypes
  <2>2. ASSUME NEW a \in Editors, NEW url \in Urls, NEW op \in {"create", "update"}, Begin(a, op, url)
        PROVE  McpInv'
    BY <2>2, ChangeBegins DEF Changes, Places
  <2>3. ASSUME NEW a \in Editors, Begin(a, "delete", Nowhere)
        PROVE  McpInv'
    BY <2>3, ChangeBegins DEF Changes, Places
  <2>4. ASSUME NEW a \in Editors,
               \/ Flush(a) \/ WritesUpstream(a) \/ WritesRoute(a) \/ RollsBack(a) \/ Commit(a) \/ Forget(a)
               \/ Unroute(a) \/ Unupstream(a) \/ DeleteFails(a) \/ Erase(a)
               \/ \E l \in Listings : List(a, l)
               \/ \E wanted \in SUBSET server.tools : Look(a, wanted)
               \/ Reread(a) \/ Approve(a) \/ Write(a)
        PROVE  McpInv'
    BY <2>4, RowFlushed, GatewayWritten, ChangeGivenUp, ChangeCommits, RowIsErased, ToolsListed, PageLoaded,
       RowReread, RowWritten
  <2>5. CASE \E c \in Relays : Call(c) \/ Open(c) \/ Store(c) \/ Answer(c) \/ Expired(c)
    BY <2>5, OneCalls
  <2>6. CASE Drop \/ Grant \/ McpBoot
    BY <2>6, SessionDropped, KeyGranted, McpBooted
  <2>. QED
    BY <2>1, <2>2, <2>3, <2>4, <2>5, <2>6 DEF McpNext
<1>3. McpInv => NothingUnseen
  BY McpHolds
<1>. QED
  BY <1>1, <1>2, <1>3, PTL DEF McpSpec

(***************************************************************************)
(* What bounds the queries of a user.                                      *)
(***************************************************************************)
AskType == [stage : {"free", "auth", "checks", "running"}, user : Users \cup {"-"},
            route : {"execute", "template", "catalog", "-"}, stamp : Times \cup {Unstamped}]

(* Only a key is stamped before it is known to be one. *)
IsAsk(a) == (a.stage # "free" => a.user \in Users) /\ (a.stamp # Unstamped => a.user \in KeyUsers)

LimitTypes ==
  /\ now \in Times
  /\ requests \in [Users -> [Times -> Nat]] /\ counted \in [Users -> [Times -> Nat]]
  /\ concurrent \in [Users -> Nat]
  /\ ask \in [Asks -> AskType] /\ \A r \in Asks : IsAsk(ask[r])

(* Who may still have its stamp taken back, and who holds a slot. *)
Pending(asks, u, t) == {r \in Asks : asks[r].stage = "auth" /\ asks[r].user = u /\ asks[r].stamp = t}
Running(asks, u) == {r \in Asks : asks[r].stage = "running" /\ asks[r].user = u}
InWindow(t) == t \in Times /\ t > now - Window

WindowAdds == \A u \in Users, t \in Times : InWindow(t) => requests[u][t] = counted[u][t] + Cardinality(Pending(ask, u, t))
SlotsAdd == \A u \in Users : concurrent[u] = Cardinality(Running(ask, u))

(* Of sets that may differ in one element only. *)
LEMMA OneDiffers ==
  ASSUME NEW A \in SUBSET Asks, NEW B \in SUBSET Asks, NEW r \in Asks,
         \A x \in Asks : x # r => (x \in A <=> x \in B)
  PROVE  /\ Cardinality(A) \in Nat /\ Cardinality(B) \in Nat
         /\ (r \in A <=> r \in B) => Cardinality(B) = Cardinality(A)
         /\ r \in B /\ r \notin A => Cardinality(B) = Cardinality(A) + 1
         /\ r \in A /\ r \notin B => Cardinality(B) = Cardinality(A) - 1
<1>1. IsFiniteSet(A) /\ IsFiniteSet(B) BY LimitsAssumption, FS_Subset
<1>2. Cardinality(A) \in Nat /\ Cardinality(B) \in Nat BY <1>1, FS_CardinalityType
<1>3. (r \in A <=> r \in B) => A = B OBVIOUS
<1>4. r \in B /\ r \notin A => B = A \cup {r} OBVIOUS
<1>5. r \in A /\ r \notin B => B = A \ {r} OBVIOUS
<1>6. r \notin A => Cardinality(A \cup {r}) = Cardinality(A) + 1 BY <1>1, FS_AddElement
<1>7. r \in A => Cardinality(A \ {r}) = Cardinality(A) - 1 BY <1>1, FS_RemoveElement
<1> QED BY <1>2, <1>3, <1>4, <1>5, <1>6, <1>7

(* One request moves: what it counts for after the step. *)
LEMMA OneMoves ==
  ASSUME LimitTypes, NEW r \in Asks, NEW new \in AskType, ask' = [ask EXCEPT ![r] = new],
         NEW u \in Users
  PROVE  /\ \A t \in Times :
              LET was == ask[r].stage = "auth" /\ ask[r].user = u /\ ask[r].stamp = t
                  is == new.stage = "auth" /\ new.user = u /\ new.stamp = t
                  A == Cardinality(Pending(ask, u, t))
                  B == Cardinality(Pending(ask', u, t))
              IN  /\ A \in Nat /\ B \in Nat
                  /\ (was <=> is) => B = A
                  /\ is /\ ~was => B = A + 1
                  /\ was /\ ~is => B = A - 1
         /\ LET was == ask[r].stage = "running" /\ ask[r].user = u
                is == new.stage = "running" /\ new.user = u
                A == Cardinality(Running(ask, u))
                B == Cardinality(Running(ask', u))
            IN  /\ A \in Nat /\ B \in Nat
                /\ (was <=> is) => B = A
                /\ is /\ ~was => B = A + 1
                /\ was /\ ~is => B = A - 1
<1>0. ask \in [Asks -> AskType] BY DEF LimitTypes
<1>1. ask'[r] = new /\ \A x \in Asks : x # r => ask'[x] = ask[x] BY <1>0
<1>2. ASSUME NEW t \in Times
      PROVE LET was == ask[r].stage = "auth" /\ ask[r].user = u /\ ask[r].stamp = t
                is == new.stage = "auth" /\ new.user = u /\ new.stamp = t
                A == Cardinality(Pending(ask, u, t))
                B == Cardinality(Pending(ask', u, t))
            IN  /\ A \in Nat /\ B \in Nat
                /\ (was <=> is) => B = A
                /\ is /\ ~was => B = A + 1
                /\ was /\ ~is => B = A - 1
  <2> DEFINE A == Pending(ask, u, t)  B == Pending(ask', u, t)
  <2>1. A \in SUBSET Asks /\ B \in SUBSET Asks BY DEF Pending
  <2>2. \A x \in Asks : x # r => (x \in A <=> x \in B) BY <1>1 DEF Pending
  <2>3. (r \in A <=> (ask[r].stage = "auth" /\ ask[r].user = u /\ ask[r].stamp = t))
        /\ (r \in B <=> (new.stage = "auth" /\ new.user = u /\ new.stamp = t)) BY <1>1 DEF Pending
  <2> HIDE DEF A, B
  <2>4. QED BY <2>1, <2>2, <2>3, OneDiffers DEF A, B
<1>3. LET was == ask[r].stage = "running" /\ ask[r].user = u
          is == new.stage = "running" /\ new.user = u
          A == Cardinality(Running(ask, u))
          B == Cardinality(Running(ask', u))
      IN  /\ A \in Nat /\ B \in Nat
          /\ (was <=> is) => B = A
          /\ is /\ ~was => B = A + 1
          /\ was /\ ~is => B = A - 1
  <2> DEFINE A == Running(ask, u)  B == Running(ask', u)
  <2>1. A \in SUBSET Asks /\ B \in SUBSET Asks BY DEF Running
  <2>2. \A x \in Asks : x # r => (x \in A <=> x \in B) BY <1>1 DEF Running
  <2>3. (r \in A <=> (ask[r].stage = "running" /\ ask[r].user = u))
        /\ (r \in B <=> (new.stage = "running" /\ new.user = u)) BY <1>1 DEF Running
  <2> HIDE DEF A, B
  <2>4. QED BY <2>1, <2>2, <2>3, OneDiffers DEF A, B
<1> QED BY <1>2, <1>3

LEMMA CheckedFacts ==
  ASSUME LimitTypes, NEW r, NEW u \in Users, NEW next, Checked(r, u, next)
  PROVE  /\ requests' \in [Users -> [Times -> Nat]]
         /\ \/ /\ ask' = [ask EXCEPT ![r] = Quiet]
               /\ \A v \in Users, t \in Times : InWindow(t) => requests'[v][t] = requests[v][t]
            \/ /\ ask' = [ask EXCEPT ![r] = next]
               /\ \A v \in Users, t \in Times : InWindow(t) =>
                    requests'[v][t] = requests[v][t] + (IF v = u /\ t = now THEN 1 ELSE 0)
<1> DEFINE recent == Recent(requests[u])
<1>0. requests \in [Users -> [Times -> Nat]] /\ now \in Times BY DEF LimitTypes
<1>1. recent \in [Times -> Nat] /\ \A t \in Times : InWindow(t) => recent[t] = requests[u][t]
  BY <1>0 DEF Recent, InWindow
<1>2. InWindow(now) BY <1>0, LimitsAssumption DEF InWindow, Times
<1>3. \/ requests' = [requests EXCEPT ![u] = recent] /\ ask' = [ask EXCEPT ![r] = Quiet]
      \/ requests' = [requests EXCEPT ![u] = Stamped(recent)] /\ ask' = [ask EXCEPT ![r] = next]
  BY DEF Checked
<1> HIDE DEF recent
<1>4. CASE requests' = [requests EXCEPT ![u] = recent] /\ ask' = [ask EXCEPT ![r] = Quiet]
  BY <1>0, <1>1, <1>4
<1>5. CASE requests' = [requests EXCEPT ![u] = Stamped(recent)] /\ ask' = [ask EXCEPT ![r] = next]
  <2> DEFINE more == Stamped(recent)
  <2>1. more \in [Times -> Nat] /\ \A t \in Times : more[t] = recent[t] + (IF t = now THEN 1 ELSE 0)
    BY <1>0, <1>1 DEF Stamped
  <2> HIDE DEF more
  <2>2. requests' = [requests EXCEPT ![u] = more] BY <1>5 DEF more
  <2>3. requests' \in [Users -> [Times -> Nat]] BY <1>0, <2>1, <2>2
  <2>4. ASSUME NEW v \in Users, NEW t \in Times, InWindow(t)
        PROVE  requests'[v][t] = requests[v][t] + (IF v = u /\ t = now THEN 1 ELSE 0)
    <3>1. requests'[v] = IF v = u THEN more ELSE requests[v] BY <1>0, <2>2
    <3>2. requests[v][t] \in Nat BY <1>0
    <3>3. recent[t] = requests[u][t] BY <1>1, <2>4
    <3> QED BY <2>1, <3>1, <3>2, <3>3
  <2> QED BY <1>5, <2>3, <2>4
<1> QED BY <1>3, <1>4, <1>5

(* The requests of users, whatever the limits are. *)
AskInv == LimitTypes /\ WindowAdds /\ SlotsAdd

Holds(a, u, t) == a.stage = "auth" /\ a.user = u /\ a.stamp = t
Runs(a, u) == a.stage = "running" /\ a.user = u
One(condition) == IF condition THEN 1 ELSE 0

LEMMA Balance ==
  ASSUME NEW a \in Int, NEW b \in Int, NEW c \in Int, NEW d \in Int, NEW A \in Int, NEW B \in Int,
         NEW i \in Int, NEW w \in Int, B = A + (i - w), a = c + A, b - a = (d - c) + (i - w)
  PROVE  b = d + B
OBVIOUS

(* A request moves, and the counts move with it. *)
LEMMA CountsFollow ==
  ASSUME AskInv, NEW r \in Asks, NEW new \in AskType, IsAsk(new),
         ask' = [ask EXCEPT ![r] = new], now' = now,
         requests' \in [Users -> [Times -> Nat]], counted' \in [Users -> [Times -> Nat]],
         concurrent' \in [Users -> Nat],
         \A u \in Users, t \in Times : InWindow(t) =>
           requests'[u][t] - requests[u][t]
             = (counted'[u][t] - counted[u][t]) + (One(Holds(new, u, t)) - One(Holds(ask[r], u, t))),
         \A u \in Users : concurrent'[u] - concurrent[u] = One(Runs(new, u)) - One(Runs(ask[r], u))
  PROVE  AskInv'
<1>0. /\ ask \in [Asks -> AskType] /\ now \in Times /\ counted \in [Users -> [Times -> Nat]]
      /\ concurrent \in [Users -> Nat] /\ requests \in [Users -> [Times -> Nat]]
      /\ LimitTypes /\ WindowAdds /\ SlotsAdd /\ \A q \in Asks : IsAsk(ask[q])
  BY DEF AskInv, LimitTypes
<1>1. LimitTypes' BY <1>0 DEF LimitTypes
<1>2. ASSUME NEW u \in Users, NEW t \in Times, InWindow(t)
      PROVE  requests'[u][t] = counted'[u][t] + Cardinality(Pending(ask', u, t))
  <2> DEFINE A == Cardinality(Pending(ask, u, t))  B == Cardinality(Pending(ask', u, t))
  <2>1. A \in Nat /\ B \in Nat /\ B = A + (One(Holds(new, u, t)) - One(Holds(ask[r], u, t)))
    <3>1. /\ A \in Nat /\ B \in Nat
          /\ (Holds(ask[r], u, t) <=> Holds(new, u, t)) => B = A
          /\ Holds(new, u, t) /\ ~Holds(ask[r], u, t) => B = A + 1
          /\ Holds(ask[r], u, t) /\ ~Holds(new, u, t) => B = A - 1
      BY <1>0, OneMoves DEF Holds
    <3> QED BY <3>1 DEF One
  <2>2. requests[u][t] = counted[u][t] + A BY <1>0, <1>2 DEF WindowAdds
  <2>3. requests'[u][t] - requests[u][t]
         = (counted'[u][t] - counted[u][t]) + (One(Holds(new, u, t)) - One(Holds(ask[r], u, t)))
    BY <1>2
  <2> DEFINE a == requests[u][t]  b == requests'[u][t]  c == counted[u][t]  d == counted'[u][t]
             i == One(Holds(new, u, t))  w == One(Holds(ask[r], u, t))
  <2>4. a \in Int /\ b \in Int /\ c \in Int /\ d \in Int /\ i \in Int /\ w \in Int BY <1>0 DEF One
  <2>5. A \in Int /\ B \in Int /\ B = A + (i - w) /\ a = c + A /\ b - a = (d - c) + (i - w)
    BY <2>1, <2>2, <2>3
  <2> HIDE DEF A, B, a, b, c, d, i, w
  <2>6. b = d + B BY <2>4, <2>5, Balance
  <2> QED BY <2>6 DEF b, d, B
<1>3. ASSUME NEW u \in Users PROVE concurrent'[u] = Cardinality(Running(ask', u))
  <2> DEFINE A == Cardinality(Running(ask, u))  B == Cardinality(Running(ask', u))
  <2>1. A \in Nat /\ B \in Nat /\ B = A + (One(Runs(new, u)) - One(Runs(ask[r], u)))
    <3>1. /\ A \in Nat /\ B \in Nat
          /\ (Runs(ask[r], u) <=> Runs(new, u)) => B = A
          /\ Runs(new, u) /\ ~Runs(ask[r], u) => B = A + 1
          /\ Runs(ask[r], u) /\ ~Runs(new, u) => B = A - 1
      BY <1>0, OneMoves DEF Runs
    <3> QED BY <3>1 DEF One
  <2>2. concurrent[u] = A BY <1>0 DEF SlotsAdd
  <2>3. concurrent'[u] - concurrent[u] = One(Runs(new, u)) - One(Runs(ask[r], u)) OBVIOUS
  <2>4. concurrent'[u] \in Nat /\ concurrent[u] \in Nat
        /\ One(Runs(new, u)) \in Nat /\ One(Runs(ask[r], u)) \in Nat
    BY <1>0 DEF One
  <2> HIDE DEF A, B
  <2>5. concurrent'[u] = B BY <2>1, <2>2, <2>3, <2>4
  <2> QED BY <2>5 DEF B
<1>4. WindowAdds' BY <1>0, <1>2 DEF WindowAdds, InWindow
<1>5. SlotsAdd' BY <1>3 DEF SlotsAdd
<1> QED BY <1>1, <1>4, <1>5 DEF AskInv

LEMMA Arrives ==
  ASSUME AskInv, NEW r \in Asks, NEW u \in Users, NEW route \in {"execute", "template", "catalog"}, Arrive(r, u, route)
  PROVE  AskInv'
<1> DEFINE next == [stage |-> "auth", user |-> u, route |-> route, stamp |-> Unstamped]
           stamped == [next EXCEPT !.stamp = now]
<1>0. /\ ask \in [Asks -> AskType] /\ now \in Times /\ counted \in [Users -> [Times -> Nat]]
      /\ concurrent \in [Users -> Nat] /\ requests \in [Users -> [Times -> Nat]]
      /\ LimitTypes /\ ask[r].stage = "free"
      /\ counted' = counted /\ concurrent' = concurrent /\ now' = now
  BY DEF AskInv, LimitTypes, Arrive
<1>1. \A v \in Users : One(Runs(ask[r], v)) = 0 /\ \A t \in Times : One(Holds(ask[r], v, t)) = 0
  BY <1>0 DEF One, Holds, Runs
<1>2. ASSUME u \in KeyUsers, Checked(r, u, stamped) PROVE AskInv'
  <2>1. stamped \in AskType /\ IsAsk(stamped) /\ Quiet \in AskType /\ IsAsk(Quiet)
    BY <1>0, <1>2 DEF AskType, IsAsk, Quiet
  <2>2. \A v \in Users :
          /\ One(Runs(stamped, v)) = 0 /\ One(Runs(Quiet, v)) = 0
          /\ \A t \in Times :
               /\ One(Holds(stamped, v, t)) = (IF v = u /\ t = now THEN 1 ELSE 0)
               /\ One(Holds(Quiet, v, t)) = 0
    BY DEF One, Holds, Runs, Quiet
  <2> HIDE DEF stamped
  <2>3. /\ requests' \in [Users -> [Times -> Nat]]
        /\ \/ /\ ask' = [ask EXCEPT ![r] = Quiet]
              /\ \A v \in Users, t \in Times : InWindow(t) => requests'[v][t] = requests[v][t]
           \/ /\ ask' = [ask EXCEPT ![r] = stamped]
              /\ \A v \in Users, t \in Times : InWindow(t) =>
                   requests'[v][t] = requests[v][t] + (IF v = u /\ t = now THEN 1 ELSE 0)
    BY <1>0, <1>2, CheckedFacts
  <2>4. CASE ask' = [ask EXCEPT ![r] = Quiet]
             /\ \A v \in Users, t \in Times : InWindow(t) => requests'[v][t] = requests[v][t]
    <3>1. \A v \in Users, t \in Times : InWindow(t) =>
            requests'[v][t] - requests[v][t]
              = (counted'[v][t] - counted[v][t]) + (One(Holds(Quiet, v, t)) - One(Holds(ask[r], v, t)))
      BY <1>0, <1>1, <2>2, <2>3, <2>4
    <3>2. \A v \in Users : concurrent'[v] - concurrent[v] = One(Runs(Quiet, v)) - One(Runs(ask[r], v))
      BY <1>0, <1>1, <2>2
    <3> QED BY <1>0, <2>1, <2>3, <2>4, <3>1, <3>2, CountsFollow
  <2>5. CASE /\ ask' = [ask EXCEPT ![r] = stamped]
             /\ \A v \in Users, t \in Times : InWindow(t) =>
                   requests'[v][t] = requests[v][t] + (IF v = u /\ t = now THEN 1 ELSE 0)
    <3>1. \A v \in Users, t \in Times : InWindow(t) =>
            requests'[v][t] - requests[v][t]
              = (counted'[v][t] - counted[v][t]) + (One(Holds(stamped, v, t)) - One(Holds(ask[r], v, t)))
      <4> TAKE v \in Users, t \in Times
      <4> HAVE InWindow(t)
      <4> DEFINE i == IF v = u /\ t = now THEN 1 ELSE 0
      <4>1. requests[v][t] \in Nat /\ counted[v][t] \in Nat /\ i \in Nat BY <1>0
      <4>2. requests'[v][t] = requests[v][t] + i BY <2>5
      <4>3. One(Holds(ask[r], v, t)) = 0 BY <1>1
      <4>4. counted'[v][t] = counted[v][t] /\ One(Holds(stamped, v, t)) = i BY <1>0, <2>2
      <4> HIDE DEF i
      <4> QED BY <4>1, <4>2, <4>3, <4>4
    <3>2. \A v \in Users : concurrent'[v] - concurrent[v] = One(Runs(stamped, v)) - One(Runs(ask[r], v))
      BY <1>0, <1>1, <2>2
    <3> QED BY <1>0, <2>1, <2>3, <2>5, <3>1, <3>2, CountsFollow
  <2> QED BY <2>3, <2>4, <2>5
<1>3. ASSUME ask' = [ask EXCEPT ![r] = next], requests' = requests PROVE AskInv'
  <2>1. next \in AskType /\ IsAsk(next) BY DEF AskType, IsAsk
  <2>2. \A v \in Users : One(Runs(next, v)) = 0 /\ \A t \in Times : One(Holds(next, v, t)) = 0
    BY DEF One, Holds, Runs, Unstamped, Times
  <2> HIDE DEF next
  <2>3. \A v \in Users, t \in Times : InWindow(t) =>
          requests'[v][t] - requests[v][t]
            = (counted'[v][t] - counted[v][t]) + (One(Holds(next, v, t)) - One(Holds(ask[r], v, t)))
    BY <1>0, <1>1, <1>3, <2>2
  <2>4. \A v \in Users : concurrent'[v] - concurrent[v] = One(Runs(next, v)) - One(Runs(ask[r], v))
    BY <1>0, <1>1, <2>2
  <2> QED BY <1>0, <1>3, <2>1, <2>3, <2>4, CountsFollow
<1> QED BY <1>2, <1>3 DEF Arrive

LEMMA Authenticates == ASSUME AskInv, NEW r \in Asks, Authenticated(r) PROVE AskInv'
<1> DEFINE u == ask[r].user  next == [Quiet EXCEPT !.stage = "checks", !.user = u]
<1>0. /\ ask \in [Asks -> AskType] /\ u \in Users /\ ask[r].stage = "auth" /\ now \in Times
      /\ concurrent' = concurrent /\ now' = now /\ counted \in [Users -> [Times -> Nat]]
      /\ concurrent \in [Users -> Nat] /\ requests \in [Users -> [Times -> Nat]]
      /\ LimitTypes /\ (u \in WebUsers => ask[r].stamp = Unstamped)
      /\ ask[r].stamp \in Times \cup {Unstamped}
  BY LimitsAssumption DEF AskInv, LimitTypes, Authenticated, IsAsk, AskType
<1>1. next \in AskType /\ IsAsk(next) /\ next # Quiet /\ Quiet \in AskType /\ IsAsk(Quiet)
  BY <1>0 DEF AskType, Quiet, IsAsk
<1>2. \A v \in Users :
        /\ One(Runs(next, v)) = 0 /\ One(Runs(Quiet, v)) = 0 /\ One(Runs(ask[r], v)) = 0
        /\ \A t \in Times :
             /\ One(Holds(next, v, t)) = 0 /\ One(Holds(Quiet, v, t)) = 0
             /\ One(Holds(ask[r], v, t)) = (IF v = u /\ t = ask[r].stamp THEN 1 ELSE 0)
  BY <1>0 DEF One, Holds, Runs, Quiet
<1>3. ASSUME NEW s \in Times
      PROVE  /\ Passed(u, s) \in [Users -> [Times -> Nat]]
             /\ \A v \in Users, t \in Times :
                  Passed(u, s)[v][t] = counted[v][t] + (IF v = u /\ t = s THEN 1 ELSE 0)
  <2> DEFINE more == [counted[u] EXCEPT ![s] = @ + 1]
  <2>1. more \in [Times -> Nat] /\ \A t \in Times : more[t] = counted[u][t] + (IF t = s THEN 1 ELSE 0)
    BY <1>0
  <2>2. Passed(u, s) = [counted EXCEPT ![u] = more] BY <1>0 DEF Passed
  <2> HIDE DEF more
  <2>3. ASSUME NEW v \in Users, NEW t \in Times
        PROVE  Passed(u, s)[v][t] = counted[v][t] + (IF v = u /\ t = s THEN 1 ELSE 0)
    <3>1. Passed(u, s)[v] = IF v = u THEN more ELSE counted[v] BY <1>0, <2>2
    <3>2. counted[v][t] \in Nat BY <1>0
    <3> QED BY <2>1, <3>1, <3>2
  <2> QED BY <1>0, <2>1, <2>2, <2>3
<1> HIDE DEF next
<1>4. ASSUME u \in WebUsers, Checked(r, u, next), counted' = IF ask'[r] = next THEN Passed(u, now) ELSE counted
      PROVE  AskInv'
  <2>0. \A v \in Users, t \in Times : One(Holds(ask[r], v, t)) = 0
    BY <1>0, <1>2, <1>4 DEF Unstamped, Times
  <2>3. /\ requests' \in [Users -> [Times -> Nat]]
        /\ \/ /\ ask' = [ask EXCEPT ![r] = Quiet]
              /\ \A v \in Users, t \in Times : InWindow(t) => requests'[v][t] = requests[v][t]
           \/ /\ ask' = [ask EXCEPT ![r] = next]
              /\ \A v \in Users, t \in Times : InWindow(t) =>
                   requests'[v][t] = requests[v][t] + (IF v = u /\ t = now THEN 1 ELSE 0)
    BY <1>0, <1>4, CheckedFacts
  <2>4. CASE ask' = [ask EXCEPT ![r] = Quiet]
             /\ \A v \in Users, t \in Times : InWindow(t) => requests'[v][t] = requests[v][t]
    <3>1. counted' = counted BY <1>0, <1>1, <1>4, <2>4
    <3>2. \A v \in Users, t \in Times : InWindow(t) =>
            requests'[v][t] - requests[v][t]
              = (counted'[v][t] - counted[v][t]) + (One(Holds(Quiet, v, t)) - One(Holds(ask[r], v, t)))
      BY <1>0, <1>2, <2>0, <2>4, <3>1
    <3>3. \A v \in Users : concurrent'[v] - concurrent[v] = One(Runs(Quiet, v)) - One(Runs(ask[r], v))
      BY <1>0, <1>2
    <3> QED BY <1>0, <1>1, <2>3, <2>4, <3>1, <3>2, <3>3, CountsFollow
  <2>5. CASE /\ ask' = [ask EXCEPT ![r] = next]
             /\ \A v \in Users, t \in Times : InWindow(t) =>
                   requests'[v][t] = requests[v][t] + (IF v = u /\ t = now THEN 1 ELSE 0)
    <3>1. counted' = Passed(u, now) BY <1>0, <1>4, <2>5
    <3>2. /\ counted' \in [Users -> [Times -> Nat]]
          /\ \A v \in Users, t \in Times : counted'[v][t] = counted[v][t] + (IF v = u /\ t = now THEN 1 ELSE 0)
      BY <1>0, <1>3, <3>1
    <3>3. \A v \in Users, t \in Times : InWindow(t) =>
            requests'[v][t] - requests[v][t]
              = (counted'[v][t] - counted[v][t]) + (One(Holds(next, v, t)) - One(Holds(ask[r], v, t)))
      <4> TAKE v \in Users, t \in Times
      <4> HAVE InWindow(t)
      <4> DEFINE i == IF v = u /\ t = now THEN 1 ELSE 0
      <4>1. requests[v][t] \in Nat /\ counted[v][t] \in Nat /\ i \in Nat BY <1>0
      <4>2. requests'[v][t] = requests[v][t] + i BY <2>5
      <4>3. One(Holds(ask[r], v, t)) = 0 BY <2>0
      <4>4. counted'[v][t] = counted[v][t] + i /\ One(Holds(next, v, t)) = 0 BY <1>2, <3>2
      <4> HIDE DEF i
      <4> QED BY <4>1, <4>2, <4>3, <4>4
    <3>4. \A v \in Users : concurrent'[v] - concurrent[v] = One(Runs(next, v)) - One(Runs(ask[r], v))
      BY <1>0, <1>2
    <3> QED BY <1>0, <1>1, <2>3, <2>5, <3>2, <3>3, <3>4, CountsFollow
  <2> QED BY <2>3, <2>4, <2>5
<1>5. ASSUME ask' = [ask EXCEPT ![r] = next], requests' = requests,
             counted' = IF ask[r].stamp = Unstamped THEN counted ELSE Passed(u, ask[r].stamp)
      PROVE  AskInv'
  <2>1. CASE ask[r].stamp = Unstamped
    <3>0. \A v \in Users, t \in Times : One(Holds(ask[r], v, t)) = 0
      BY <1>2, <2>1 DEF Unstamped, Times
    <3>1. counted' = counted BY <1>5, <2>1
    <3>2. \A v \in Users, t \in Times : InWindow(t) =>
            requests'[v][t] - requests[v][t]
              = (counted'[v][t] - counted[v][t]) + (One(Holds(next, v, t)) - One(Holds(ask[r], v, t)))
      BY <1>0, <1>2, <1>5, <3>0, <3>1
    <3>3. \A v \in Users : concurrent'[v] - concurrent[v] = One(Runs(next, v)) - One(Runs(ask[r], v))
      BY <1>0, <1>2
    <3> QED BY <1>0, <1>1, <1>5, <3>1, <3>2, <3>3, CountsFollow
  <2>2. CASE ask[r].stamp # Unstamped
    <3>1. ask[r].stamp \in Times /\ counted' = Passed(u, ask[r].stamp) BY <1>0, <1>5, <2>2
    <3>2. /\ counted' \in [Users -> [Times -> Nat]]
          /\ \A v \in Users, t \in Times :
               counted'[v][t] = counted[v][t] + (IF v = u /\ t = ask[r].stamp THEN 1 ELSE 0)
      BY <1>3, <3>1
    <3>3. \A v \in Users, t \in Times : InWindow(t) =>
            requests'[v][t] - requests[v][t]
              = (counted'[v][t] - counted[v][t]) + (One(Holds(next, v, t)) - One(Holds(ask[r], v, t)))
      BY <1>0, <1>2, <1>5, <3>2
    <3>4. \A v \in Users : concurrent'[v] - concurrent[v] = One(Runs(next, v)) - One(Runs(ask[r], v))
      BY <1>0, <1>2
    <3> QED BY <1>0, <1>1, <1>5, <3>2, <3>3, <3>4, CountsFollow
  <2> QED BY <2>1, <2>2
<1> QED BY <1>4, <1>5 DEF Authenticated, next

LEMMA NotAuthorized == ASSUME AskInv, NEW r \in Asks, Unauthorized(r) PROVE AskInv'
<1> DEFINE u == ask[r].user  s == ask[r].stamp  less == Without(requests[u], s)
<1>0. /\ ask \in [Asks -> AskType] /\ u \in Users /\ ask[r].stage = "auth" /\ now \in Times
      /\ concurrent' = concurrent /\ now' = now /\ counted \in [Users -> [Times -> Nat]] /\ counted' = counted
      /\ concurrent \in [Users -> Nat] /\ requests \in [Users -> [Times -> Nat]]
      /\ LimitTypes /\ WindowAdds /\ s \in Times \cup {Unstamped}
      /\ ask' = [ask EXCEPT ![r] = Quiet]
      /\ requests' = IF s = Unstamped THEN requests ELSE [requests EXCEPT ![u] = less]
  BY DEF AskInv, LimitTypes, Unauthorized, IsAsk, AskType
<1>1. Quiet \in AskType /\ IsAsk(Quiet) /\ Quiet.stage = "free" BY DEF AskType, Quiet, IsAsk
<1>2. \A v \in Users :
        /\ One(Runs(Quiet, v)) = 0 /\ One(Runs(ask[r], v)) = 0
        /\ \A t \in Times : /\ One(Holds(Quiet, v, t)) = 0
                            /\ One(Holds(ask[r], v, t)) = (IF v = u /\ t = s THEN 1 ELSE 0)
  BY <1>0, <1>1 DEF One, Holds, Runs
<1>3. ASSUME s \in Times
      PROVE  less \in [Times -> Nat] /\ \A t \in Times :
               InWindow(t) => less[t] = requests[u][t] - (IF t = s THEN 1 ELSE 0)
  <2>1. requests[u] \in [Times -> Nat] BY <1>0
  <2>2. InWindow(s) => requests[u][s] > 0
    <3> DEFINE A == Cardinality(Pending(ask, u, s))  B == Cardinality(Pending(ask', u, s))
    <3>1. A \in Nat /\ B \in Nat /\ B = A - 1 BY <1>0, <1>1, <1>3, OneMoves
    <3>2. InWindow(s) => requests[u][s] = counted[u][s] + A BY <1>0, <1>3 DEF WindowAdds
    <3>3. requests[u][s] \in Nat /\ counted[u][s] \in Nat BY <1>0, <1>3
    <3> HIDE DEF A, B
    <3> QED BY <3>1, <3>2, <3>3
  <2> QED BY <1>3, <2>1, <2>2 DEF Without
<1>4. requests' \in [Users -> [Times -> Nat]] BY <1>0, <1>3
<1>5. \A v \in Users, t \in Times : InWindow(t) =>
        requests'[v][t] - requests[v][t]
          = (counted'[v][t] - counted[v][t]) + (One(Holds(Quiet, v, t)) - One(Holds(ask[r], v, t)))
  <2> TAKE v \in Users, t \in Times
  <2> HAVE InWindow(t)
  <2> DEFINE i == IF v = u /\ t = s THEN 1 ELSE 0
  <2>1. requests[v][t] \in Nat /\ counted[v][t] \in Nat /\ i \in Nat BY <1>0
  <2>2. requests'[v][t] = requests[v][t] - i
    <3>1. CASE s = Unstamped BY <1>0, <2>1, <3>1 DEF Unstamped, Times
    <3>2. CASE s \in Times
      <4>1. less \in [Times -> Nat] /\ less[t] = requests[u][t] - (IF t = s THEN 1 ELSE 0) BY <1>3, <3>2
      <4>2. s # Unstamped BY <3>2 DEF Unstamped, Times
      <4> HIDE DEF less
      <4>3. requests'[v] = IF v = u THEN less ELSE requests[v] BY <1>0, <4>2
      <4> QED BY <2>1, <4>1, <4>3
    <3> QED BY <1>0, <3>1, <3>2
  <2>3. One(Holds(Quiet, v, t)) = 0 /\ One(Holds(ask[r], v, t)) = i BY <1>2
  <2>4. counted'[v][t] = counted[v][t] BY <1>0
  <2> HIDE DEF i
  <2> QED BY <2>1, <2>2, <2>3, <2>4
<1>6. \A v \in Users : concurrent'[v] - concurrent[v] = One(Runs(Quiet, v)) - One(Runs(ask[r], v))
  BY <1>0, <1>2
<1> QED BY <1>0, <1>1, <1>4, <1>5, <1>6, CountsFollow

(* Past its 401 a request moves slots at most. *)
LEMMA Proceeds ==
  ASSUME AskInv, NEW r \in Asks, Rejected(r) \/ Acquire(r) \/ Release(r)
  PROVE  AskInv'
<1> DEFINE u == ask[r].user
<1>0. /\ ask \in [Asks -> AskType] /\ u \in Users /\ ask[r].stage \in {"checks", "running"} /\ now \in Times
      /\ now' = now /\ counted \in [Users -> [Times -> Nat]] /\ counted' = counted
      /\ concurrent \in [Users -> Nat] /\ requests \in [Users -> [Times -> Nat]] /\ requests' = requests
      /\ LimitTypes /\ SlotsAdd /\ ask[r] \in AskType /\ IsAsk(ask[r])
  BY DEF AskInv, LimitTypes, Rejected, Acquire, Release, IsAsk, AskType
<1>1. Quiet \in AskType /\ IsAsk(Quiet) /\ Quiet.stage = "free" BY DEF AskType, Quiet, IsAsk
<1>2. \A v \in Users, t \in Times : One(Holds(ask[r], v, t)) = 0 BY <1>0 DEF One, Holds
<1>3. ASSUME NEW new \in AskType, IsAsk(new), new.stage # "auth", ask' = [ask EXCEPT ![r] = new],
             concurrent' \in [Users -> Nat],
             \A v \in Users : concurrent'[v] - concurrent[v] = One(Runs(new, v)) - One(Runs(ask[r], v))
      PROVE  AskInv'
  <2>1. \A v \in Users, t \in Times : One(Holds(new, v, t)) = 0 BY <1>3 DEF One, Holds
  <2>2. \A v \in Users, t \in Times : InWindow(t) =>
          requests'[v][t] - requests[v][t]
            = (counted'[v][t] - counted[v][t]) + (One(Holds(new, v, t)) - One(Holds(ask[r], v, t)))
    BY <1>0, <1>2, <2>1
  <2> QED BY <1>0, <1>3, <2>2, CountsFollow
<1>4. CASE ask[r].stage = "checks" /\ ask' = [ask EXCEPT ![r] = Quiet] /\ concurrent' = concurrent
  <2>1. \A v \in Users : One(Runs(Quiet, v)) = 0 /\ One(Runs(ask[r], v)) = 0 BY <1>1, <1>4 DEF One, Runs
  <2>2. \A v \in Users : concurrent'[v] - concurrent[v] = One(Runs(Quiet, v)) - One(Runs(ask[r], v))
    BY <1>0, <1>4, <2>1
  <2> QED BY <1>0, <1>1, <1>3, <1>4, <2>2
<1>5. CASE /\ ask[r].stage = "checks" /\ ask' = [ask EXCEPT ![r].stage = "running"]
           /\ concurrent' = [concurrent EXCEPT ![u] = @ + 1]
  <2> DEFINE new == [ask[r] EXCEPT !.stage = "running"]
  <2>1. new \in AskType /\ IsAsk(new) /\ new.stage = "running" /\ new.user = u BY <1>0 DEF AskType, IsAsk
  <2>2. ask' = [ask EXCEPT ![r] = new] BY <1>5
  <2> HIDE DEF new
  <2>3. \A v \in Users : One(Runs(new, v)) = (IF v = u THEN 1 ELSE 0) /\ One(Runs(ask[r], v)) = 0
    BY <1>5, <2>1 DEF One, Runs
  <2>4. concurrent' \in [Users -> Nat]
        /\ \A v \in Users : concurrent'[v] = concurrent[v] + (IF v = u THEN 1 ELSE 0)
    BY <1>0, <1>5
  <2>5. \A v \in Users : concurrent'[v] - concurrent[v] = One(Runs(new, v)) - One(Runs(ask[r], v))
    BY <1>0, <2>3, <2>4
  <2> QED BY <1>3, <2>1, <2>2, <2>4, <2>5
<1>6. CASE /\ ask[r].stage = "running" /\ ask' = [ask EXCEPT ![r] = Quiet]
           /\ concurrent' = [concurrent EXCEPT ![u] = IF @ > 0 THEN @ - 1 ELSE @]
  <2>1. \A v \in Users : One(Runs(Quiet, v)) = 0 /\ One(Runs(ask[r], v)) = (IF v = u THEN 1 ELSE 0)
    BY <1>1, <1>6 DEF One, Runs
  <2>2. concurrent[u] > 0
    <3> DEFINE A == Cardinality(Running(ask, u))  B == Cardinality(Running(ask', u))
    <3>1. A \in Nat /\ B \in Nat /\ B = A - 1 BY <1>0, <1>1, <1>6, OneMoves
    <3>2. concurrent[u] = A BY <1>0 DEF SlotsAdd
    <3> HIDE DEF A, B
    <3> QED BY <3>1, <3>2
  <2>3. concurrent' \in [Users -> Nat]
        /\ \A v \in Users : concurrent'[v] = concurrent[v] - (IF v = u THEN 1 ELSE 0)
    BY <1>0, <1>6, <2>2
  <2>4. \A v \in Users : concurrent'[v] - concurrent[v] = One(Runs(Quiet, v)) - One(Runs(ask[r], v))
    BY <1>0, <2>1, <2>3
  <2> QED BY <1>1, <1>3, <1>6, <2>3, <2>4
<1> QED BY <1>4, <1>5, <1>6 DEF Rejected, Acquire, Release

LEMMA NothingPending ==
  ASSUME ask = [r \in Asks |-> Quiet]
  PROVE  \A u \in Users : /\ Cardinality(Running(ask, u)) = 0
                          /\ \A t \in Times : Cardinality(Pending(ask, u, t)) = 0
<1>1. \A r \in Asks : ask[r].stage = "free" BY DEF Quiet
<1>2. \A u \in Users : Running(ask, u) = {} /\ \A t \in Times : Pending(ask, u, t) = {}
  BY <1>1 DEF Running, Pending
<1> QED BY <1>2, FS_EmptySet

NobodyIsCounted ==
  /\ requests = [u \in Users |-> NoStamps] /\ concurrent = [u \in Users |-> 0]
  /\ counted = [u \in Users |-> NoStamps] /\ ask = [r \in Asks |-> Quiet] /\ now \in Times

LEMMA Restarted == NobodyIsCounted => AskInv
<1> SUFFICES ASSUME NobodyIsCounted PROVE AskInv OBVIOUS
<1> USE DEF NobodyIsCounted
<1>1. LimitTypes BY DEF LimitTypes, NoStamps, Quiet, AskType, IsAsk
<1>2. WindowAdds BY NothingPending DEF WindowAdds, NoStamps
<1>3. SlotsAdd BY NothingPending DEF SlotsAdd
<1> QED BY <1>1, <1>2, <1>3 DEF AskInv

LEMMA TimePasses == ASSUME AskInv, Tick PROVE AskInv'
<1>0. /\ now \in Times /\ now' = now + 1 /\ now' \in Times /\ counted \in [Users -> [Times -> Nat]]
      /\ counted' = [u \in Users |-> [t \in Times |-> IF t > now' - Window THEN counted[u][t] ELSE 0]]
      /\ requests' = requests /\ ask' = ask /\ concurrent' = concurrent
      /\ LimitTypes /\ WindowAdds /\ SlotsAdd
  BY LimitsAssumption DEF AskInv, LimitTypes, Tick, Times
<1>1. counted' \in [Users -> [Times -> Nat]] BY <1>0
<1>2. \A t \in Times : InWindow(t)' => InWindow(t) /\ \A u \in Users : counted'[u][t] = counted[u][t]
  BY <1>0, LimitsAssumption DEF InWindow, Times
<1>3. LimitTypes' BY <1>0, <1>1 DEF LimitTypes
<1>4. SlotsAdd' BY <1>0 DEF SlotsAdd
<1>5. \A u \in Users, t \in Times : Pending(ask', u, t) = Pending(ask, u, t) BY <1>0
<1>6. WindowAdds' BY <1>0, <1>2, <1>5 DEF WindowAdds
<1> QED BY <1>3, <1>4, <1>6 DEF AskInv

(***************************************************************************)
(* The limits in force: between the commit of a save and its end they are  *)
(* one patch behind the table, and otherwise what the table says.          *)
(***************************************************************************)
SaverType == [stage : {"free", "commit", "sync"}, body : Bodies \cup {NoBody}]

SavesAreAlone ==
  ~overlapped =>
    /\ \A s, o \in Savers : saver[s].stage # "free" /\ saver[o].stage # "free" => s = o
    /\ (\A s \in Savers : saver[s].stage # "sync") => limits = table
    /\ \A s \in Savers : saver[s].stage = "sync" => table = Patched(limits, saver[s].body)

SettingsInv ==
  /\ saver \in [Savers -> SaverType] /\ overlapped \in BOOLEAN
  /\ limits = [f \in Fields |-> limits[f]] /\ table = [f \in Fields |-> table[f]]
  /\ \A f \in Fields : limits[f] \in committed[f] /\ table[f] \in committed[f]
  /\ \A s \in Savers : saver[s].stage = "sync" =>
       \A f \in Fields : f \in DOMAIN saver[s].body => saver[s].body[f] \in committed[f]
  /\ SavesAreAlone

LEMMA Patches ==
  ASSUME NEW values, NEW body
  PROVE  /\ Patched(values, body) = [f \in Fields |-> Patched(values, body)[f]]
         /\ \A f \in Fields : Patched(values, body)[f] = (IF f \in DOMAIN body THEN body[f] ELSE values[f])
BY DEF Patched

LEMMA SaveStarts == ASSUME SettingsInv, NEW s \in Savers, NEW body \in Bodies, Save(s, body) PROVE SettingsInv'
<1> DEFINE new == [stage |-> "commit", body |-> body]
<1>0. /\ saver \in [Savers -> SaverType] /\ overlapped \in BOOLEAN /\ SavesAreAlone
      /\ saver' = [saver EXCEPT ![s] = new]
      /\ limits' = limits /\ table' = table /\ committed' = committed
      /\ overlapped' = (overlapped \/ \E o \in Savers : saver[o].stage # "free")
  BY DEF SettingsInv, Save
<1>1. new \in SaverType /\ new.stage = "commit" BY DEF SaverType
<1> HIDE DEF new
<1>2. saver' \in [Savers -> SaverType] /\ saver'[s] = new /\ \A o \in Savers : o # s => saver'[o] = saver[o]
  BY <1>0, <1>1
<1>3. overlapped' \in BOOLEAN BY <1>0
<1>4. SavesAreAlone'
  <2> SUFFICES ASSUME ~overlapped' PROVE /\ \A a, o \in Savers : saver'[a].stage # "free" /\ saver'[o].stage # "free" => a = o
                                         /\ (\A a \in Savers : saver'[a].stage # "sync") => limits' = table'
                                         /\ \A a \in Savers : saver'[a].stage = "sync" => table' = Patched(limits', saver'[a].body)
    BY DEF SavesAreAlone, Patched
  <2>1. ~overlapped /\ \A o \in Savers : saver[o].stage = "free" BY <1>0
  <2>2. limits = table BY <1>0, <2>1 DEF SavesAreAlone
  <2> QED BY <1>0, <1>1, <1>2, <2>1, <2>2
<1>5. \A a \in Savers : saver'[a].stage = "sync" => saver[a] = saver'[a] BY <1>1, <1>2
<1> QED BY <1>0, <1>2, <1>3, <1>4, <1>5 DEF SettingsInv

LEMMA SaveGoesOn ==
  ASSUME SettingsInv, NEW s \in Savers, SaveCommits(s) \/ SaveFails(s) \/ SaveSyncs(s)
  PROVE  SettingsInv'
<1> DEFINE body == saver[s].body  free == [stage |-> "free", body |-> NoBody]
<1>0. /\ saver \in [Savers -> SaverType] /\ overlapped \in BOOLEAN /\ SavesAreAlone /\ overlapped' = overlapped
      /\ limits = [f \in Fields |-> limits[f]] /\ table = [f \in Fields |-> table[f]]
      /\ \A f \in Fields : limits[f] \in committed[f] /\ table[f] \in committed[f]
      /\ \A a \in Savers : saver[a].stage = "sync" =>
           \A f \in Fields : f \in DOMAIN saver[a].body => saver[a].body[f] \in committed[f]
  BY DEF SettingsInv, SaveCommits, SaveFails, SaveSyncs
<1>1. free \in SaverType /\ free.stage = "free" BY DEF SaverType
<1>2. CASE SaveCommits(s)
  <2> DEFINE new == [saver[s] EXCEPT !.stage = "sync"]
  <2>1. new \in SaverType /\ new.stage = "sync" /\ new.body = body BY <1>0 DEF SaverType
  <2>2. /\ saver' = [saver EXCEPT ![s] = new] /\ table' = Patched(table, body)
        /\ committed' = [f \in Fields |-> committed[f] \cup {table'[f]}] /\ limits' = limits
        /\ saver[s].stage = "commit"
    BY <1>2 DEF SaveCommits
  <2> HIDE DEF new
  <2>3. saver' \in [Savers -> SaverType] /\ saver'[s] = new /\ \A o \in Savers : o # s => saver'[o] = saver[o]
    BY <1>0, <2>1, <2>2
  <2>4. /\ table' = [f \in Fields |-> table'[f]]
        /\ \A f \in Fields : table'[f] = (IF f \in DOMAIN body THEN body[f] ELSE table[f])
    BY <2>2, Patches
  <2>5. \A f \in Fields : committed[f] \subseteq committed'[f] /\ table'[f] \in committed'[f] BY <2>2
  <2>6. \A a \in Savers : saver'[a].stage = "sync" =>
          \A f \in Fields : f \in DOMAIN saver'[a].body => saver'[a].body[f] \in committed'[f]
    BY <1>0, <2>1, <2>3, <2>4, <2>5
  <2>7. SavesAreAlone'
    <3> SUFFICES ASSUME ~overlapped' PROVE /\ \A a, o \in Savers : saver'[a].stage # "free" /\ saver'[o].stage # "free" => a = o
                                           /\ (\A a \in Savers : saver'[a].stage # "sync") => limits' = table'
                                           /\ \A a \in Savers : saver'[a].stage = "sync" => table' = Patched(limits', saver'[a].body)
      BY DEF SavesAreAlone, Patched
    <3>1. \A o \in Savers : o # s => saver[o].stage = "free" BY <1>0, <2>2 DEF SavesAreAlone
    <3>2. limits = table BY <1>0, <2>2, <3>1 DEF SavesAreAlone
    <3> QED BY <2>1, <2>2, <2>3, <3>1, <3>2
  <2> QED BY <1>0, <2>2, <2>3, <2>4, <2>5, <2>6, <2>7 DEF SettingsInv
<1>3. CASE SaveFails(s)
  <2>2. /\ saver' = [saver EXCEPT ![s] = free] /\ table' = table /\ committed' = committed
        /\ limits' = limits /\ saver[s].stage = "commit"
    BY <1>3 DEF SaveFails
  <2> HIDE DEF free
  <2>3. saver' \in [Savers -> SaverType] /\ saver'[s] = free /\ \A o \in Savers : o # s => saver'[o] = saver[o]
    BY <1>0, <1>1, <2>2
  <2>4. \A a \in Savers : saver'[a].stage # "free" => saver'[a] = saver[a] BY <1>1, <2>3
  <2>5. (\A a \in Savers : saver'[a].stage # "sync") => \A a \in Savers : saver[a].stage # "sync"
    BY <2>2, <2>3
  <2>6. SavesAreAlone' BY <1>0, <2>2, <2>4, <2>5 DEF SavesAreAlone, Patched
  <2> QED BY <1>0, <1>1, <2>2, <2>3, <2>4, <2>6 DEF SettingsInv
<1>4. CASE SaveSyncs(s)
  <2>2. /\ saver' = [saver EXCEPT ![s] = free] /\ table' = table /\ committed' = committed
        /\ limits' = Patched(limits, body) /\ saver[s].stage = "sync"
    BY <1>4 DEF SaveSyncs, Synced
  <2> HIDE DEF free
  <2>3. saver' \in [Savers -> SaverType] /\ saver'[s] = free /\ \A o \in Savers : o # s => saver'[o] = saver[o]
    BY <1>0, <1>1, <2>2
  <2>4. \A a \in Savers : saver'[a].stage # "free" => saver'[a] = saver[a] BY <1>1, <2>3
  <2>5. /\ limits' = [f \in Fields |-> limits'[f]]
        /\ \A f \in Fields : limits'[f] = (IF f \in DOMAIN body THEN body[f] ELSE limits[f])
    BY <2>2, Patches
  <2>6. \A f \in Fields : limits'[f] \in committed'[f] BY <1>0, <2>2, <2>5
  <2>7. SavesAreAlone'
    <3> SUFFICES ASSUME ~overlapped' PROVE /\ \A a, o \in Savers : saver'[a].stage # "free" /\ saver'[o].stage # "free" => a = o
                                           /\ (\A a \in Savers : saver'[a].stage # "sync") => limits' = table'
                                           /\ \A a \in Savers : saver'[a].stage = "sync" => table' = Patched(limits', saver'[a].body)
      BY DEF SavesAreAlone, Patched
    <3>1. \A o \in Savers : o # s => saver[o].stage = "free" BY <1>0, <2>2 DEF SavesAreAlone
    <3>2. table = Patched(limits, body) BY <1>0, <2>2 DEF SavesAreAlone
    <3> QED BY <1>1, <2>2, <2>3, <2>4, <3>1, <3>2
  <2> QED BY <1>0, <1>1, <2>2, <2>3, <2>4, <2>5, <2>6, <2>7 DEF SettingsInv
<1> QED BY <1>2, <1>3, <1>4

AsLoaded ==
  /\ saver = [s \in Savers |-> [stage |-> "free", body |-> NoBody]] /\ overlapped = FALSE /\ limits = table
  /\ table = [f \in Fields |-> table[f]] /\ \A f \in Fields : table[f] \in committed[f]

LEMMA SettingsAreLoaded == AsLoaded => SettingsInv
<1> SUFFICES ASSUME AsLoaded PROVE SettingsInv OBVIOUS
<1> USE DEF AsLoaded
<1>1. saver \in [Savers -> SaverType] /\ \A s \in Savers : saver[s].stage = "free" BY DEF SaverType
<1>2. SavesAreAlone BY <1>1 DEF SavesAreAlone
<1> QED BY <1>1, <1>2 DEF SettingsInv

(***************************************************************************)
(* LimiterIsExact: at any time a user's window holds the requests that     *)
(* were let through and not taken back, its slots are those of its running *)
(* queries, and the limits have been in the table.                         *)
(***************************************************************************)
THEOREM LimiterStaysExact == LimitsSpec => []LimiterIsExact
<1> DEFINE Inv == AskInv /\ SettingsInv
<1>1. LimitsInit => Inv
  <2> SUFFICES ASSUME LimitsInit PROVE Inv OBVIOUS
  <2>1. AskInv
    <3>1. now \in Times BY LimitsAssumption DEF LimitsInit, Times
    <3> QED BY <3>1, Restarted DEF LimitsInit, NobodyIsCounted
  <2>2. SettingsInv
    <3>1. table = [f \in Fields |-> table[f]] /\ limits = table BY LimitsAssumption DEF LimitsInit
    <3>2. \A f \in Fields : table[f] \in committed[f] BY DEF LimitsInit
    <3>3. saver = [s \in Savers |-> [stage |-> "free", body |-> NoBody]] /\ overlapped = FALSE BY DEF LimitsInit
    <3> QED BY <3>1, <3>2, <3>3, SettingsAreLoaded DEF AsLoaded
  <2> QED BY <2>1, <2>2
<1>2. Inv /\ [LimitsNext]_limitVars => Inv'
  <2> SUFFICES ASSUME Inv, [LimitsNext]_limitVars PROVE Inv' OBVIOUS
  <2>0. AskInv /\ SettingsInv OBVIOUS
  <2>1. ASSUME UNCHANGED <<settingVars>> PROVE SettingsInv'
    BY <2>0, <2>1 DEF SettingsInv, SavesAreAlone, settingVars, Patched
  <2>2. ASSUME UNCHANGED <<now, askVars>> PROVE AskInv'
    BY <2>0, <2>2 DEF AskInv, LimitTypes, WindowAdds, SlotsAdd, Pending, Running, InWindow, askVars
  <2>3. ASSUME NEW r \in Asks, NEW u \in Users, NEW route \in {"execute", "template", "catalog"}, Arrive(r, u, route)
        PROVE  Inv'
    <3>1. UNCHANGED <<settingVars>> BY <2>3 DEF Arrive
    <3> QED BY <2>0, <2>1, <2>3, <3>1, Arrives
  <2>4. ASSUME NEW r \in Asks, Authenticated(r) PROVE Inv'
    <3>1. UNCHANGED <<settingVars>> BY <2>4 DEF Authenticated
    <3> QED BY <2>0, <2>1, <2>4, <3>1, Authenticates
  <2>5. ASSUME NEW r \in Asks, Unauthorized(r) PROVE Inv'
    <3>1. UNCHANGED <<settingVars>> BY <2>5 DEF Unauthorized
    <3> QED BY <2>0, <2>1, <2>5, <3>1, NotAuthorized
  <2>6. ASSUME NEW r \in Asks, Rejected(r) \/ Acquire(r) \/ Release(r) PROVE Inv'
    <3>1. UNCHANGED <<settingVars>> BY <2>6 DEF Rejected, Acquire, Release
    <3> QED BY <2>0, <2>1, <2>6, <3>1, Proceeds
  <2>7. ASSUME NEW s \in Savers, NEW body \in Bodies, Save(s, body) PROVE Inv'
    <3>1. UNCHANGED <<now, askVars>> BY <2>7 DEF Save
    <3> QED BY <2>0, <2>2, <2>7, <3>1, SaveStarts
  <2>8. ASSUME NEW s \in Savers, SaveCommits(s) \/ SaveFails(s) \/ SaveSyncs(s) PROVE Inv'
    <3>1. UNCHANGED <<now, askVars>> BY <2>8 DEF SaveCommits, SaveFails, SaveSyncs
    <3> QED BY <2>0, <2>2, <2>8, <3>1, SaveGoesOn
  <2>9. CASE Tick
    <3>1. UNCHANGED <<settingVars>> BY <2>9 DEF Tick
    <3> QED BY <2>0, <2>1, <2>9, <3>1, TimePasses
  <2>10. CASE Restart
    <3>1. /\ requests' = [u \in Users |-> NoStamps] /\ concurrent' = [u \in Users |-> 0]
          /\ counted' = [u \in Users |-> NoStamps] /\ ask' = [r \in Asks |-> Quiet] /\ now' = now
          /\ saver' = [s \in Savers |-> [stage |-> "free", body |-> NoBody]] /\ overlapped' = FALSE
          /\ limits' = table /\ table' = table /\ committed' = committed
      BY <2>10 DEF Restart
    <3>2. now' \in Times BY <2>0, <3>1 DEF AskInv, LimitTypes
    <3>3. NobodyIsCounted' BY <3>1, <3>2 DEF NobodyIsCounted, NoStamps, Quiet
    <3>4. AskInv' BY <3>3, Restarted, PTL
    <3>5. /\ limits' = table' /\ table' = [f \in Fields |-> table'[f]]
          /\ \A f \in Fields : table'[f] \in committed'[f]
      BY <2>0, <3>1 DEF SettingsInv
    <3>6. AsLoaded' BY <3>1, <3>5 DEF AsLoaded, NoBody
    <3>7. SettingsInv' BY <3>6, SettingsAreLoaded, PTL
    <3> QED BY <3>4, <3>7
  <2>11. CASE UNCHANGED limitVars
    <3>1. UNCHANGED <<settingVars>> /\ UNCHANGED <<now, askVars>> BY <2>11 DEF limitVars, settingVars, askVars
    <3> QED BY <2>1, <2>2, <3>1
  <2> QED BY <2>3, <2>4, <2>5, <2>6, <2>7, <2>8, <2>9, <2>10, <2>11 DEF LimitsNext
<1>3. Inv => LimiterIsExact
  <2> SUFFICES ASSUME Inv PROVE LimiterIsExact OBVIOUS
  <2>1. WindowIsExact BY DEF AskInv, WindowAdds, WindowIsExact, Pending, InWindow
  <2>2. SlotsAreHeld BY DEF AskInv, SlotsAdd, SlotsAreHeld, Running
  <2>3. LimitsWereCommitted BY DEF SettingsInv, SavesAreAlone, LimitsWereCommitted
  <2> QED BY <2>1, <2>2, <2>3 DEF LimiterIsExact
<1> HIDE DEF Inv
<1> QED BY <1>1, <1>2, <1>3, PTL DEF LimitsSpec
===============================================================================
