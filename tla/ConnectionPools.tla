---------------------------- MODULE ConnectionPools ----------------------------
(***************************************************************************)
(* One registered database of the service: its row in the meta store, the  *)
(* client the connection manager keeps for it (connection_manager.py), the *)
(* admin routes that create, change and delete it (admin.py), and queries  *)
(* that run on the client, some in threads that outlive their request.     *)
(***************************************************************************)
EXTENDS Integers, FiniteSets, Sequences

CONSTANTS NoOne,        \* whose a thread is when its request is gone
          Kinds,        \* database types, of "engine", "clickhouse", "neo4j", "graphdb"
          AdminTasks,   \* create, update and delete requests at the same time
          Queries,      \* queries at the same time
          MaxVersions, MaxClients, MaxThreads, MaxBoots  \* bounds of the exploration

ASSUME PoolsAssumption ==
  /\ Kinds \subseteq {"engine", "clickhouse", "neo4j", "graphdb"}
  /\ {MaxVersions, MaxClients, MaxThreads, MaxBoots} \subseteq Nat
  /\ AdminTasks \cap Queries = {} /\ NoOne \notin AdminTasks \cup Queries

(* Clients that are made, called and closed in a worker thread; a          *)
(* clickhouse-connect client bears one call at a time.                     *)
Threaded == {"clickhouse", "neo4j"}
Serial == {"clickhouse"}

VARIABLES
  row,        \* the DBConnection row, or NoRow
  versions,   \* versions of rows handed out
  registry,   \* _engines, _ch_clients with _ch_locks, ...: a client or None, by kind
  dbtype,     \* _db_types: a kind or "unknown"
  clients,    \* every client made: its kind, the version it was made from, and whether it is open
  locked,     \* clients whose lock is held
  threads,    \* worker threads at a client or waiting for its lock
  task,       \* each admin request
  query,      \* each query request
  raced,      \* history: admin requests have overlapped since the boot
  failed,     \* history: the last of them could not make or close a client
  boots

poolVars == <<row, versions, registry, dbtype, clients, locked, threads, task, query, raced, failed, boots>>
tableVars == <<row, versions>>
managerVars == <<registry, dbtype, clients>>
threadVars == <<locked, threads>>
requestVars == <<query, raced, boots>>

None == 0
NoRow == [id |-> 0, kind |-> "none", version |-> 0]
IdleTask == [stage |-> "idle", then |-> "end", want |-> NoRow, closing |-> {}]
IdleQuery == [stage |-> "idle", kind |-> "unknown", client |-> None]
Order == <<"engine", "clickhouse", "neo4j", "graphdb">>
Rank(kind) == CHOOSE i \in DOMAIN Order : Order[i] = kind

Registered == {registry[k] : k \in Kinds} \ {None}
Idle(a) == task[a].stage = "idle"

PoolsInit ==
  /\ row = NoRow /\ versions = 0
  /\ registry = [k \in Kinds |-> None] /\ dbtype = "unknown"
  /\ clients = <<>> /\ locked = {} /\ threads = {}
  /\ task = [a \in AdminTasks |-> IdleTask] /\ query = [q \in Queries |-> IdleQuery]
  /\ raced = FALSE /\ failed = FALSE /\ boots = 0

Starts(a) == Idle(a) /\ raced' = (raced \/ \E b \in AdminTasks : ~Idle(b))

-------------------------------------------------------------------------------
(* create_connection: no row of the alias yet. *)
Create(a, kind) ==
  /\ Starts(a) /\ row = NoRow
  /\ task' = [task EXCEPT ![a] = [IdleTask EXCEPT !.stage = "commit", !.then = "create", !.want.kind = kind]]
  /\ UNCHANGED <<tableVars, managerVars, threadVars, query, failed, boots>>

(* update_connection: the type of a row never changes. *)
Update(a) ==
  /\ Starts(a) /\ row # NoRow
  /\ task' = [task EXCEPT ![a] = [IdleTask EXCEPT !.stage = "commit", !.then = "update", !.want = row]]
  /\ UNCHANGED <<tableVars, managerVars, threadVars, query, failed, boots>>

(* The alias is unique and an UPDATE needs its row: a create that lost and *)
(* an update whose row is gone end here with an error.                     *)
Commits(a) ==
  /\ task[a].stage = "commit" /\ versions < MaxVersions
  /\ LET t == task[a]  new == t.then = "create" IN
     IF row.id # t.want.id
     THEN task' = [task EXCEPT ![a] = IdleTask] /\ UNCHANGED tableVars
     ELSE /\ versions' = versions + 1
          /\ row' = [id |-> IF new THEN versions' ELSE row.id, kind |-> t.want.kind, version |-> versions']
          /\ task' = [task EXCEPT ![a].stage = "refresh", ![a].want = row']
  /\ UNCHANGED <<managerVars, threadVars, failed, requestVars>>

(* The end of add_connection: the client of a row enters its registry, or  *)
(* cannot be made, which the routes only log.                              *)
Registers(a, made, want) ==
  /\ \/ /\ Len(made) < MaxClients
        /\ clients' = Append(made, [kind |-> want.kind, version |-> want.version, open |-> TRUE])
        /\ registry' = [registry EXCEPT ![want.kind] = Len(clients')]
        /\ dbtype' = want.kind /\ failed' = FALSE
     \/ clients' = made /\ failed' = TRUE /\ UNCHANGED <<registry, dbtype>>
  /\ task' = [task EXCEPT ![a] = IdleTask]

(* remove_connection takes the alias out of every registry in one step,    *)
(* before it waits for anything.                                           *)
PopsAll == registry' = [k \in Kinds |-> None] /\ dbtype' = "unknown"

(* db.refresh, and the start of add_connection: what is registered is      *)
(* removed first; otherwise an engine or an httpx client is made at once,  *)
(* and the others in a thread.                                             *)
Refreshed(a) ==
  /\ task[a].stage = "refresh"
  /\ IF row.id # task[a].want.id
     THEN task' = [task EXCEPT ![a] = IdleTask] /\ UNCHANGED <<managerVars, failed>>
     ELSE IF Registered # {}
     THEN /\ task' = [task EXCEPT ![a] = [@ EXCEPT !.stage = "close", !.want = row, !.closing = Registered]]
          /\ PopsAll /\ UNCHANGED <<clients, failed>>
     ELSE IF row.kind \in Threaded
     THEN /\ task' = [task EXCEPT ![a] = [@ EXCEPT !.stage = "make", !.want = row]]
          /\ UNCHANGED <<managerVars, failed>>
     ELSE Registers(a, clients, row)
  /\ UNCHANGED <<tableVars, threadVars, requestVars>>

(* A threaded client is there, or get_client has raised. *)
Made(a) ==
  /\ task[a].stage = "make" /\ Registers(a, clients, task[a].want)
  /\ UNCHANGED <<tableVars, threadVars, requestVars>>

(* delete_connection reads the row and removes the client; the row goes    *)
(* at the end.                                                             *)
Delete(a) ==
  /\ Starts(a) /\ row # NoRow
  /\ task' = [task EXCEPT ![a] = [stage |-> IF Registered = {} THEN "erase" ELSE "close", then |-> "delete",
                                  want |-> row, closing |-> Registered]]
  /\ PopsAll
  /\ UNCHANGED <<tableVars, clients, threadVars, query, failed, boots>>

EraseRow(a) ==
  /\ task[a].stage = "erase"
  /\ row' = IF row.id = task[a].want.id THEN NoRow ELSE row
  /\ failed' = FALSE /\ task' = [task EXCEPT ![a] = IdleTask]
  /\ UNCHANGED <<versions, managerVars, threadVars, requestVars>>

-------------------------------------------------------------------------------
(* The removed clients are closed one after the other, by kind. *)
NextToClose(a) == CHOOSE c \in task[a].closing :
  \A d \in task[a].closing : Rank(clients[c].kind) <= Rank(clients[d].kind)

Shut(c) == [clients EXCEPT ![c].open = FALSE]

(* After the last one a deletion goes on to the row, and an addition to    *)
(* the new client.                                                         *)
Closed(a, c) ==
  LET t == task[a] IN
  IF t.closing = {c} /\ t.then # "delete" /\ t.want.kind \notin Threaded
  THEN Registers(a, Shut(c), t.want)
  ELSE /\ clients' = Shut(c) /\ UNCHANGED <<registry, dbtype, failed>>
       /\ task' = [task EXCEPT ![a].closing = @ \ {c},
                     ![a].stage = IF t.closing # {c} THEN "close"
                                  ELSE IF t.then = "delete" THEN "erase" ELSE "make"]

(* A close that raises: an addition leaves its row without a client, a     *)
(* deletion is answered 500 and never reaches the row.                     *)
CloseRaises(a, c) ==
  /\ clients' = Shut(c) /\ failed' = TRUE /\ UNCHANGED <<registry, dbtype>>
  /\ task' = [task EXCEPT ![a] = IdleTask]

NewThread == CHOOSE n \in 1..MaxThreads : \A t \in threads : t.id # n
Waiting(c, of, job) == [id |-> NewThread, client |-> c, of |-> of, job |-> job, at |-> "lock"]
RoomForThread == Cardinality(threads) < MaxThreads

(* engine.dispose and aclose are awaited; the close of a threaded client   *)
(* waits in a thread for its lock.                                         *)
Closes(a) ==
  /\ task[a].stage = "close"
  /\ LET c == NextToClose(a) IN
     IF clients[c].kind \in Threaded
     THEN /\ RoomForThread /\ threads' = threads \cup {Waiting(c, a, "close")}
          /\ task' = [task EXCEPT ![a].stage = "closing"]
          /\ UNCHANGED <<managerVars, failed>>
     ELSE (Closed(a, c) \/ CloseRaises(a, c)) /\ UNCHANGED threads
  /\ UNCHANGED <<tableVars, locked, requestVars>>

(* run_clickhouse_locked: a thread waits until the lock of its client is   *)
(* free; calls of other clients begin at once.                             *)
TakesLock(t) ==
  /\ t \in threads /\ t.at = "lock" /\ t.client \notin locked
  /\ locked' = locked \cup (IF clients[t.client].kind \in Serial THEN {t.client} ELSE {})
  /\ threads' = (threads \ {t}) \cup {[t EXCEPT !.at = "call"]}
  /\ UNCHANGED <<tableVars, managerVars, task, failed, requestVars>>

(* A thread is done, and gives the lock back. *)
Leaves(t) == t \in threads /\ t.at = "call" /\ threads' = threads \ {t} /\ locked' = locked \ {t.client}

CloseEnds(t) ==
  /\ t.job = "close" /\ Leaves(t)
  /\ Closed(t.of, t.client) \/ CloseRaises(t.of, t.client)
  /\ UNCHANGED <<tableVars, requestVars>>

-------------------------------------------------------------------------------
(* _run_query reads the type, and checks the statement as one of it. *)
Validate(q) ==
  /\ query[q].stage = "idle" /\ dbtype # "unknown"
  /\ query' = [query EXCEPT ![q].stage = "checked", ![q].kind = dbtype]
  /\ UNCHANGED <<tableVars, managerVars, threadVars, task, raced, failed, boots>>

(* The client is looked up after the checks, in the registry of that type. *)
LookedUp(q) == registry[query[q].kind]

(* Without a client the query fails; otherwise its call begins. *)
Fetch(q) ==
  /\ query[q].stage = "checked"
  /\ LET c == LookedUp(q) IN
     IF c = None THEN query' = [query EXCEPT ![q] = IdleQuery] /\ UNCHANGED threads
     ELSE /\ query' = [query EXCEPT ![q].stage = "running", ![q].client = c]
          /\ IF clients[c].kind \in Threaded
             THEN RoomForThread /\ threads' = threads \cup {Waiting(c, q, "query")}
             ELSE UNCHANGED threads
  /\ UNCHANGED <<tableVars, managerVars, locked, task, raced, failed, boots>>

(* The call of a thread ends, for its request if that still waits. *)
CallEnds(t) ==
  /\ t.job = "query" /\ Leaves(t)
  /\ query' = IF t.of \in Queries THEN [query EXCEPT ![t.of] = IdleQuery] ELSE query
  /\ UNCHANGED <<tableVars, managerVars, task, raced, failed, boots>>

(* Mutant: the lock is given up with the request. *)
LockAbandoned(q) == locked' = locked \ {query[q].client}

(* wait_for gives up.  A thread goes on without its request, and keeps     *)
(* what it holds or waits for.                                             *)
Abandoned(q) == UNCHANGED locked

TimedOut(q) ==
  /\ query[q].stage = "running" /\ query' = [query EXCEPT ![q] = IdleQuery]
  /\ threads' = {[t EXCEPT !.of = IF @ = q THEN NoOne ELSE @] : t \in threads}
  /\ Abandoned(q)
  /\ UNCHANGED <<tableVars, managerVars, task, raced, failed, boots>>

(* A query on an engine or an httpx client ends. *)
Answered(q) ==
  /\ query[q].stage = "running" /\ clients[query[q].client].kind \notin Threaded
  /\ query' = [query EXCEPT ![q] = IdleQuery]
  /\ UNCHANGED <<tableVars, managerVars, threadVars, task, raced, failed, boots>>

(* The process ends; initialize() adds what the table holds, or logs that  *)
(* it could not.                                                           *)
Boot ==
  /\ boots < MaxBoots /\ boots' = boots + 1
  /\ threads' = {} /\ locked' = {} /\ raced' = FALSE
  /\ task' = [a \in AdminTasks |-> IdleTask] /\ query' = [q \in Queries |-> IdleQuery]
  /\ \E up \in IF row = NoRow THEN {FALSE} ELSE BOOLEAN :
       /\ failed' = (row # NoRow /\ ~up)
       /\ clients' = IF up THEN <<[kind |-> row.kind, version |-> row.version, open |-> TRUE]>> ELSE <<>>
       /\ registry' = [k \in Kinds |-> IF up /\ k = row.kind THEN 1 ELSE None]
       /\ dbtype' = IF up THEN row.kind ELSE "unknown"
  /\ UNCHANGED tableVars

PoolsNext ==
  \/ \E a \in AdminTasks :
       \/ \E kind \in Kinds : Create(a, kind)
       \/ Update(a) \/ Delete(a) \/ Commits(a) \/ Refreshed(a) \/ Made(a) \/ Closes(a) \/ EraseRow(a)
  \/ \E t \in threads : TakesLock(t) \/ CloseEnds(t) \/ CallEnds(t)
  \/ \E q \in Queries : Validate(q) \/ Fetch(q) \/ TimedOut(q) \/ Answered(q)
  \/ Boot

PoolsSpec == PoolsInit /\ [][PoolsNext]_poolVars

-------------------------------------------------------------------------------
(* A clickhouse-connect client is called or closed by one thread at a      *)
(* time, also when requests give up on their calls and while the client is *)
(* replaced ("not safe for concurrent use", get_clickhouse_lock).          *)
CallsAreSerial ==
  \A t, u \in {x \in threads : x.at = "call" /\ clients[x.client].kind \in Serial} :
    t.client = u.client => t = u

(* A query runs on a database of the type its statement was checked for,   *)
(* whatever the admins do between the check and the call.                  *)
QueryRunsAsValidated ==
  \A q \in Queries : query[q].stage = "running" => clients[query[q].client].kind = query[q].kind

PoolsAreUsedSafely == CallsAreSerial /\ QueryRunsAsValidated

(* What is registered is open, and a type that is announced has a client,  *)
(* at every moment and under every race.                                   *)
RegisteredIsOpen ==
  /\ \A c \in Registered : clients[c].open
  /\ dbtype # "unknown" => registry[dbtype] # None

(* When admin requests that did not overlap are over, the client that is   *)
(* registered was made from the row as it is, there is no other, none is   *)
(* left open, and it is missing only if the last request could not make it. *)
SettledRegistry ==
  ~raced /\ (\A a \in AdminTasks : Idle(a)) =>
    /\ \A c \in Registered : <<clients[c].kind, clients[c].version>> = <<row.kind, row.version>>
    /\ Registered # {} => dbtype = row.kind
    /\ \A c \in DOMAIN clients : clients[c].open => c \in Registered
    /\ ~failed => (Registered = {} <=> row = NoRow)

RegistryIsTheTable == RegisteredIsOpen /\ SettledRegistry

(* Together: the client a query runs on is open, its own, and of its row. *)
ClientsAreSound == PoolsAreUsedSafely /\ RegistryIsTheTable
===============================================================================
