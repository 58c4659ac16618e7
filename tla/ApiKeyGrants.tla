----------------------------- MODULE ApiKeyGrants -----------------------------
(***************************************************************************)
(* API keys live in two stores: a row of api_key_access in the meta        *)
(* database says which routes a key may use, and APISIX enforces it with a *)
(* consumer (the key value) and a whitelist on every key-auth route.       *)
(* Nothing spans both stores: each request of routers/api_keys.py is a     *)
(* chain of single calls, interleaved with the other requests and with the *)
(* reconcile pass of services/consumer_restrictions.py, which reads the    *)
(* rows, then the routes, and PUTs whole route bodies back.                *)
(***************************************************************************)
EXTENDS Integers, FiniteSets

CONSTANTS
  AdminNames,   \* names of keys that administrators create: they never expire
  SelfNames,    \* consumer names derived from users: self-service keys
  Strangers,    \* consumers on the whitelists that the database never heard of
  Routes,       \* the key-auth routes
  Bare,         \* the routes provisioned without a consumer-restriction
  Implied,      \* IMPLIED_ROUTES: the routes that come with a route
  Grantable,    \* the grants an administrator may write
  SelfGrants,   \* SELF_ALLOWED_ROUTES
  Workers,      \* requests in progress at the same time
  Passes,       \* reconcile passes at the same time: boot replay and loop
  Offered,      \* the operations users call
  MaxRequests,  \* bound on requests
  MaxTrouble,   \* bound on failed APISIX calls and broken requests together
  MaxEdits,     \* bound on whitelists edited by hand
  LostReplies   \* a call that failed may have taken effect

Master == "*"
DenyAll == "__deny_all__"
Names == AdminNames \cup SelfNames

(* The operations, as the handlers below. *)
Ops == {"create", "create_my", "regenerate", "renew", "update", "limit", "rekey",
        "delete", "delete_my"}

ASSUME GrantsAssumption ==
  /\ AdminNames \cap SelfNames = {} /\ Names \cap Strangers = {}
  /\ DenyAll \notin Names \cup Strangers /\ Master \notin Routes
  /\ Bare \subseteq Routes /\ Implied \in [Routes -> SUBSET Routes]
  /\ Grantable \subseteq SUBSET (Routes \cup {Master})
  /\ SelfGrants \subseteq Routes /\ Offered \subseteq Ops
  /\ MaxRequests \in Nat /\ MaxTrouble \in Nat /\ MaxEdits \in Nat
  /\ LostReplies \in BOOLEAN

VARIABLES
  row,        \* api_key_access
  consumer,   \* the key value of each APISIX consumer
  whitelist,  \* consumer-restriction of each route
  task,       \* the requests in progress
  pass,       \* the reconcile passes
  used,       \* how much of each bound is used up
  (* History. *)
  held,       \* the key value each owner was last handed
  strangers,  \* who was put on which whitelist by hand while nobody wrote
  calm,       \* passes since whose start nobody else wrote and no PUT failed
  overlap     \* in which ways requests have been in progress side by side

vars == <<row, consumer, whitelist, task, pass, used, held, strangers, calm, overlap>>

NoKey == 0
NoRow == [id |-> 0, grants |-> {}, expired |-> FALSE]
Untouched == [r \in Routes |-> {}]
Free == [stage |-> "free", op |-> "none", name |-> DenyAll, id |-> 0, grants |-> {},
         key |-> NoKey, old |-> NoKey, view |-> Untouched, todo |-> {}, done |-> {}]
Resting == [stage |-> "free", known |-> [n \in Names |-> NoRow],
            view |-> Untouched, todo |-> {}]

Stages == {"free", "claim", "fetch", "provision", "list", "put", "undo", "unclaim", "cleanup",
           "restore", "finish", "revoke", "erase"}
Grants == SUBSET (Routes \cup {Master})
Whitelists == [Routes -> SUBSET (Names \cup Strangers \cup {DenyAll})]
Rows == [id : Nat, grants : Grants, expired : BOOLEAN]
Tasks == [stage : Stages, op : Ops \cup {"none"}, name : Names \cup {DenyAll}, id : Nat,
          grants : Grants, key : Nat, old : Nat, view : Whitelists,
          todo : SUBSET Routes, done : SUBSET Routes]

(* Provisioning: most key-auth routes ship at deny-all, the others bare. *)
Init ==
  /\ row = [n \in Names |-> NoRow]
  /\ consumer = [n \in Names |-> NoKey] /\ held = [n \in Names |-> NoKey]
  /\ whitelist = [r \in Routes |-> IF r \in Bare THEN {} ELSE {DenyAll}]
  /\ task = [w \in Workers |-> Free] /\ pass = [p \in Passes |-> Resting]
  /\ used = [requests |-> 0, faults |-> 0, breaks |-> 0, edits |-> 0]
  /\ strangers = Untouched /\ calm = {} /\ overlap = {}

-------------------------------------------------------------------------------
(* The answer of APISIX to a call: done, not done, or done and the reply   *)
(* lost (a timeout), which the caller cannot tell from not done.           *)
Answers == {"ok", "failed", "lost"}
Landed(answer) == answer # "failed"
Trouble == used.faults + used.breaks < MaxTrouble
Answered(answer) ==
  \/ answer = "ok" /\ UNCHANGED used
  \/ /\ answer = "failed" \/ (answer = "lost" /\ LostReplies)
     /\ Trouble
     /\ used' = [used EXCEPT !.faults = @ + 1]
Breaks == Trouble /\ used' = [used EXCEPT !.breaks = @ + 1]

(* expand_allowed_routes and grants_route. *)
GrantsRoute(grants, r) ==
  \/ Master \in grants \/ r \in grants
  \/ \E g \in grants \cap Routes : r \in Implied[g]

(* effective_allowed_routes, as a test on one route. *)
Honoured(entry, r) == ~entry.expired /\ GrantsRoute(entry.grants, r)

(* Mutant: the sentinel is forgotten. *)
OrAnybody(names) == names
(* APISIX reads an empty whitelist as "any consumer". *)
OrNobody(names) == IF names = {} THEN {DenyAll} ELSE names

(* What _sync_consumer_restriction writes for one route. *)
SyncBody(listed, name, grants, r) ==
  OrNobody(IF GrantsRoute(grants, r) THEN (listed \ {DenyAll}) \cup {name}
                                     ELSE listed \ {DenyAll, name})

Known(rows) == {n \in Names : rows[n] # NoRow}

(* Mutant: a pass only adds. *)
OnlyAdd(listed, rows, r) ==
  OrNobody((listed \ {DenyAll}) \cup {n \in Known(rows) : Honoured(rows[n], r)})

(* What reconcile_consumer_route_restrictions writes for one route. *)
PassBody(listed, rows, r) ==
  OrNobody(((listed \ {DenyAll}) \ Known(rows))
             \cup {n \in Known(rows) : Honoured(rows[n], r)})

-------------------------------------------------------------------------------
(* The requests.  A request is where its handler is:                       *)
(*   create      provision, list, put.., finish (insert the row)           *)
(*   create_my   claim (insert the row), provision, list, put.., finish    *)
(*   regenerate  provision, list, put.., finish (move expires_at)          *)
(*   renew       list, put.., finish (move expires_at)                     *)
(*   update      list, put.., finish (write the grants)                    *)
(*   limit       fetch, provision, finish: update with a rate limit only   *)
(*   rekey       fetch, provision, list, put.., finish: update with a new  *)
(*               key value and new grants                                  *)
(*   delete      list, put.., revoke (the consumer), erase (the row)       *)
(*   delete_my   the same                                                  *)
(***************************************************************************)
MyOps == {"create_my", "regenerate", "renew", "delete_my"}
NewKeyOps == {"create", "create_my", "regenerate", "rekey"}

(* Which requests get past their lookup of the row (404, 409). *)
Accepted(op, n) ==
  /\ n \in IF op \in MyOps THEN SelfNames
           ELSE IF op = "create" THEN AdminNames ELSE Names
  /\ (row[n] = NoRow) = (op \in {"create", "create_my"})

GrantsOf(op, n) ==
  IF op \in {"create", "update", "rekey"} THEN Grantable
  ELSE {CASE op = "create_my" -> SelfGrants
          [] op \in {"delete", "delete_my"} -> {}
          [] OTHER -> row[n].grants}

FirstStage(op, n) ==
  CASE op \in {"create", "regenerate"} -> "provision"
    [] op = "create_my" -> "claim"
    [] op \in {"limit", "rekey"} -> "fetch"
    [] op = "delete" /\ row[n].grants = {} -> "revoke"
    [] OTHER -> "list"

AfterSync(op) == IF op \in {"delete", "delete_my"} THEN "revoke" ELSE "finish"

(* Mutant: create leaves the consumer behind when its sync fails. *)
NoCleanup(op) ==
  CASE op = "create_my" -> "unclaim" [] op = "rekey" -> "restore" [] OTHER -> "free"

(* How a handler goes on when _sync_consumer_restriction has raised. *)
AfterFailure(op) ==
  CASE op = "create" -> "cleanup" [] op = "create_my" -> "unclaim"
    [] op = "rekey" -> "restore" [] OTHER -> "free"

GoTo(w, stage) ==
  task' = [task EXCEPT ![w] =
    IF stage = "free" THEN Free
    ELSE [@ EXCEPT !.stage = stage, !.view = Untouched, !.todo = {}, !.done = {}]]

At(w, stage) == task[w].stage = stage

Begin(w, op, n, grants) ==
  /\ At(w, "free")
  /\ used.requests < MaxRequests
  /\ used' = [used EXCEPT !.requests = @ + 1]
  /\ op \in Offered /\ Accepted(op, n) /\ grants \in GrantsOf(op, n)
  /\ task' = [task EXCEPT ![w] =
       [Free EXCEPT !.stage = FirstStage(op, n), !.op = op, !.name = n, !.grants = grants,
                    !.id = row[n].id,
                    !.key = IF op \in NewKeyOps THEN used.requests + 1 ELSE NoKey]]
  /\ UNCHANGED <<row, consumer, whitelist, pass, held, strangers>>

NewRow(w) == [id |-> task[w].key, grants |-> task[w].grants, expired |-> FALSE]

(* create_my_api_key inserts its row first; consumer_name is unique. *)
Claim(w) ==
  LET n == task[w].name IN
  /\ At(w, "claim")
  /\ IF row[n] = NoRow
       THEN /\ row' = [row EXCEPT ![n] = NewRow(w)]
            /\ task' = [task EXCEPT ![w] =
                          [@ EXCEPT !.stage = "provision", !.id = task[w].key]]
       ELSE UNCHANGED row /\ GoTo(w, "free")
  /\ UNCHANGED <<consumer, whitelist, pass, used, held, strangers>>

(* update_api_key reads the consumer, to keep what it does not change and  *)
(* to put it back.                                                         *)
Fetch(w, answer) ==
  LET found == answer = "ok" /\ consumer[task[w].name] # NoKey IN
  /\ At(w, "fetch")
  /\ Answered(answer)
  /\ task' = [task EXCEPT ![w] =
       IF ~found THEN Free
       ELSE [@ EXCEPT !.stage = "provision", !.old = consumer[task[w].name],
                      !.key = IF task[w].op = "limit" THEN consumer[task[w].name]
                             ELSE task[w].key]]
  /\ UNCHANGED <<row, consumer, whitelist, pass, held, strangers>>

Provision(w, answer) ==
  /\ At(w, "provision")
  /\ Answered(answer)
  /\ consumer' = IF Landed(answer) THEN [consumer EXCEPT ![task[w].name] = task[w].key]
                                   ELSE consumer
  /\ GoTo(w, IF answer = "ok" THEN IF task[w].op = "limit" THEN "finish" ELSE "list"
             ELSE IF task[w].op = "create_my" THEN "unclaim" ELSE "free")
  /\ UNCHANGED <<row, whitelist, pass, held, strangers>>

(* _sync_consumer_restriction: one listing, then one PUT for each route    *)
(* whose whitelist is to change, with the body that was listed.            *)
ListRoutes(w, answer) ==
  LET t == task[w]
      todo == {r \in Routes : SyncBody(whitelist[r], t.name, t.grants, r) # whitelist[r]} IN
  /\ At(w, "list")
  /\ Answered(answer)
  /\ CASE answer # "ok" -> GoTo(w, AfterFailure(t.op))
       [] answer = "ok" /\ todo = {} -> GoTo(w, AfterSync(t.op))
       [] OTHER -> task' = [task EXCEPT ![w] =
                     [@ EXCEPT !.stage = "put", !.view = whitelist, !.todo = todo]]
  /\ UNCHANGED <<row, consumer, whitelist, pass, held, strangers>>

PutRoute(w, r, answer) ==
  LET t == task[w] IN
  /\ At(w, "put") /\ r \in t.todo
  /\ Answered(answer)
  /\ whitelist' = IF Landed(answer)
       THEN [whitelist EXCEPT ![r] = SyncBody(t.view[r], t.name, t.grants, r)] ELSE whitelist
  /\ CASE answer = "ok" /\ t.todo = {r} -> GoTo(w, AfterSync(t.op))
       [] answer = "ok" /\ t.todo # {r} -> task' = [task EXCEPT ![w] =
                     [@ EXCEPT !.todo = t.todo \ {r}, !.done = t.done \cup {r}]]
       [] answer # "ok" /\ t.done = {} -> GoTo(w, AfterFailure(t.op))
       [] OTHER -> task' = [task EXCEPT ![w] = [@ EXCEPT !.stage = "undo", !.todo = {}]]
  /\ UNCHANGED <<row, consumer, pass, held, strangers>>

(* The bodies of the listing are put back, as far as that works. *)
UndoRoute(w, r, answer) ==
  LET t == task[w] IN
  /\ At(w, "undo") /\ r \in t.done
  /\ Answered(answer)
  /\ whitelist' = IF Landed(answer) THEN [whitelist EXCEPT ![r] = t.view[r]] ELSE whitelist
  /\ IF t.done = {r} THEN GoTo(w, AfterFailure(t.op))
     ELSE task' = [task EXCEPT ![w] = [@ EXCEPT !.done = t.done \ {r}]]
  /\ UNCHANGED <<row, consumer, pass, held, strangers>>

(* create_my_api_key gives its row up before it removes its consumer. *)
Unclaim(w) ==
  LET n == task[w].name IN
  /\ At(w, "unclaim")
  /\ row' = IF row[n].id = task[w].id THEN [row EXCEPT ![n] = NoRow] ELSE row
  /\ GoTo(w, "cleanup")
  /\ UNCHANGED <<consumer, whitelist, pass, used, held, strangers>>

(* What is attempted after a failed request: the consumer it created is    *)
(* removed, or the plugins it replaced are put back.                       *)
Repair(w, answer) ==
  LET t == task[w] IN
  /\ At(w, "cleanup") \/ At(w, "restore")
  /\ Answered(answer)
  /\ consumer' = IF Landed(answer)
       THEN [consumer EXCEPT ![t.name] = IF t.stage = "cleanup" THEN NoKey ELSE t.old]
       ELSE consumer
  /\ GoTo(w, "free")
  /\ UNCHANGED <<row, whitelist, pass, held, strangers>>

(* The commit at the end, and the answer.  An insert of a name that is     *)
(* taken, or an update of a row that is gone, is refused.                  *)
Finish(w) ==
  LET t == task[w]
      n == t.name
      taken == row[n] # NoRow
      mine == taken /\ row[n].id = t.id
      kept == CASE t.op = "create" -> ~taken [] OTHER -> mine IN
  /\ At(w, "finish")
  /\ row' = [row EXCEPT ![n] =
       CASE ~kept -> @
         [] kept /\ t.op = "create" -> NewRow(w)
         [] kept /\ t.op \in {"update", "rekey"} -> [@ EXCEPT !.grants = t.grants]
         [] kept /\ t.op \in {"renew", "regenerate"} -> [@ EXCEPT !.expired = FALSE]
         [] OTHER -> @]
  /\ held' = IF kept /\ t.op \in NewKeyOps THEN [held EXCEPT ![n] = t.key] ELSE held
  /\ GoTo(w, "free")
  /\ UNCHANGED <<consumer, whitelist, pass, used, strangers>>

(* delete_api_key and delete_my_api_key after their sync; a consumer that  *)
(* is already gone is as good as removed.                                  *)
Revoke(w, answer) ==
  /\ At(w, "revoke")
  /\ Answered(answer)
  /\ consumer' = IF Landed(answer) THEN [consumer EXCEPT ![task[w].name] = NoKey] ELSE consumer
  /\ GoTo(w, IF answer = "ok" THEN "erase" ELSE "free")
  /\ UNCHANGED <<row, whitelist, pass, held, strangers>>

Erase(w) ==
  LET n == task[w].name
      mine == row[n].id = task[w].id IN
  /\ At(w, "erase")
  /\ row' = IF mine THEN [row EXCEPT ![n] = NoRow] ELSE row
  /\ held' = IF mine THEN [held EXCEPT ![n] = NoKey] ELSE held
  /\ GoTo(w, "free")
  /\ UNCHANGED <<consumer, whitelist, pass, used, strangers>>

(* The process is killed, or the database fails the handler's commit:      *)
(* nothing cleans up.                                                      *)
Break(w) ==
  /\ ~At(w, "free")
  /\ Breaks
  /\ GoTo(w, "free")
  /\ UNCHANGED <<row, consumer, whitelist, pass, held, strangers>>

Handler(w) ==
  \/ Claim(w) \/ Unclaim(w) \/ Finish(w) \/ Erase(w)
  \/ \E answer \in Answers :
       \/ Fetch(w, answer) \/ Provision(w, answer) \/ ListRoutes(w, answer)
       \/ \E r \in Routes : PutRoute(w, r, answer) \/ UndoRoute(w, r, answer)
       \/ Repair(w, answer) \/ Revoke(w, answer)

-------------------------------------------------------------------------------
(* reconcile_consumer_route_restrictions, run at the boot of a color and   *)
(* by run_expiry_reconcile_loop.  Whether a row has expired is decided by  *)
(* the clock of its start.                                                 *)
Snapshot(p) ==
  /\ pass[p].stage = "free" /\ Known(row) # {}
  /\ pass' = [pass EXCEPT ![p] = [Resting EXCEPT !.stage = "list", !.known = row]]
  /\ calm' = calm \cup {p}
  /\ UNCHANGED <<row, consumer, whitelist, task, used, held, strangers, overlap>>

PassList(p, answer) ==
  LET todo == {r \in Routes : PassBody(whitelist[r], pass[p].known, r) # whitelist[r]} IN
  /\ pass[p].stage = "list"
  /\ Answered(answer)
  /\ pass' = [pass EXCEPT ![p] =
       IF answer # "ok" \/ todo = {} THEN Resting
       ELSE [@ EXCEPT !.stage = "put", !.view = whitelist, !.todo = todo]]
  /\ calm' = IF answer = "ok" THEN calm ELSE calm \ {p}
  /\ UNCHANGED <<row, consumer, whitelist, task, held, strangers, overlap>>

(* A route whose PUT fails is left to the next pass. *)
PassPut(p, r, answer) ==
  /\ pass[p].stage = "put" /\ r \in pass[p].todo
  /\ Answered(answer)
  /\ whitelist' = IF Landed(answer)
       THEN [whitelist EXCEPT ![r] = PassBody(pass[p].view[r], pass[p].known, r)]
       ELSE whitelist
  /\ pass' = [pass EXCEPT ![p] =
       IF @.todo = {r} THEN Resting ELSE [@ EXCEPT !.todo = pass[p].todo \ {r}]]
  /\ calm' = (IF whitelist' = whitelist THEN calm ELSE calm \cap {p})
               \ (IF answer = "ok" THEN {} ELSE {p})
  /\ UNCHANGED <<row, consumer, task, held, strangers, overlap>>

PassStep(p) ==
  \/ Snapshot(p)
  \/ \E answer \in Answers :
       PassList(p, answer) \/ \E r \in Routes : PassPut(p, r, answer)

-------------------------------------------------------------------------------
(* The 30 days of a self-service key are over. *)
Expire(n) ==
  /\ n \in SelfNames /\ row[n] # NoRow /\ ~row[n].expired
  /\ row' = [row EXCEPT ![n].expired = TRUE]
  /\ UNCHANGED <<consumer, whitelist, task, pass, used, held, strangers>>

Quiet == (\A w \in Workers : At(w, "free")) /\ (\A p \in Passes : pass[p].stage = "free")

(* An operator adds a consumer of their own to a whitelist, at any time; a *)
(* write in progress has read the whitelist before and may undo it.        *)
HandEdit(x, r) ==
  /\ x \notin whitelist[r]
  /\ used.edits < MaxEdits /\ used' = [used EXCEPT !.edits = @ + 1]
  /\ strangers' = IF Quiet THEN [strangers EXCEPT ![r] = @ \cup {x}] ELSE strangers
  /\ whitelist' = [whitelist EXCEPT ![r] = (@ \ {DenyAll}) \cup {x}]
  /\ UNCHANGED <<row, consumer, task, pass, held>>

Outside ==
  \/ \E w \in Workers, op \in Offered, n \in Names, grants \in Grants :
       Begin(w, op, n, grants)
  \/ \E w \in Workers : Break(w)
  \/ \E n \in Names : Expire(n)
  \/ \E x \in Strangers, r \in Routes : HandEdit(x, r)

(* Two requests side by side, and two for one key of which one changes or  *)
(* removes the key value of a consumer that is there.                      *)
Rekeying == {"create", "regenerate", "rekey", "delete", "delete_my"}
Meetings(tasks) ==
  LET Busy == {w \in Workers : tasks[w].stage # "free"} IN
  {kind \in {"any", "rekeying"} :
     \E w, v \in Busy :
       /\ w # v
       /\ kind = "any" \/ (tasks[w].name = tasks[v].name /\ tasks[w].op \in Rekeying)}

(* Whoever writes what a pass reads or writes ends its calm. *)
Recorded ==
  /\ calm' = IF row' = row /\ whitelist' = whitelist THEN calm ELSE {}
  /\ overlap' = overlap \cup Meetings(task')

Next ==
  \/ (Outside \/ \E w \in Workers : Handler(w)) /\ Recorded
  \/ \E p \in Passes : PassStep(p)

Spec == Init /\ [][Next]_vars

(* Handlers and passes run on; users, clocks and faults owe nothing. *)
FairSpec ==
  /\ Spec
  /\ \A w \in Workers : WF_vars(Handler(w) /\ Recorded)
  /\ \A p \in Passes : WF_vars(PassStep(p))

-------------------------------------------------------------------------------
(* The whitelists say of every key in the database what its row says. *)
Exact ==
  \A n \in Known(row), r \in Routes : (n \in whitelist[r]) = Honoured(row[n], r)

(* "Nobody" stays distinct from "anybody" (DENY_ALL_CONSUMER): the         *)
(* whitelist of a route that ships at deny-all is never empty, through     *)
(* every sync, rollback and pass; and no key in anyone's hands meets an    *)
(* open route, unless requests side by side put back each other's listing. *)
NeverOpen ==
  \A r \in Routes :
    whitelist[r] = {} =>
      r \in Bare /\ (overlap = {} => \A n \in Names : held[n] = NoKey)

(* Consumers the database never heard of stay where an operator put them   *)
(* between writes, whatever requests, rollbacks and passes do afterwards   *)
(* (README.md:387).                                                        *)
StrangersStay == \A r \in Routes : strangers[r] \subseteq whitelist[r]

(* Together: the whitelists neither open nor lose what is not theirs. *)
WhitelistsStaySafe == NeverOpen /\ StrangersStay

(* A pass that ran without anyone else writing and without a failed PUT    *)
(* leaves every known key with exactly its grants, expired keys with none. *)
PassIsExact ==
  [][\A p \in Passes :
       pass[p].stage # "free" /\ pass'[p].stage = "free" /\ p \in calm' => Exact']_vars

(* With one request at a time and at most one failed call in all, a        *)
(* request is all or nothing: afterwards each name has a row exactly when  *)
(* it has a consumer, and no whitelist names a key beyond its grants.      *)
NothingHalfDone ==
  overlap = {} /\ (\A w \in Workers : At(w, "free")) /\ used.faults <= 1 /\ used.breaks = 0 =>
    \A n \in Names :
      /\ (row[n] # NoRow) = (consumer[n] # NoKey)
      /\ \A r \in Routes : n \in whitelist[r] =>
           row[n] # NoRow /\ GrantsRoute(row[n].grants, r)

(* The key value its owner was last handed is the one APISIX accepts, once *)
(* no request for that name is in progress: among creations by one user,   *)
(* renewals, updates and limit changes that race, the creation that lost   *)
(* has not clobbered the consumer (create_my_api_key).                     *)
HandedOutKeyWorks ==
  "rekeying" \notin overlap /\ used.faults = 0 /\ used.breaks = 0 =>
    \A n \in Names :
      row[n] # NoRow /\ (\A w \in Workers : task[w].name # n) =>
        consumer[n] # NoKey /\ consumer[n] = held[n]

(* What a request leaves behind is whole: nothing half done by one request *)
(* that failed, and no key handed out that another request clobbered.      *)
RequestsAreWhole == NothingHalfDone /\ HandedOutKeyWorks

(* create_my_api_key: no row is left pointing at a consumer that is not    *)
(* there, whatever call fails, once no request for the name is in progress *)
(* (a process that is killed is left out).                                 *)
RowHasItsConsumer ==
  used.breaks = 0 =>
    \A n \in Names :
      row[n] # NoRow /\ (\A w \in Workers : task[w].name # n) => consumer[n] # NoKey

(* Once requests, expiries and faults have stopped, the whitelists become  *)
(* and stay what the database says (reconcile_consumer_route_restrictions, *)
(* run_expiry_reconcile_loop).                                             *)
WhitelistsConverge == <>[]Exact
===============================================================================
