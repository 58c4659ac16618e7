-------------------------- MODULE ApiKeyGrantsProofs --------------------------
(***************************************************************************)
(* The whitelists of ApiKeyGrants neither open nor lose what is not        *)
(* theirs, an undisturbed pass is exact, keys that were handed out work,   *)
(* and requests are whole: for any keys, routes, grants and requests at    *)
(* once, and, but for the last, any passes and lost answers.               *)
(***************************************************************************)
EXTENDS ApiKeyGrants, TLAPS

PassStages == [stage : {"free", "list", "put"}, known : [Names -> Rows], view : Whitelists,
               todo : SUBSET Routes]

GrantsTypeOK ==
  /\ row \in [Names -> Rows] /\ consumer \in [Names -> Nat] /\ held \in [Names -> Nat]
  /\ whitelist \in Whitelists /\ strangers \in [Routes -> SUBSET Strangers]
  /\ task \in [Workers -> Tasks] /\ pass \in [Passes -> PassStages]
  /\ used \in [requests : Nat, faults : Nat, breaks : Nat, edits : Nat]

Busy(w) == task[w].stage # "free"
NamesAreKnown == \A w \in Workers : Busy(w) => task[w].name \in Names

NobodyHolds == \A n \in Names : held[n] = NoKey

(* What a request has listed and may put back holds the strangers, and is  *)
(* closed where routes are shipped closed.                                 *)
ViewsAreGood ==
  \A w \in Workers : task[w].stage \in {"put", "undo"} =>
    \A r \in Routes : /\ strangers[r] \subseteq task[w].view[r]
                      /\ task[w].view[r] = {} => r \in Bare /\ (overlap = {} => NobodyHolds)

PassViewsAreGood ==
  \A p \in Passes : pass[p].stage = "put" =>
    \A r \in Routes : strangers[r] \subseteq pass[p].view[r]

(* One request at a time has, before it hands a key out, put something on  *)
(* every whitelist.                                                        *)
OneAtATime ==
  overlap = {} =>
    /\ \A w, v \in Workers : Busy(w) /\ Busy(v) => w = v
    /\ \A w \in Workers :
         /\ task[w].stage = "put" => \A r \in Routes \ task[w].todo : whitelist[r] # {}
         /\ task[w].stage = "finish" /\ task[w].op \in NewKeyOps =>
              \A r \in Routes : whitelist[r] # {}

GrantsInv ==
  /\ GrantsTypeOK /\ NamesAreKnown /\ ViewsAreGood /\ PassViewsAreGood /\ OneAtATime
  /\ WhitelistsStaySafe
-------------------------------------------------------------------------------
(* What is written.                                                        *)
LEMMA SyncIsClosed ==
  ASSUME NEW listed, NEW n \in Names, NEW grants, NEW r
  PROVE  /\ SyncBody(listed, n, grants, r) # {}
         /\ listed \cap Strangers \subseteq SyncBody(listed, n, grants, r)
         /\ listed \subseteq Names \cup Strangers \cup {DenyAll} =>
              SyncBody(listed, n, grants, r) \subseteq Names \cup Strangers \cup {DenyAll}
  BY GrantsAssumption DEF SyncBody, OrNobody

LEMMA PassIsClosed ==
  ASSUME NEW listed, NEW rows, NEW r
  PROVE  /\ PassBody(listed, rows, r) # {}
         /\ listed \cap Strangers \subseteq PassBody(listed, rows, r)
         /\ listed \subseteq Names \cup Strangers \cup {DenyAll} =>
              PassBody(listed, rows, r) \subseteq Names \cup Strangers \cup {DenyAll}
  BY GrantsAssumption DEF PassBody, OrNobody, Known

LEMMA FreeIsATask ==
  Free \in Tasks /\ Free.stage = "free" /\ Untouched \in Whitelists
  BY DEF Free, Tasks, Stages, Grants, Untouched, Whitelists, NoKey

LEMMA RestingIsAPass ==
  Resting \in PassStages /\ Resting.stage = "free"
  BY DEF Resting, PassStages, Untouched, Whitelists, NoRow, Rows, Grants

(* A request that goes to another stage keeps what it is about.            *)
LEMMA GoToIsATask ==
  ASSUME GrantsTypeOK, NEW w \in Workers, NEW stage \in Stages, GoTo(w, stage)
  PROVE  \E t \in Tasks : /\ task' = [task EXCEPT ![w] = t] /\ t.stage = stage
                          /\ stage # "free" => t.name = task[w].name /\ t.op = task[w].op
  <1>1. CASE stage = "free"
    BY <1>1, FreeIsATask DEF GoTo
  <1>2. CASE stage # "free"
    <2> PICK t \in Tasks : t = task[w]
      BY DEF GrantsTypeOK
    <2> DEFINE u == [t EXCEPT !.stage = stage, !.view = Untouched, !.todo = {}, !.done = {}]
    <2>1. u \in Tasks /\ u.stage = stage /\ u.name = t.name /\ u.op = t.op
      BY FreeIsATask DEF Tasks
    <2>2. task' = [task EXCEPT ![w] = u]
      BY <1>2 DEF GoTo
    <2> QED BY <2>1, <2>2
  <1> QED BY <1>1, <1>2

(* Two requests under way are side by side.                                *)
LEMMA MeetingsAreSeen ==
  ASSUME Recorded, overlap' = {}
  PROVE  /\ overlap = {}
         /\ \A w, v \in Workers : task'[w].stage # "free" /\ task'[v].stage # "free" => w = v
  <1>1. Meetings(task') = {} /\ overlap = {}
    BY DEF Recorded
  <1>2. "any" \notin Meetings(task')
    BY <1>1
  <1> QED BY <1>1, <1>2 DEF Meetings

LEMMA UsedKeeps ==
  ASSUME GrantsTypeOK, NEW answer,
         Answered(answer) \/ Breaks \/ used' = used
         \/ used' = [used EXCEPT !.requests = @ + 1] \/ used' = [used EXCEPT !.edits = @ + 1]
  PROVE  used' \in [requests : Nat, faults : Nat, breaks : Nat, edits : Nat]
  BY DEF GrantsTypeOK, Answered, Breaks

(* A request goes on, and the whitelists stay as they are.                 *)
LEMMA OneTaskMoves ==
  ASSUME GrantsInv, Recorded, NEW w \in Workers, NEW t \in Tasks,
         task' = [task EXCEPT ![w] = t],
         UNCHANGED <<whitelist, pass, held, strangers>>,
         row' \in [Names -> Rows], consumer' \in [Names -> Nat],
         used' \in [requests : Nat, faults : Nat, breaks : Nat, edits : Nat],
         t.stage # "free" => t.name \in Names,
         t.stage # "undo",
         t.stage = "put" =>
           t.view = whitelist /\ \A r \in Routes \ t.todo : whitelist[r] # {},
         t.stage = "finish" /\ t.op \in NewKeyOps =>
           (overlap = {} => \A r \in Routes : whitelist[r] # {})
  PROVE  GrantsInv'
  <1> USE DEF GrantsInv
  <1>1. \A v \in Workers : task'[v] = IF v = w THEN t ELSE task[v]
    BY DEF GrantsTypeOK
  <1>2. GrantsTypeOK'
    BY DEF GrantsTypeOK
  <1>3. NamesAreKnown'
    BY <1>1 DEF NamesAreKnown, Busy
  <1>4. overlap \subseteq overlap'
    BY DEF Recorded
  <1>5. WhitelistsStaySafe'
    BY <1>4 DEF WhitelistsStaySafe, NeverOpen, StrangersStay
  <1>6. ViewsAreGood'
    <2>1. t.stage = "put" =>
            \A r \in Routes : /\ strangers[r] \subseteq t.view[r]
                              /\ t.view[r] = {} => r \in Bare /\ (overlap = {} => NobodyHolds)
      BY DEF WhitelistsStaySafe, NeverOpen, StrangersStay, NobodyHolds
    <2>2. NobodyHolds' <=> NobodyHolds
      BY DEF NobodyHolds
    <2> QED BY <1>1, <1>4, <2>1, <2>2 DEF ViewsAreGood
  <1>7. PassViewsAreGood'
    BY DEF PassViewsAreGood
  <1>8. OneAtATime'
    <2> SUFFICES ASSUME overlap' = {} PROVE OneAtATime'
      BY DEF OneAtATime
    <2>1. overlap = {} /\ \A v, x \in Workers : task'[v].stage # "free" /\ task'[x].stage # "free" => v = x
      BY MeetingsAreSeen
    <2> QED BY <1>1, <2>1 DEF OneAtATime, Busy
  <1> QED BY <1>2, <1>3, <1>5, <1>6, <1>7, <1>8
-------------------------------------------------------------------------------
(* The steps of a request.                                                 *)
LEMMA StagesOfARequest ==
  /\ \A op, n : FirstStage(op, n) \in {"provision", "claim", "fetch", "revoke", "list"}
  /\ \A op : AfterSync(op) \in {"revoke", "finish"}
  /\ \A op : AfterFailure(op) \in {"cleanup", "unclaim", "restore", "free"}
  /\ {"provision", "claim", "fetch", "revoke", "list", "finish", "cleanup", "unclaim", "restore",
      "free", "put", "undo", "erase"} \subseteq Stages
  BY DEF FirstStage, AfterSync, AfterFailure, Stages

LEMMA BeginKeeps ==
  ASSUME GrantsInv, Recorded, NEW w \in Workers, NEW op \in Offered, NEW n \in Names,
         NEW grants \in Grants, Begin(w, op, n, grants)
  PROVE  GrantsInv'
  <1>1. row[n] \in Rows /\ row[n].id \in Nat /\ used.requests + 1 \in Nat
    BY DEF GrantsInv, GrantsTypeOK, Rows
  <1> PICK id \in Nat : id = row[n].id
    BY <1>1
  <1> PICK key \in Nat : key = IF op \in NewKeyOps THEN used.requests + 1 ELSE NoKey
    BY <1>1 DEF NoKey
  <1> PICK stage \in {"provision", "claim", "fetch", "revoke", "list"} : stage = FirstStage(op, n)
    BY StagesOfARequest
  <1> PICK free \in Tasks : free = Free
    BY FreeIsATask
  <1> DEFINE t == [free EXCEPT !.stage = stage, !.op = op, !.name = n, !.grants = grants,
                               !.id = id, !.key = key]
  <1>2. op \in Ops
    BY GrantsAssumption
  <1>4. t \in Tasks /\ t.stage = stage /\ t.name = n
    BY <1>2, StagesOfARequest DEF Tasks
  <1>5. task' = [task EXCEPT ![w] = t] /\ UNCHANGED <<row, consumer, whitelist, pass, held, strangers>>
        /\ used' = [used EXCEPT !.requests = @ + 1]
    BY DEF Begin
  <1>6. used' \in [requests : Nat, faults : Nat, breaks : Nat, edits : Nat]
    BY <1>5, UsedKeeps DEF GrantsInv
  <1> QED BY <1>4, <1>5, <1>6, OneTaskMoves DEF GrantsInv, GrantsTypeOK

(* A step that only sends the request on, and not out with a new key.      *)
LEMMA GoToKeeps ==
  ASSUME GrantsInv, Recorded, NEW w \in Workers, NEW stage \in Stages \ {"put", "undo"},
         Busy(w), GoTo(w, stage), UNCHANGED <<whitelist, pass, held, strangers>>,
         row' \in [Names -> Rows], consumer' \in [Names -> Nat],
         used' \in [requests : Nat, faults : Nat, breaks : Nat, edits : Nat],
         stage = "finish" /\ task[w].op \in NewKeyOps =>
           (overlap = {} => \A r \in Routes : whitelist[r] # {})
  PROVE  GrantsInv'
  <1>1. PICK t \in Tasks : /\ task' = [task EXCEPT ![w] = t] /\ t.stage = stage
                           /\ stage # "free" => t.name = task[w].name /\ t.op = task[w].op
    BY GoToIsATask DEF GrantsInv
  <1>2. task[w].name \in Names
    BY DEF GrantsInv, NamesAreKnown
  <1> QED BY <1>1, <1>2, OneTaskMoves

LEMMA ClaimKeeps ==
  ASSUME GrantsInv, Recorded, NEW w \in Workers, Claim(w)
  PROVE  GrantsInv'
  <1> PICK t \in Tasks : t = task[w]
    BY DEF GrantsInv, GrantsTypeOK
  <1> DEFINE n == t.name
  <1>1. t.stage = "claim" /\ n \in Names /\ Busy(w)
    BY DEF Claim, At, GrantsInv, NamesAreKnown, Busy
  <1>2. /\ UNCHANGED <<consumer, whitelist, pass, used, held, strangers>>
        /\ row \in [Names -> Rows] /\ consumer' \in [Names -> Nat]
        /\ used' \in [requests : Nat, faults : Nat, breaks : Nat, edits : Nat]
    BY DEF Claim, GrantsInv, GrantsTypeOK
  <1>3. CASE row[n] = NoRow
    <2> DEFINE u == [t EXCEPT !.stage = "provision", !.id = t.key]
    <2>1. u \in Tasks /\ u.stage = "provision" /\ u.name = n
      BY StagesOfARequest DEF Tasks
    <2>2. task' = [task EXCEPT ![w] = u] /\ row' = [row EXCEPT ![n] = NewRow(w)]
      BY <1>3 DEF Claim
    <2>3. NewRow(w) \in Rows
      BY DEF NewRow, Rows, Tasks
    <2>4. row' \in [Names -> Rows]
      BY <1>1, <1>2, <2>2, <2>3
    <2> QED BY <1>1, <1>2, <2>1, <2>2, <2>4, OneTaskMoves
  <1>4. CASE row[n] # NoRow
    BY <1>1, <1>2, <1>4, GoToKeeps, StagesOfARequest DEF Claim
  <1> QED BY <1>3, <1>4

LEMMA FetchKeeps ==
  ASSUME GrantsInv, Recorded, NEW w \in Workers, NEW answer, Fetch(w, answer)
  PROVE  GrantsInv'
  <1> PICK t \in Tasks : t = task[w]
    BY DEF GrantsInv, GrantsTypeOK
  <1>1. t.stage = "fetch" /\ t.name \in Names
    BY DEF Fetch, At, GrantsInv, NamesAreKnown, Busy
  <1> PICK value \in Nat : value = consumer[t.name]
    BY <1>1 DEF GrantsInv, GrantsTypeOK
  <1>2. /\ UNCHANGED <<row, consumer, whitelist, pass, held, strangers>>
        /\ row' \in [Names -> Rows] /\ consumer' \in [Names -> Nat]
        /\ used' \in [requests : Nat, faults : Nat, breaks : Nat, edits : Nat]
    BY UsedKeeps DEF Fetch, GrantsInv, GrantsTypeOK
  <1> PICK key \in Nat : key = IF t.op = "limit" THEN value ELSE t.key
    BY DEF Tasks
  <1> DEFINE u == [t EXCEPT !.stage = "provision", !.old = value, !.key = key]
  <1>3. task' = [task EXCEPT ![w] = Free] \/ task' = [task EXCEPT ![w] = u]
    <2>1. CASE answer = "ok" /\ value # NoKey /\ t.op = "limit"
      <3>1. task' = [task EXCEPT ![w] = [t EXCEPT !.stage = "provision", !.old = value, !.key = value]]
        BY <2>1 DEF Fetch
      <3> QED BY <2>1, <3>1
    <2>2. CASE answer = "ok" /\ value # NoKey /\ t.op # "limit"
      <3>1. task' = [task EXCEPT ![w] = [t EXCEPT !.stage = "provision", !.old = value, !.key = t.key]]
        BY <2>2 DEF Fetch
      <3> QED BY <2>2, <3>1
    <2>3. CASE ~(answer = "ok" /\ value # NoKey)
      BY <2>3 DEF Fetch
    <2> QED BY <2>1, <2>2, <2>3
  <1>4. u \in Tasks /\ u.stage = "provision" /\ u.name = t.name
    BY StagesOfARequest DEF Tasks
  <1> QED BY <1>1, <1>2, <1>3, <1>4, FreeIsATask, OneTaskMoves

LEMMA ProvisionKeeps ==
  ASSUME GrantsInv, Recorded, NEW w \in Workers, NEW answer, Provision(w, answer)
  PROVE  GrantsInv'
  <1> PICK t \in Tasks : t = task[w]
    BY DEF GrantsInv, GrantsTypeOK
  <1>1. t.stage = "provision" /\ t.name \in Names /\ Busy(w)
    BY DEF Provision, At, GrantsInv, NamesAreKnown, Busy
  <1>2. /\ UNCHANGED <<row, whitelist, pass, held, strangers>>
        /\ row' \in [Names -> Rows] /\ consumer' \in [Names -> Nat]
        /\ used' \in [requests : Nat, faults : Nat, breaks : Nat, edits : Nat]
    BY <1>1, UsedKeeps DEF Provision, GrantsInv, GrantsTypeOK, Tasks
  <1>3. PICK stage \in {"finish", "list", "unclaim", "free"} :
          GoTo(w, stage) /\ (stage = "finish" => t.op = "limit")
    BY DEF Provision
  <1>4. "limit" \notin NewKeyOps
    BY DEF NewKeyOps
  <1> QED BY <1>1, <1>2, <1>3, <1>4, GoToKeeps, StagesOfARequest

LEMMA ListRoutesKeeps ==
  ASSUME GrantsInv, Recorded, NEW w \in Workers, NEW answer, ListRoutes(w, answer)
  PROVE  GrantsInv'
  <1> PICK t \in Tasks : t = task[w]
    BY DEF GrantsInv, GrantsTypeOK
  <1>1. t.stage = "list" /\ t.name \in Names /\ Busy(w)
    BY DEF ListRoutes, At, GrantsInv, NamesAreKnown, Busy
  <1>2. /\ UNCHANGED <<row, consumer, whitelist, pass, held, strangers>>
        /\ row' \in [Names -> Rows] /\ consumer' \in [Names -> Nat] /\ whitelist \in Whitelists
        /\ used' \in [requests : Nat, faults : Nat, breaks : Nat, edits : Nat]
    BY UsedKeeps DEF ListRoutes, GrantsInv, GrantsTypeOK
  <1> PICK todo \in SUBSET Routes :
        todo = {r \in Routes : SyncBody(whitelist[r], t.name, t.grants, r) # whitelist[r]}
    OBVIOUS
  <1>3. \A r \in Routes \ todo : whitelist[r] # {}
    BY <1>1, SyncIsClosed
  <1> DEFINE u == [t EXCEPT !.stage = "put", !.view = whitelist, !.todo = todo]
  <1>4. \/ GoTo(w, AfterFailure(t.op))
        \/ todo = {} /\ GoTo(w, AfterSync(t.op))
        \/ task' = [task EXCEPT ![w] = u]
    BY DEF ListRoutes
  <1>5. CASE GoTo(w, AfterFailure(t.op)) \/ (todo = {} /\ GoTo(w, AfterSync(t.op)))
    BY <1>1, <1>2, <1>3, <1>5, GoToKeeps, StagesOfARequest
  <1>6. CASE task' = [task EXCEPT ![w] = u]
    <2>1. u \in Tasks /\ u.stage = "put" /\ u.name = t.name /\ u.view = whitelist /\ u.todo = todo
      BY <1>2, StagesOfARequest DEF Tasks
    <2> QED BY <1>1, <1>2, <1>3, <1>6, <2>1, OneTaskMoves
  <1> QED BY <1>4, <1>5, <1>6

LEMMA UnclaimKeeps ==
  ASSUME GrantsInv, Recorded, NEW w \in Workers, Unclaim(w)
  PROVE  GrantsInv'
  <1>1. Busy(w) /\ GoTo(w, "cleanup") /\ UNCHANGED <<consumer, whitelist, pass, used, held, strangers>>
    BY DEF Unclaim, At, Busy
  <1>2. row' \in [Names -> Rows]
    BY RestingIsAPass DEF Unclaim, GrantsInv, GrantsTypeOK, NoRow, Rows, Grants
  <1> QED BY <1>1, <1>2, GoToKeeps, StagesOfARequest DEF GrantsInv, GrantsTypeOK

LEMMA RepairKeeps ==
  ASSUME GrantsInv, Recorded, NEW w \in Workers, NEW answer, Repair(w, answer)
  PROVE  GrantsInv'
  <1> PICK t \in Tasks : t = task[w]
    BY DEF GrantsInv, GrantsTypeOK
  <1>1. Busy(w) /\ GoTo(w, "free") /\ UNCHANGED <<row, whitelist, pass, held, strangers>>
    BY DEF Repair, At, Busy
  <1>2. consumer' \in [Names -> Nat]
    BY DEF Repair, GrantsInv, GrantsTypeOK, Tasks, NoKey
  <1>3. used' \in [requests : Nat, faults : Nat, breaks : Nat, edits : Nat]
    BY UsedKeeps DEF Repair, GrantsInv
  <1> QED BY <1>1, <1>2, <1>3, GoToKeeps, StagesOfARequest DEF GrantsInv, GrantsTypeOK

LEMMA RevokeKeeps ==
  ASSUME GrantsInv, Recorded, NEW w \in Workers, NEW answer, Revoke(w, answer)
  PROVE  GrantsInv'
  <1>1. PICK stage \in {"erase", "free"} :
          Busy(w) /\ GoTo(w, stage) /\ UNCHANGED <<row, whitelist, pass, held, strangers>>
    BY DEF Revoke, At, Busy
  <1>2. consumer' \in [Names -> Nat]
    BY DEF Revoke, GrantsInv, GrantsTypeOK, NoKey
  <1>3. used' \in [requests : Nat, faults : Nat, breaks : Nat, edits : Nat]
    BY UsedKeeps DEF Revoke, GrantsInv
  <1> QED BY <1>1, <1>2, <1>3, GoToKeeps, StagesOfARequest DEF GrantsInv, GrantsTypeOK

LEMMA BreakKeeps ==
  ASSUME GrantsInv, Recorded, NEW w \in Workers, Break(w)
  PROVE  GrantsInv'
  <1>1. Busy(w) /\ GoTo(w, "free") /\ UNCHANGED <<row, consumer, whitelist, pass, held, strangers>>
    BY DEF Break, At, Busy
  <1>2. used' \in [requests : Nat, faults : Nat, breaks : Nat, edits : Nat]
    BY UsedKeeps DEF Break, GrantsInv
  <1> QED BY <1>1, <1>2, GoToKeeps, StagesOfARequest DEF GrantsInv, GrantsTypeOK

(* A request that ends has put something on every whitelist before it hands *)
(* a key out; so nobody meets an open route.                                *)
LEMMA FinishKeeps ==
  ASSUME GrantsInv, Recorded, NEW w \in Workers, Finish(w)
  PROVE  GrantsInv'
  <1> USE DEF GrantsInv
  <1> PICK t \in Tasks : t = task[w]
    BY DEF GrantsTypeOK
  <1> DEFINE n == t.name
  <1>1. t.stage = "finish" /\ n \in Names /\ Busy(w) /\ GoTo(w, "free")
        /\ UNCHANGED <<consumer, whitelist, pass, used, strangers>>
    BY DEF Finish, At, NamesAreKnown, Busy
  <1>2. row' \in [Names -> Rows]
    <2>1. NewRow(w) \in Rows
      BY DEF NewRow, Rows, Tasks
    <2>2. PICK entry \in Rows : entry = row[n]
      BY <1>1 DEF GrantsTypeOK
    <2>3. [entry EXCEPT !.grants = t.grants] \in Rows /\ [entry EXCEPT !.expired = FALSE] \in Rows
      BY DEF Rows, Tasks
    <2>4. row' = [row EXCEPT ![n] = entry] \/ row' = [row EXCEPT ![n] = NewRow(w)]
          \/ row' = [row EXCEPT ![n] = [entry EXCEPT !.grants = t.grants]]
          \/ row' = [row EXCEPT ![n] = [entry EXCEPT !.expired = FALSE]]
      BY <2>2 DEF Finish
    <2> QED BY <1>1, <2>1, <2>2, <2>3, <2>4 DEF GrantsTypeOK
  <1>3. PICK u \in Tasks : task' = [task EXCEPT ![w] = u] /\ u.stage = "free"
    BY <1>1, StagesOfARequest, GoToIsATask
  <1>4. \A v \in Workers : task'[v] = IF v = w THEN u ELSE task[v]
    BY <1>3 DEF GrantsTypeOK
  <1>5. /\ \/ held' = held
           \/ t.op \in NewKeyOps /\ held' = [held EXCEPT ![n] = t.key]
        /\ held' \in [Names -> Nat]
    BY <1>1 DEF Finish, GrantsTypeOK, Tasks
  <1>6. GrantsTypeOK'
    BY <1>1, <1>2, <1>3, <1>5 DEF GrantsTypeOK
  <1>7. NamesAreKnown' /\ PassViewsAreGood' /\ StrangersStay'
    BY <1>1, <1>3, <1>4 DEF NamesAreKnown, Busy, PassViewsAreGood, WhitelistsStaySafe, StrangersStay
  <1>8. CASE overlap' = {}
    <2>1. overlap = {} /\ \A v, x \in Workers : task'[v].stage # "free" /\ task'[x].stage # "free" => v = x
      BY <1>8, MeetingsAreSeen
    <2>2. \A v \in Workers : v # w => task[v].stage = "free"
      BY <1>1, <2>1 DEF OneAtATime, Busy
    <2>3. \A v \in Workers : task'[v].stage = "free"
      BY <1>3, <1>4, <2>2
    <2>4. ViewsAreGood' /\ OneAtATime'
      BY <2>3 DEF ViewsAreGood, OneAtATime, Busy
    <2>5. NeverOpen'
      <3> SUFFICES ASSUME NEW r \in Routes, whitelist[r] = {}
                   PROVE  r \in Bare /\ \A m \in Names : held'[m] = NoKey
        BY <1>1 DEF NeverOpen
      <3>1. r \in Bare /\ \A m \in Names : held[m] = NoKey
        BY <2>1 DEF WhitelistsStaySafe, NeverOpen
      <3>2. t.op \notin NewKeyOps
        BY <1>1, <2>1 DEF OneAtATime
      <3> QED BY <1>5, <3>1, <3>2
    <2> QED BY <1>6, <1>7, <2>4, <2>5 DEF WhitelistsStaySafe
  <1>9. CASE overlap' # {}
    <2>1. ViewsAreGood' /\ OneAtATime'
      BY <1>1, <1>3, <1>4, <1>9 DEF ViewsAreGood, OneAtATime
    <2>2. NeverOpen'
      BY <1>1, <1>9 DEF WhitelistsStaySafe, NeverOpen
    <2> QED BY <1>6, <1>7, <2>1, <2>2 DEF WhitelistsStaySafe
  <1> QED BY <1>8, <1>9

LEMMA EraseKeeps ==
  ASSUME GrantsInv, Recorded, NEW w \in Workers, Erase(w)
  PROVE  GrantsInv'
  <1> USE DEF GrantsInv
  <1> PICK t \in Tasks : t = task[w]
    BY DEF GrantsTypeOK
  <1>1. t.name \in Names /\ Busy(w) /\ GoTo(w, "free")
        /\ UNCHANGED <<consumer, whitelist, pass, used, strangers>>
    BY DEF Erase, At, NamesAreKnown, Busy
  <1>2. row' \in [Names -> Rows] /\ held' \in [Names -> Nat]
    BY DEF Erase, GrantsTypeOK, NoKey, NoRow, Rows, Grants
  <1>3. PICK u \in Tasks : task' = [task EXCEPT ![w] = u] /\ u.stage = "free"
    BY <1>1, StagesOfARequest, GoToIsATask
  <1>4. \A v \in Workers : task'[v] = IF v = w THEN u ELSE task[v]
    BY <1>3 DEF GrantsTypeOK
  <1>5. GrantsTypeOK'
    BY <1>1, <1>2, <1>3 DEF GrantsTypeOK
  <1>6. NamesAreKnown' /\ PassViewsAreGood' /\ StrangersStay'
    BY <1>1, <1>3, <1>4 DEF NamesAreKnown, Busy, PassViewsAreGood, WhitelistsStaySafe, StrangersStay
  <1>7. NobodyHolds => NobodyHolds'
    BY <1>1 DEF NobodyHolds, Erase, GrantsTypeOK
  <1>8. overlap \subseteq overlap'
    BY DEF Recorded
  <1>9. ViewsAreGood'
    BY <1>1, <1>3, <1>4, <1>7, <1>8 DEF ViewsAreGood
  <1>10. NeverOpen'
    BY <1>1, <1>7, <1>8 DEF WhitelistsStaySafe, NeverOpen, NobodyHolds
  <1>11. OneAtATime'
    <2> SUFFICES ASSUME overlap' = {} PROVE OneAtATime'
      BY DEF OneAtATime
    <2>1. overlap = {} /\ \A v, x \in Workers : task'[v].stage # "free" /\ task'[x].stage # "free" => v = x
      BY MeetingsAreSeen
    <2> QED BY <1>1, <1>3, <1>4, <2>1 DEF OneAtATime, Busy
  <1> QED BY <1>5, <1>6, <1>9, <1>10, <1>11 DEF WhitelistsStaySafe

-------------------------------------------------------------------------------
(* A request writes one whitelist and goes on.                             *)
LEMMA OneRouteWritten ==
  ASSUME GrantsInv, Recorded, NEW w \in Workers, NEW t \in Tasks, NEW r \in Routes,
         NEW listed \in SUBSET (Names \cup Strangers \cup {DenyAll}),
         Busy(w), task' = [task EXCEPT ![w] = t],
         whitelist' = [whitelist EXCEPT ![r] = listed],
         UNCHANGED <<row, consumer, pass, held, strangers>>,
         used' \in [requests : Nat, faults : Nat, breaks : Nat, edits : Nat],
         t.stage # "free" => t.name \in Names,
         strangers[r] \subseteq listed,
         listed = {} => r \in Bare /\ (overlap = {} => NobodyHolds),
         t.stage \in {"put", "undo"} =>
           task[w].stage \in {"put", "undo"} /\ t.view = task[w].view,
         t.stage \in {"put", "finish"} /\ overlap = {} =>
           listed # {} /\ (t.stage = "finish" => \A x \in Routes \ {r} : whitelist[x] # {}),
         t.stage = "put" => task[w].stage = "put" /\ task[w].todo \ {r} \subseteq t.todo
  PROVE  GrantsInv'
  <1> USE DEF GrantsInv
  <1>1. \A v \in Workers : task'[v] = IF v = w THEN t ELSE task[v]
    BY DEF GrantsTypeOK
  <1>2. \A x \in Routes : whitelist'[x] = IF x = r THEN listed ELSE whitelist[x]
    BY DEF GrantsTypeOK, Whitelists
  <1>3. GrantsTypeOK'
    BY DEF GrantsTypeOK, Whitelists
  <1>4. overlap \subseteq overlap' /\ (NobodyHolds' <=> NobodyHolds)
    BY DEF Recorded, NobodyHolds
  <1>5. NamesAreKnown' /\ PassViewsAreGood'
    BY <1>1 DEF NamesAreKnown, Busy, PassViewsAreGood
  <1>6. StrangersStay' /\ NeverOpen'
    BY <1>2, <1>4 DEF WhitelistsStaySafe, StrangersStay, NeverOpen, NobodyHolds
  <1>7. ViewsAreGood'
    BY <1>1, <1>4 DEF ViewsAreGood
  <1>8. OneAtATime'
    <2> SUFFICES ASSUME overlap' = {} PROVE OneAtATime'
      BY DEF OneAtATime
    <2>1. overlap = {} /\ \A v, x \in Workers : task'[v].stage # "free" /\ task'[x].stage # "free" => v = x
      BY MeetingsAreSeen
    <2>2. \A v \in Workers : v # w => task'[v].stage = "free"
      BY <1>1, <2>1 DEF OneAtATime, Busy
    <2>3. t.stage = "put" => \A x \in Routes \ t.todo : whitelist'[x] # {}
      BY <1>2, <2>1 DEF OneAtATime
    <2>4. t.stage = "finish" => \A x \in Routes : whitelist'[x] # {}
      BY <1>2, <2>1
    <2> QED BY <1>1, <2>1, <2>2, <2>3, <2>4 DEF OneAtATime, Busy
  <1> QED BY <1>3, <1>5, <1>6, <1>7, <1>8 DEF WhitelistsStaySafe

LEMMA PutRouteKeeps ==
  ASSUME GrantsInv, Recorded, NEW w \in Workers, NEW r \in Routes, NEW answer, PutRoute(w, r, answer)
  PROVE  GrantsInv'
  <1> USE DEF GrantsInv
  <1> PICK t \in Tasks : t = task[w]
    BY DEF GrantsTypeOK
  <1>1. t.stage = "put" /\ r \in t.todo /\ t.name \in Names /\ Busy(w)
    BY DEF PutRoute, At, NamesAreKnown, Busy
  <1>2. /\ UNCHANGED <<row, consumer, pass, held, strangers>>
        /\ used' \in [requests : Nat, faults : Nat, breaks : Nat, edits : Nat]
    BY UsedKeeps DEF PutRoute
  <1>3. t.view[r] \in SUBSET (Names \cup Strangers \cup {DenyAll})
        /\ whitelist[r] \in SUBSET (Names \cup Strangers \cup {DenyAll})
        /\ strangers[r] \subseteq t.view[r] /\ strangers[r] \subseteq Strangers
        /\ strangers[r] \subseteq whitelist[r]
    BY <1>1 DEF GrantsTypeOK, Tasks, Whitelists, ViewsAreGood, WhitelistsStaySafe, StrangersStay
  <1> PICK body : body = SyncBody(t.view[r], t.name, t.grants, r)
    OBVIOUS
  <1>4. /\ body # {} /\ strangers[r] \subseteq body
        /\ body \in SUBSET (Names \cup Strangers \cup {DenyAll})
    BY <1>1, <1>3, SyncIsClosed
  <1>5. PICK listed \in SUBSET (Names \cup Strangers \cup {DenyAll}) :
          /\ listed = body \/ (answer # "ok" /\ listed = whitelist[r])
          /\ whitelist' = [whitelist EXCEPT ![r] = listed]
    <2>1. CASE Landed(answer)
      BY <1>4, <2>1 DEF PutRoute
    <2>2. CASE ~Landed(answer)
      <3>1. whitelist' = whitelist /\ answer # "ok"
        BY <2>2 DEF PutRoute, Landed
      <3>2. whitelist = [whitelist EXCEPT ![r] = whitelist[r]]
        BY DEF GrantsTypeOK, Whitelists
      <3> QED BY <1>3, <3>1, <3>2
    <2> QED BY <2>1, <2>2
  <1>6. strangers[r] \subseteq listed /\ (listed = {} => r \in Bare /\ (overlap = {} => NobodyHolds))
    BY <1>3, <1>4, <1>5 DEF WhitelistsStaySafe, NeverOpen, NobodyHolds
  <1>7. CASE answer = "ok" /\ t.todo = {r}
    <2>1. PICK stage \in {"revoke", "finish"} : GoTo(w, stage)
      BY <1>7, StagesOfARequest DEF PutRoute
    <2>2. PICK u \in Tasks : /\ task' = [task EXCEPT ![w] = u] /\ u.stage = stage /\ u.name = t.name
      BY <2>1, StagesOfARequest, GoToIsATask
    <2>3. overlap = {} => \A x \in Routes \ {r} : whitelist[x] # {}
      BY <1>1, <1>7 DEF OneAtATime
    <2> QED BY <1>1, <1>2, <1>4, <1>5, <1>6, <1>7, <2>2, <2>3, OneRouteWritten
  <1>8. CASE answer = "ok" /\ t.todo # {r}
    <2> DEFINE u == [t EXCEPT !.todo = t.todo \ {r}, !.done = t.done \cup {r}]
    <2>1. task' = [task EXCEPT ![w] = u]
      BY <1>8 DEF PutRoute
    <2>2. u \in Tasks /\ u.stage = "put" /\ u.name = t.name /\ u.view = t.view /\ u.todo = t.todo \ {r}
      BY <1>1 DEF Tasks
    <2> QED BY <1>1, <1>2, <1>4, <1>5, <1>6, <1>8, <2>1, <2>2, OneRouteWritten
  <1>9. CASE answer # "ok" /\ t.done = {}
    <2>1. PICK stage \in {"cleanup", "unclaim", "restore", "free"} : GoTo(w, stage)
      BY <1>9, StagesOfARequest DEF PutRoute
    <2>2. PICK u \in Tasks : /\ task' = [task EXCEPT ![w] = u] /\ u.stage = stage
                             /\ stage # "free" => u.name = t.name
      BY <2>1, StagesOfARequest, GoToIsATask
    <2> QED BY <1>1, <1>2, <1>5, <1>6, <2>2, OneRouteWritten
  <1>10. CASE answer # "ok" /\ t.done # {}
    <2> DEFINE u == [t EXCEPT !.stage = "undo", !.todo = {}]
    <2>1. task' = [task EXCEPT ![w] = u]
      BY <1>10 DEF PutRoute
    <2>2. u \in Tasks /\ u.stage = "undo" /\ u.name = t.name /\ u.view = t.view
      BY StagesOfARequest DEF Tasks
    <2> QED BY <1>1, <1>2, <1>5, <1>6, <2>1, <2>2, OneRouteWritten
  <1> QED BY <1>7, <1>8, <1>9, <1>10

LEMMA UndoRouteKeeps ==
  ASSUME GrantsInv, Recorded, NEW w \in Workers, NEW r \in Routes, NEW answer, UndoRoute(w, r, answer)
  PROVE  GrantsInv'
  <1> USE DEF GrantsInv
  <1> PICK t \in Tasks : t = task[w]
    BY DEF GrantsTypeOK
  <1>1. t.stage = "undo" /\ t.name \in Names /\ Busy(w)
    BY DEF UndoRoute, At, NamesAreKnown, Busy
  <1>2. /\ UNCHANGED <<row, consumer, pass, held, strangers>>
        /\ used' \in [requests : Nat, faults : Nat, breaks : Nat, edits : Nat]
    BY UsedKeeps DEF UndoRoute
  <1>3. PICK listed \in SUBSET (Names \cup Strangers \cup {DenyAll}) :
          /\ listed = t.view[r] \/ listed = whitelist[r]
          /\ whitelist' = [whitelist EXCEPT ![r] = listed]
    <2>1. t.view[r] \in SUBSET (Names \cup Strangers \cup {DenyAll})
          /\ whitelist[r] \in SUBSET (Names \cup Strangers \cup {DenyAll})
      BY DEF GrantsTypeOK, Tasks, Whitelists
    <2>2. whitelist = [whitelist EXCEPT ![r] = whitelist[r]]
      BY DEF GrantsTypeOK, Whitelists
    <2>3. whitelist' = [whitelist EXCEPT ![r] = t.view[r]] \/ whitelist' = whitelist
      BY DEF UndoRoute
    <2> QED BY <2>1, <2>2, <2>3
  <1>4. strangers[r] \subseteq listed /\ (listed = {} => r \in Bare /\ (overlap = {} => NobodyHolds))
    BY <1>1, <1>3 DEF ViewsAreGood, WhitelistsStaySafe, NeverOpen, StrangersStay, NobodyHolds
  <1>5. CASE t.done = {r}
    <2>1. PICK stage \in {"cleanup", "unclaim", "restore", "free"} : GoTo(w, stage)
      BY <1>5, StagesOfARequest DEF UndoRoute
    <2>2. PICK u \in Tasks : /\ task' = [task EXCEPT ![w] = u] /\ u.stage = stage
                             /\ stage # "free" => u.name = t.name
      BY <2>1, StagesOfARequest, GoToIsATask
    <2> QED BY <1>1, <1>2, <1>3, <1>4, <2>2, OneRouteWritten
  <1>6. CASE t.done # {r}
    <2> DEFINE u == [t EXCEPT !.done = t.done \ {r}]
    <2>1. task' = [task EXCEPT ![w] = u]
      BY <1>6 DEF UndoRoute
    <2>2. u \in Tasks /\ u.stage = "undo" /\ u.name = t.name /\ u.view = t.view
      BY <1>1 DEF Tasks
    <2> QED BY <1>1, <1>2, <1>3, <1>4, <2>1, <2>2, OneRouteWritten
  <1> QED BY <1>5, <1>6

LEMMA HandlerKeeps ==
  ASSUME GrantsInv, Recorded, NEW w \in Workers, Handler(w)
  PROVE  GrantsInv'
  <1>1. CASE Claim(w) \/ Unclaim(w) \/ Finish(w) \/ Erase(w)
    BY <1>1, ClaimKeeps, UnclaimKeeps, FinishKeeps, EraseKeeps
  <1>2. ASSUME NEW answer \in Answers,
               \/ Fetch(w, answer) \/ Provision(w, answer) \/ ListRoutes(w, answer)
               \/ Repair(w, answer) \/ Revoke(w, answer)
        PROVE  GrantsInv'
    BY <1>2, FetchKeeps, ProvisionKeeps, ListRoutesKeeps, RepairKeeps, RevokeKeeps
  <1>3. ASSUME NEW answer \in Answers, NEW r \in Routes,
               PutRoute(w, r, answer) \/ UndoRoute(w, r, answer)
        PROVE  GrantsInv'
    BY <1>3, PutRouteKeeps, UndoRouteKeeps
  <1> QED BY <1>1, <1>2, <1>3 DEF Handler
-------------------------------------------------------------------------------
(* Around the requests: passes, expiries and operators.                    *)
LEMMA ExpireKeeps ==
  ASSUME GrantsInv, Recorded, NEW n \in Names, Expire(n)
  PROVE  GrantsInv'
  <1> USE DEF GrantsInv
  <1>1. UNCHANGED <<consumer, whitelist, task, pass, used, held, strangers>>
    BY DEF Expire
  <1>2. row' \in [Names -> Rows]
    <2> PICK entry \in Rows : entry = row[n]
      BY DEF GrantsTypeOK
    <2>1. [entry EXCEPT !.expired = TRUE] \in Rows
      BY DEF Rows
    <2>2. row' = [row EXCEPT ![n] = [entry EXCEPT !.expired = TRUE]]
      BY DEF Expire
    <2> QED BY <2>1, <2>2 DEF GrantsTypeOK
  <1>3. GrantsTypeOK'
    BY <1>1, <1>2 DEF GrantsTypeOK
  <1>4. overlap \subseteq overlap' /\ (NobodyHolds' <=> NobodyHolds)
    BY <1>1 DEF Recorded, NobodyHolds
  <1>5. WhitelistsStaySafe'
    BY <1>1, <1>4 DEF WhitelistsStaySafe, NeverOpen, StrangersStay
  <1>6. NamesAreKnown' /\ ViewsAreGood' /\ PassViewsAreGood' /\ OneAtATime'
    BY <1>1, <1>4 DEF NamesAreKnown, ViewsAreGood, PassViewsAreGood, OneAtATime, Busy
  <1> QED BY <1>3, <1>5, <1>6

LEMMA HandEditKeeps ==
  ASSUME GrantsInv, Recorded, NEW x \in Strangers, NEW r \in Routes, HandEdit(x, r)
  PROVE  GrantsInv'
  <1> USE DEF GrantsInv
  <1>1. UNCHANGED <<row, consumer, task, pass, held>>
    BY DEF HandEdit
  <1>2. used' \in [requests : Nat, faults : Nat, breaks : Nat, edits : Nat]
    BY UsedKeeps DEF HandEdit
  <1>3. \A y \in Routes : whitelist'[y] = IF y = r THEN (whitelist[r] \ {DenyAll}) \cup {x}
                                          ELSE whitelist[y]
    BY DEF HandEdit, GrantsTypeOK, Whitelists
  <1>4. whitelist' \in Whitelists
    BY DEF HandEdit, GrantsTypeOK, Whitelists
  <1>5. strangers' \in [Routes -> SUBSET Strangers]
    BY DEF HandEdit, GrantsTypeOK
  <1>6. GrantsTypeOK'
    BY <1>1, <1>2, <1>4, <1>5 DEF GrantsTypeOK
  <1>7. overlap \subseteq overlap' /\ (NobodyHolds' <=> NobodyHolds)
    BY <1>1 DEF Recorded, NobodyHolds
  <1>8. \A y \in Routes : strangers'[y] \subseteq strangers[y] \cup (IF y = r THEN {x} ELSE {})
    BY DEF HandEdit, GrantsTypeOK
  <1>9. StrangersStay'
    <2>1. DenyAll \notin Strangers /\ \A y \in Routes : strangers[y] \subseteq Strangers
      BY GrantsAssumption DEF GrantsTypeOK
    <2> QED BY <1>3, <1>8, <2>1 DEF WhitelistsStaySafe, StrangersStay
  <1>10. NeverOpen' /\ OneAtATime' /\ NamesAreKnown'
    BY <1>1, <1>3, <1>7 DEF WhitelistsStaySafe, NeverOpen, OneAtATime, NamesAreKnown, Busy
  <1>11. ViewsAreGood' /\ PassViewsAreGood'
    <2>1. CASE Quiet
      <3>1. (\A w \in Workers : task[w].stage = "free") /\ (\A p \in Passes : pass[p].stage = "free")
        BY <2>1 DEF Quiet, At
      <3> QED BY <1>1, <3>1 DEF ViewsAreGood, PassViewsAreGood
    <2>2. CASE ~Quiet
      <3>1. strangers' = strangers
        BY <2>2 DEF HandEdit
      <3> QED BY <1>1, <1>7, <3>1 DEF ViewsAreGood, PassViewsAreGood
    <2> QED BY <2>1, <2>2
  <1> QED BY <1>6, <1>9, <1>10, <1>11 DEF WhitelistsStaySafe

LEMMA PassKeeps ==
  ASSUME GrantsInv, NEW p \in Passes, PassStep(p)
  PROVE  GrantsInv'
  <1> USE DEF GrantsInv
  <1>1. UNCHANGED <<row, consumer, task, held, strangers, overlap>>
        /\ used' \in [requests : Nat, faults : Nat, breaks : Nat, edits : Nat]
    BY UsedKeeps DEF PassStep, Snapshot, PassList, PassPut
  <1> PICK q \in PassStages : q = pass[p]
    BY DEF GrantsTypeOK
  <1>2. PICK u \in PassStages :
          /\ pass' = [pass EXCEPT ![p] = u]
          /\ u.stage = "put" => \/ u.view = whitelist
                                \/ q.stage = "put" /\ u.view = q.view
    <2>1. CASE Snapshot(p)
      <3> PICK rest \in PassStages : rest = Resting
        BY RestingIsAPass
      <3> DEFINE u == [rest EXCEPT !.stage = "list", !.known = row]
      <3>1. u \in PassStages /\ u.stage = "list"
        BY DEF PassStages, GrantsTypeOK
      <3> QED BY <2>1, <3>1 DEF Snapshot
    <2>2. ASSUME NEW answer, PassList(p, answer)
          PROVE  \E u \in PassStages : /\ pass' = [pass EXCEPT ![p] = u]
                                       /\ u.stage = "put" => u.view = whitelist
      <3> PICK todo \in SUBSET Routes :
            todo = {r \in Routes : PassBody(whitelist[r], pass[p].known, r) # whitelist[r]}
        OBVIOUS
      <3> DEFINE u == [q EXCEPT !.stage = "put", !.view = whitelist, !.todo = todo]
      <3>1. u \in PassStages /\ u.view = whitelist
        BY DEF PassStages, GrantsTypeOK
      <3>2. pass' = [pass EXCEPT ![p] = Resting] \/ pass' = [pass EXCEPT ![p] = u]
        BY <2>2 DEF PassList
      <3> QED BY <3>1, <3>2, RestingIsAPass
    <2>3. ASSUME NEW answer, NEW r \in Routes, PassPut(p, r, answer)
          PROVE  \E u \in PassStages : /\ pass' = [pass EXCEPT ![p] = u]
                                       /\ u.stage = "put" => q.stage = "put" /\ u.view = q.view
      <3> DEFINE u == [q EXCEPT !.todo = q.todo \ {r}]
      <3>1. u \in PassStages /\ u.view = q.view /\ u.stage = q.stage
        BY DEF PassStages
      <3>2. pass' = [pass EXCEPT ![p] = Resting] \/ pass' = [pass EXCEPT ![p] = u]
        BY <2>3 DEF PassPut
      <3> QED BY <3>1, <3>2, RestingIsAPass
    <2> QED BY <2>1, <2>2, <2>3 DEF PassStep
  <1>3. whitelist' = whitelist
        \/ \E r \in Routes : /\ q.stage = "put"
                             /\ whitelist' = [whitelist EXCEPT ![r] = PassBody(q.view[r], q.known, r)]
    BY DEF PassStep, Snapshot, PassList, PassPut
  <1>4. /\ whitelist' \in Whitelists
        /\ \A r \in Routes : strangers[r] \subseteq whitelist'[r]
        /\ \A r \in Routes : whitelist'[r] = {} => whitelist[r] = {}
    <2>1. CASE whitelist' = whitelist
      BY <2>1 DEF GrantsTypeOK, WhitelistsStaySafe, StrangersStay
    <2>2. ASSUME NEW r \in Routes, q.stage = "put",
                 whitelist' = [whitelist EXCEPT ![r] = PassBody(q.view[r], q.known, r)]
          PROVE  /\ whitelist' \in Whitelists
                 /\ \A x \in Routes : strangers[x] \subseteq whitelist'[x]
                 /\ \A x \in Routes : whitelist'[x] = {} => whitelist[x] = {}
      <3> PICK body : body = PassBody(q.view[r], q.known, r)
        OBVIOUS
      <3>1. q.view[r] \subseteq Names \cup Strangers \cup {DenyAll}
            /\ strangers[r] \subseteq q.view[r] /\ strangers[r] \subseteq Strangers
        BY <2>2 DEF PassStages, Whitelists, PassViewsAreGood, GrantsTypeOK
      <3>2. body # {} /\ strangers[r] \subseteq body /\ body \subseteq Names \cup Strangers \cup {DenyAll}
        BY <3>1, PassIsClosed
      <3> QED BY <2>2, <3>2 DEF GrantsTypeOK, Whitelists, WhitelistsStaySafe, StrangersStay
    <2> QED BY <1>3, <2>1, <2>2
  <1>5. GrantsTypeOK'
    BY <1>1, <1>2, <1>4 DEF GrantsTypeOK
  <1>6. NamesAreKnown' /\ ViewsAreGood'
    BY <1>1 DEF NamesAreKnown, Busy, ViewsAreGood, NobodyHolds
  <1>7. OneAtATime'
    BY <1>1, <1>4 DEF OneAtATime, Busy
  <1>8. PassViewsAreGood'
    <2>1. \A z \in Passes : pass'[z] = IF z = p THEN u ELSE pass[z]
      BY <1>2 DEF GrantsTypeOK
    <2> QED BY <1>1, <1>2, <2>1 DEF PassViewsAreGood, WhitelistsStaySafe, StrangersStay
  <1>9. WhitelistsStaySafe'
    BY <1>1, <1>4 DEF WhitelistsStaySafe, NeverOpen, StrangersStay
  <1> QED BY <1>5, <1>6, <1>7, <1>8, <1>9
-------------------------------------------------------------------------------
LEMMA GrantsInitInv ==
  ASSUME Init
  PROVE  GrantsInv
  <1>1. \A w \in Workers : task[w] = Free
    BY DEF Init
  <1>2. \A p \in Passes : pass[p] = Resting
    BY DEF Init
  <1>3. GrantsTypeOK
    <2>1. row \in [Names -> Rows]
      BY DEF Init, NoRow, Rows, Grants
    <2>2. whitelist \in Whitelists /\ strangers \in [Routes -> SUBSET Strangers]
      BY DEF Init, Whitelists, Untouched
    <2> QED BY <2>1, <2>2, FreeIsATask, RestingIsAPass DEF Init, GrantsTypeOK, NoKey
  <1>4. NamesAreKnown /\ ViewsAreGood /\ PassViewsAreGood /\ OneAtATime
    BY <1>1, <1>2, FreeIsATask, RestingIsAPass
    DEF NamesAreKnown, Busy, ViewsAreGood, PassViewsAreGood, OneAtATime
  <1>5. WhitelistsStaySafe
    BY DEF Init, WhitelistsStaySafe, NeverOpen, StrangersStay, Untouched, NoKey
  <1> QED BY <1>3, <1>4, <1>5 DEF GrantsInv

LEMMA GrantsStep ==
  ASSUME GrantsInv, [Next]_vars
  PROVE  GrantsInv'
  <1>1. CASE UNCHANGED vars
    <2>1. UNCHANGED <<row, consumer, whitelist, task, pass, used, held, strangers, overlap>>
      BY <1>1 DEF vars
    <2> QED
      BY <2>1
      DEF GrantsInv, GrantsTypeOK, NamesAreKnown, ViewsAreGood, PassViewsAreGood, OneAtATime, Busy,
          WhitelistsStaySafe, NeverOpen, StrangersStay, NobodyHolds
  <1>2. CASE Outside /\ Recorded
    <2>1. ASSUME NEW w \in Workers, NEW op \in Offered, NEW n \in Names, NEW grants \in Grants,
                 Begin(w, op, n, grants)
          PROVE  GrantsInv'
      BY <1>2, <2>1, BeginKeeps
    <2> QED BY <1>2, <2>1, BreakKeeps, ExpireKeeps, HandEditKeeps DEF Outside
  <1> QED BY <1>1, <1>2, HandlerKeeps, PassKeeps DEF Next

(* The tables, the requests and the passes keep their types.               *)
THEOREM GrantsKeepTheirTypes ==
  Spec => []GrantsTypeOK
  <1>1. GrantsInv => GrantsTypeOK
    BY DEF GrantsInv
  <1> QED BY <1>1, GrantsInitInv, GrantsStep, PTL DEF Spec

(* No whitelist opens for anybody, and none loses a consumer that is not   *)
(* the database's, whatever requests and passes overlap and fail.          *)
THEOREM WhitelistsNeverOpen ==
  Spec => []WhitelistsStaySafe
  <1>1. GrantsInv => WhitelistsStaySafe
    BY DEF GrantsInv
  <1>2. Spec => []GrantsInv
    BY GrantsInitInv, GrantsStep, PTL DEF Spec
  <1> QED BY <1>1, <1>2, PTL
-------------------------------------------------------------------------------
(* Passes that nobody disturbed.                                           *)
ExactAt(r) == \A n \in Known(row) : (n \in whitelist[r]) = Honoured(row[n], r)

CalmPasses ==
  \A p \in Passes : p \in calm /\ pass[p].stage # "free" =>
    /\ pass[p].known = row
    /\ pass[p].stage = "put" => \A r \in Routes \ pass[p].todo : ExactAt(r)

LEMMA PassBodyIsExact ==
  ASSUME NEW listed, NEW rows, NEW r, NEW n \in Known(rows)
  PROVE  (n \in PassBody(listed, rows, r)) = Honoured(rows[n], r)
  <1>1. n \in Names /\ n # DenyAll
    BY GrantsAssumption DEF Known
  <1> QED BY <1>1 DEF PassBody, OrNobody, Honoured

(* What a pass does to the calm ones, and the whitelists it leaves.        *)
LEMMA PassStepIsExact ==
  ASSUME GrantsInv, CalmPasses, NEW p \in Passes, PassStep(p)
  PROVE  /\ CalmPasses'
         /\ \A q \in Passes : pass[q].stage # "free" /\ pass'[q].stage = "free" /\ q \in calm' => Exact'
  <1>1. pass \in [Passes -> PassStages] /\ whitelist \in Whitelists
    BY DEF GrantsInv, GrantsTypeOK
  <1> PICK s \in PassStages : s = pass[p]
    BY <1>1
  <1>2. row' = row
    BY DEF PassStep, Snapshot, PassList, PassPut
  <1>3. CASE Snapshot(p)
    <2> PICK rest \in PassStages : rest = Resting /\ rest.stage = "free"
      BY RestingIsAPass
    <2> DEFINE u == [rest EXCEPT !.stage = "list", !.known = row]
    <2>1. u.stage = "list" /\ u.known = row
      BY DEF PassStages
    <2>2. pass' = [pass EXCEPT ![p] = u] /\ calm' = calm \cup {p} /\ whitelist' = whitelist
      BY <1>3 DEF Snapshot
    <2>3. \A q \in Passes : pass'[q] = IF q = p THEN u ELSE pass[q]
      BY <1>1, <2>2
    <2> QED BY <1>2, <2>1, <2>2, <2>3 DEF CalmPasses, ExactAt, Known
  <1>4. ASSUME NEW answer, PassList(p, answer)
        PROVE  /\ CalmPasses'
               /\ \A q \in Passes : pass[q].stage # "free" /\ pass'[q].stage = "free" /\ q \in calm' => Exact'
    <2> PICK todo \in SUBSET Routes :
          todo = {r \in Routes : PassBody(whitelist[r], pass[p].known, r) # whitelist[r]}
      OBVIOUS
    <2> DEFINE u == [s EXCEPT !.stage = "put", !.view = whitelist, !.todo = todo]
    <2>1. u.stage = "put" /\ u.todo = todo /\ u.known = s.known /\ s.stage = "list"
      BY <1>4 DEF PassStages, PassList
    <2>2. whitelist' = whitelist /\ calm' = IF answer = "ok" THEN calm ELSE calm \ {p}
      BY <1>4 DEF PassList
    <2>3. \/ pass' = [pass EXCEPT ![p] = Resting] /\ (answer # "ok" \/ todo = {})
          \/ pass' = [pass EXCEPT ![p] = u]
      BY <1>4 DEF PassList
    <2>4. p \in calm => \A r \in Routes \ todo : ExactAt(r)
      <3> SUFFICES ASSUME p \in calm, NEW r \in Routes, r \notin todo, NEW n \in Known(row)
                   PROVE  (n \in whitelist[r]) = Honoured(row[n], r)
        BY DEF ExactAt
      <3>1. s.known = row
        BY <2>1 DEF CalmPasses
      <3>2. PassBody(whitelist[r], row, r) = whitelist[r]
        BY <3>1
      <3> QED BY <3>2, PassBodyIsExact
    <2>5. CASE pass' = [pass EXCEPT ![p] = Resting] /\ (answer # "ok" \/ todo = {})
      <3>1. \A q \in Passes : pass'[q] = IF q = p THEN Resting ELSE pass[q]
        BY <1>1, <2>5
      <3>2. p \in calm' => Exact'
        BY <1>2, <2>2, <2>4, <2>5 DEF Exact, ExactAt, Known
      <3>3. CalmPasses'
        BY <1>2, <2>2, <3>1, RestingIsAPass DEF CalmPasses, ExactAt, Known
      <3> QED BY <3>1, <3>2, <3>3
    <2>6. CASE pass' = [pass EXCEPT ![p] = u]
      <3>1. \A q \in Passes : pass'[q] = IF q = p THEN u ELSE pass[q]
        BY <1>1, <2>6
      <3>2. CalmPasses'
        BY <1>2, <2>1, <2>2, <2>4, <3>1 DEF CalmPasses, ExactAt, Known
      <3> QED BY <2>1, <3>1, <3>2
    <2> QED BY <2>3, <2>5, <2>6
  <1>5. ASSUME NEW answer, NEW r \in Routes, PassPut(p, r, answer)
        PROVE  /\ CalmPasses'
               /\ \A q \in Passes : pass[q].stage # "free" /\ pass'[q].stage = "free" /\ q \in calm' => Exact'
    <2> PICK body : body = PassBody(s.view[r], s.known, r)
      OBVIOUS
    <2> DEFINE u == [s EXCEPT !.todo = s.todo \ {r}]
    <2>1. u.stage = "put" /\ u.todo = s.todo \ {r} /\ u.known = s.known /\ s.stage = "put"
      BY <1>5 DEF PassStages, PassPut
    <2>2. /\ calm' = (IF whitelist' = whitelist THEN calm ELSE calm \cap {p})
                       \ (IF answer = "ok" THEN {} ELSE {p})
          /\ answer = "ok" => whitelist' = [whitelist EXCEPT ![r] = body]
      BY <1>5 DEF PassPut, Landed
    <2>3. p \in calm' => \A x \in Routes \ (s.todo \ {r}) : ExactAt(x)'
      <3> SUFFICES ASSUME p \in calm', NEW x \in Routes, x \notin s.todo \/ x = r, NEW n \in Known(row)
                   PROVE  (n \in whitelist'[x]) = Honoured(row[n], x)
        BY <1>2 DEF ExactAt, Known
      <3>1. p \in calm /\ answer = "ok" /\ whitelist' = [whitelist EXCEPT ![r] = body]
        BY <2>2
      <3>2. s.known = row
        BY <2>1, <3>1 DEF CalmPasses
      <3>3. CASE x = r
        <4>1. whitelist'[x] = PassBody(s.view[r], row, r)
          BY <1>1, <3>1, <3>2, <3>3 DEF Whitelists
        <4> QED BY <3>3, <4>1, PassBodyIsExact
      <3>4. CASE x # r
        <4>1. whitelist'[x] = whitelist[x]
          BY <1>1, <3>1, <3>4 DEF Whitelists
        <4>2. ExactAt(x)
          BY <2>1, <3>1, <3>4 DEF CalmPasses
        <4> QED BY <4>1, <4>2 DEF ExactAt
      <3> QED BY <3>3, <3>4
    <2>4. \/ pass' = [pass EXCEPT ![p] = Resting] /\ s.todo = {r}
          \/ pass' = [pass EXCEPT ![p] = u]
      BY <1>5 DEF PassPut
    <2>5. \A q \in Passes : q # p /\ q \in calm' => q \in calm /\ whitelist' = whitelist
      BY <2>2
    <2>6. CASE pass' = [pass EXCEPT ![p] = Resting] /\ s.todo = {r}
      <3>1. \A q \in Passes : pass'[q] = IF q = p THEN Resting ELSE pass[q]
        BY <1>1, <2>6
      <3>2. p \in calm' => Exact'
        BY <1>2, <2>3, <2>6 DEF Exact, ExactAt, Known
      <3>3. CalmPasses'
        BY <1>2, <2>5, <3>1, RestingIsAPass DEF CalmPasses, ExactAt, Known
      <3> QED BY <3>1, <3>2, <3>3
    <2>7. CASE pass' = [pass EXCEPT ![p] = u]
      <3>1. \A q \in Passes : pass'[q] = IF q = p THEN u ELSE pass[q]
        BY <1>1, <2>7
      <3>2. p \in calm' => s.known = row
        BY <2>1, <2>2 DEF CalmPasses
      <3>3. CalmPasses'
        <4> SUFFICES ASSUME NEW q \in Passes, q \in calm', pass'[q].stage # "free"
                     PROVE  /\ pass'[q].known = row
                            /\ pass'[q].stage = "put" => \A x \in Routes \ pass'[q].todo : ExactAt(x)'
          BY <1>2 DEF CalmPasses
        <4>1. CASE q = p
          BY <2>1, <2>3, <3>1, <3>2, <4>1
        <4>2. CASE q # p
          BY <1>2, <2>5, <3>1, <4>2 DEF CalmPasses, ExactAt, Known
        <4> QED BY <4>1, <4>2
      <3> QED BY <2>1, <3>1, <3>3
    <2> QED BY <2>4, <2>6, <2>7
  <1> QED BY <1>3, <1>4, <1>5 DEF PassStep

(* Requests, expiries and operators leave the passes alone, and what they  *)
(* write ends the calm.                                                    *)
LEMMA OthersKeepTheCalm ==
  ASSUME CalmPasses, Recorded, pass' = pass
  PROVE  CalmPasses'
  BY DEF CalmPasses, Recorded, ExactAt, Known

LEMMA CalmStep ==
  ASSUME GrantsInv, CalmPasses, [Next]_vars
  PROVE  /\ CalmPasses'
         /\ \A p \in Passes : pass[p].stage # "free" /\ pass'[p].stage = "free" /\ p \in calm' => Exact'
  <1>1. CASE UNCHANGED vars
    BY <1>1 DEF vars, CalmPasses, ExactAt, Known
  <1>2. CASE (Outside \/ \E w \in Workers : Handler(w)) /\ Recorded
    <2>2. CASE pass' = pass
      BY <1>2, <2>2, OthersKeepTheCalm
    <2>3. ASSUME NEW w \in Workers, Handler(w) PROVE pass' = pass
      BY <2>3
      DEF Handler, Claim, Unclaim, Finish, Erase, Fetch, Provision, ListRoutes, Repair, Revoke,
          PutRoute, UndoRoute
    <2>4. CASE Outside
      <3>1. pass' = pass
        BY <2>4 DEF Outside, Begin, Break, Expire, HandEdit
      <3> QED BY <2>2, <3>1
    <2> QED BY <1>2, <2>2, <2>3, <2>4
  <1>3. ASSUME NEW p \in Passes, PassStep(p)
        PROVE  /\ CalmPasses'
               /\ \A q \in Passes : pass[q].stage # "free" /\ pass'[q].stage = "free" /\ q \in calm' => Exact'
    BY <1>3, PassStepIsExact
  <1> QED BY <1>1, <1>2, <1>3 DEF Next

(* A pass beside which nobody else wrote, and none of whose calls failed,  *)
(* leaves every known key on exactly the whitelists of its grants.         *)
THEOREM CalmPassIsExact ==
  Spec => PassIsExact
  <1>1. Init => CalmPasses
    BY RestingIsAPass DEF Init, CalmPasses
  <1>2. GrantsInv /\ CalmPasses /\ [Next]_vars => CalmPasses'
    BY CalmStep
  <1>3. GrantsInv /\ CalmPasses /\ [Next]_vars
        => [\A p \in Passes :
              pass[p].stage # "free" /\ pass'[p].stage = "free" /\ p \in calm' => Exact']_vars
    BY CalmStep
  <1>4. Spec => []GrantsInv
    BY GrantsInitInv, GrantsStep, PTL DEF Spec
  <1> QED BY <1>1, <1>2, <1>3, <1>4, PTL DEF Spec, PassIsExact
-------------------------------------------------------------------------------
(* What a request is about fits the stage it is at: every stage belongs to *)
(* the operations whose handlers have it, new key values are values, and   *)
(* rows carry the id they were inserted with.                              *)
Creating == {"create", "create_my"}
Deleting == {"delete", "delete_my"}

Fits(t) ==
  /\ t.op \in Ops
  /\ t.op \in NewKeyOps => t.key # NoKey
  /\ t.stage \in {"claim", "unclaim"} => t.op = "create_my"
  /\ t.stage = "fetch" => t.op \in {"limit", "rekey"}
  /\ t.stage = "provision" => t.op \in NewKeyOps \cup {"limit"}
  /\ t.stage \in {"list", "put", "undo"} => t.op # "limit"
  /\ t.stage = "cleanup" => t.op \in Creating
  /\ t.stage = "restore" => t.op = "rekey"
  /\ t.stage = "finish" => t.op \notin Deleting
  /\ t.stage \in {"revoke", "erase"} => t.op \in Deleting
  /\ t.op \in Deleting => t.grants = {}
  /\ t.stage \notin {"put", "undo"} => t.done = {}

TasksFit ==
  /\ \A w \in Workers : Busy(w) => Fits(task[w])
  /\ \A n \in Names : row[n] # NoRow => row[n].id # 0

-------------------------------------------------------------------------------
(* One request at a time. *)
Granted(n, r) == row[n] # NoRow /\ GrantsRoute(row[n].grants, r)

Settled(n) ==
  /\ (row[n] # NoRow) = (consumer[n] # NoKey)
  /\ \A r \in Routes : n \in whitelist[r] => Granted(n, r)

(* In the middle of a request: its row ... *)
RowMidway(t) ==
  /\ IF t.op = "create" \/ t.stage \in {"claim", "cleanup"} THEN row[t.name] = NoRow
     ELSE row[t.name] # NoRow /\ row[t.name].id = t.id
  /\ t.op \in {"create_my", "regenerate", "renew", "limit"} /\ row[t.name] # NoRow =>
       row[t.name].grants = t.grants

(* ... its consumer, ... *)
ConsumerMidway(t) ==
  /\ t.stage \in {"fetch", "list", "put", "undo", "finish", "restore", "revoke"} => consumer[t.name] # NoKey
  /\ t.stage = "provision" /\ t.op # "create_my" => (consumer[t.name] # NoKey) = (t.op # "create")
  /\ t.stage = "erase" => consumer[t.name] = NoKey
  /\ t.op = "rekey" /\ t.stage # "fetch" => t.old # NoKey
  /\ t.op = "limit" /\ t.stage = "provision" => t.key # NoKey

(* ... and the whitelists: on none, on those of its row, on some of those  *)
(* it asks for, or on all of them.                                         *)
WhitelistMidway(t) ==
  \A r \in Routes :
    /\ \/ t.stage \in {"revoke", "erase", "unclaim", "cleanup"}
       \/ t.op \in Creating /\ t.stage \in {"claim", "provision", "list"}
       => t.name \notin whitelist[r]
    /\ \/ t.stage \in {"fetch", "provision", "list", "restore"}
       \/ t.stage = "finish" /\ t.op = "limit"
       => (t.name \in whitelist[r] => Granted(t.name, r))
    /\ t.stage = "finish" /\ t.op # "limit" =>
         (t.name \in whitelist[r] => GrantsRoute(t.grants, r))

ListedMidway(t) ==
  t.stage \in {"put", "undo"} =>
    \A r \in Routes :
      /\ t.name \in whitelist[r] =>
           IF r \in t.done THEN GrantsRoute(t.grants, r) ELSE t.name \in t.view[r]
      /\ t.name \in t.view[r] => t.op \notin Creating /\ Granted(t.name, r)
      /\ t.stage = "put" /\ t.name \in t.view[r] /\ r \notin t.todo \cup t.done =>
           GrantsRoute(t.grants, r)
      /\ \A m \in Names \ {t.name} : (m \in whitelist[r]) = (m \in t.view[r])

Midway(t) ==
  /\ RowMidway(t) /\ ConsumerMidway(t) /\ WhitelistMidway(t) /\ ListedMidway(t)
  /\ t.stage \in {"undo", "unclaim", "cleanup", "restore"} => used.faults >= 1

OneByOne == overlap = {} /\ used.faults <= 1 /\ used.breaks = 0

WholeInv ==
  OneByOne =>
    /\ \A n \in Names : (\A w \in Workers : Busy(w) => task[w].name # n) => Settled(n)
    /\ \A w \in Workers : Busy(w) => Midway(task[w])

-------------------------------------------------------------------------------
(* Keys that are handed out. *)
Keyed(n) == IF row[n] = NoRow THEN consumer[n] = NoKey
            ELSE consumer[n] = held[n] /\ consumer[n] # NoKey

Orderly == "rekeying" \notin overlap /\ used.faults = 0 /\ used.breaks = 0

(* Requests for one key side by side neither change its value nor remove   *)
(* it; one that makes it has claimed the row.                              *)
Making(w) == Busy(w) /\ task[w].op = "create_my" /\ task[w].stage # "claim"
Changing(w) == Busy(w) /\ task[w].op \in Rekeying
SameKey(w, v) == w # v /\ Busy(w) /\ Busy(v) /\ task[w].name = task[v].name

MadeOnce(t) ==
  /\ row[t.name] # NoRow /\ row[t.name].id = t.id
  /\ consumer[t.name] = IF t.stage = "provision" THEN NoKey ELSE t.key

ChangedAlone(t) ==
  /\ IF t.op = "create" THEN row[t.name] = NoRow
     ELSE row[t.name] # NoRow /\ row[t.name].id = t.id
  /\ t.stage \in {"list", "put", "finish"} /\ t.op \in NewKeyOps => consumer[t.name] = t.key
  /\ t.stage = "fetch" => Keyed(t.name)
  /\ t.stage = "erase" => consumer[t.name] = NoKey

KeysInv ==
  Orderly =>
    /\ \A n \in Names :
         (\A w \in Workers : Making(w) \/ Changing(w) => task[w].name # n) => Keyed(n)
    /\ \A w, v \in Workers :
         /\ SameKey(w, v) => ~Changing(w) /\ ~(Making(w) /\ Making(v))
    /\ \A w \in Workers :
         /\ task[w].stage \notin {"undo", "unclaim", "cleanup", "restore"}
         /\ Making(w) => MadeOnce(task[w])
         /\ Changing(w) => ChangedAlone(task[w])
         /\ task[w].op = "limit" /\ task[w].stage = "provision" =>
              task[w].key = consumer[task[w].name] /\ task[w].key # NoKey
-------------------------------------------------------------------------------
(* What each step of a request does to it.                                 *)
SameRequest(t, u) ==
  u.op = t.op /\ u.name = t.name /\ u.grants = t.grants /\ u.old = t.old

LEMMA GoToGoes ==
  ASSUME GrantsTypeOK, NEW w \in Workers, NEW stage \in Stages, GoTo(w, stage)
  PROVE  \E u \in Tasks :
           /\ task' = [task EXCEPT ![w] = u] /\ u.stage = stage
           /\ stage # "free" => SameRequest(task[w], u) /\ u.id = task[w].id /\ u.key = task[w].key
                              /\ u.done = {}
  <1>1. CASE stage = "free"
    BY <1>1, FreeIsATask DEF GoTo
  <1>2. CASE stage # "free"
    <2> PICK t \in Tasks : t = task[w]
      BY DEF GrantsTypeOK
    <2> DEFINE u == [t EXCEPT !.stage = stage, !.view = Untouched, !.todo = {}, !.done = {}]
    <2>1. /\ u \in Tasks /\ u.stage = stage /\ u.name = t.name /\ u.op = t.op /\ u.grants = t.grants
          /\ u.old = t.old /\ u.id = t.id /\ u.key = t.key /\ u.done = {}
      BY FreeIsATask DEF Tasks
    <2>2. task' = [task EXCEPT ![w] = u]
      BY <1>2 DEF GoTo
    <2> QED BY <2>1, <2>2 DEF SameRequest
  <1> QED BY <1>1, <1>2

LEMMA SyncMembers ==
  ASSUME NEW listed, NEW n \in Names, NEW grants, NEW r, NEW m \in Names
  PROVE  m \in SyncBody(listed, n, grants, r) <=>
           IF m = n THEN GrantsRoute(grants, r) ELSE m \in listed
  BY GrantsAssumption DEF SyncBody, OrNobody

LEMMA NothingGrantsNothing ==
  \A r : ~GrantsRoute({}, r)
  BY DEF GrantsRoute

(* Calls only add to what has failed.                                      *)
LEMMA FaultsAdd ==
  ASSUME GrantsTypeOK, NEW answer, Answered(answer)
  PROVE  /\ used'.faults \in Nat /\ used'.breaks = used.breaks /\ used'.requests = used.requests
         /\ used'.faults = IF answer = "ok" THEN used.faults ELSE used.faults + 1
         /\ answer = "lost" => LostReplies
         /\ answer \in {"ok", "failed", "lost"}
  BY DEF GrantsTypeOK, Answered

LEMMA BeginDoes ==
  ASSUME GrantsInv, NEW w \in Workers, NEW op \in Offered, NEW n \in Names,
         NEW grants \in Grants, Begin(w, op, n, grants)
  PROVE  \E u \in Tasks :
           /\ task' = [task EXCEPT ![w] = u] /\ ~Busy(w)
           /\ u.stage = FirstStage(op, n) /\ u.op = op /\ u.name = n /\ u.grants = grants
           /\ u.id = row[n].id /\ u.todo = {} /\ u.done = {}
           /\ op \in NewKeyOps => u.key # NoKey
           /\ Accepted(op, n) /\ grants \in GrantsOf(op, n) /\ op \in Ops
           /\ UNCHANGED <<row, consumer, whitelist, pass, held, strangers>>
           /\ used'.faults = used.faults /\ used'.breaks = used.breaks
  <1>1. row[n] \in Rows /\ row[n].id \in Nat /\ used.requests \in Nat
    BY DEF GrantsInv, GrantsTypeOK, Rows
  <1> PICK id \in Nat : id = row[n].id
    BY <1>1
  <1> PICK key \in Nat : key = IF op \in NewKeyOps THEN used.requests + 1 ELSE NoKey
    BY <1>1 DEF NoKey
  <1>0. op \in NewKeyOps => key # NoKey
    BY <1>1 DEF NoKey
  <1> PICK stage \in {"provision", "claim", "fetch", "revoke", "list"} : stage = FirstStage(op, n)
    BY StagesOfARequest
  <1> PICK free \in Tasks : free = Free /\ free.todo = {} /\ free.done = {}
    BY FreeIsATask DEF Free
  <1> DEFINE u == [free EXCEPT !.stage = stage, !.op = op, !.name = n, !.grants = grants,
                               !.id = id, !.key = key]
  <1>2. op \in Ops
    BY GrantsAssumption
  <1>3. /\ u \in Tasks /\ u.stage = stage /\ u.name = n /\ u.op = op /\ u.grants = grants /\ u.id = id
        /\ u.key = key /\ u.todo = {} /\ u.done = {}
    BY <1>2, StagesOfARequest DEF Tasks
  <1>4. task' = [task EXCEPT ![w] = u]
    BY DEF Begin
  <1>5. /\ ~Busy(w) /\ Accepted(op, n) /\ grants \in GrantsOf(op, n)
        /\ UNCHANGED <<row, consumer, whitelist, pass, held, strangers>>
    BY DEF Begin, At, Busy
  <1>6. used'.faults = used.faults /\ used'.breaks = used.breaks
    BY DEF Begin, GrantsInv, GrantsTypeOK
  <1> QED BY <1>0, <1>2, <1>3, <1>4, <1>5, <1>6

LEMMA ClaimDoes ==
  ASSUME GrantsInv, NEW w \in Workers, NEW t \in Tasks, t = task[w], Claim(w)
  PROVE  /\ t.stage = "claim" /\ t.name \in Names
         /\ UNCHANGED <<consumer, whitelist, pass, used, held, strangers>>
         /\ \E u \in Tasks :
              /\ task' = [task EXCEPT ![w] = u]
              /\ \/ /\ row[t.name] = NoRow /\ u.stage = "provision" /\ SameRequest(t, u)
                    /\ u.id = t.key /\ u.key = t.key /\ u.done = t.done
                    /\ row' = [row EXCEPT ![t.name] = NewRow(w)]
                    /\ NewRow(w) \in Rows /\ NewRow(w).id = t.key /\ NewRow(w).grants = t.grants
                 \/ row[t.name] # NoRow /\ u.stage = "free" /\ row' = row
  <1>1. /\ t.stage = "claim" /\ t.name \in Names
        /\ UNCHANGED <<consumer, whitelist, pass, used, held, strangers>>
    BY DEF Claim, At, GrantsInv, NamesAreKnown, Busy
  <1>2. CASE row[t.name] = NoRow
    <2> DEFINE u == [t EXCEPT !.stage = "provision", !.id = t.key]
    <2>1. /\ u \in Tasks /\ u.stage = "provision" /\ u.name = t.name /\ u.op = t.op
          /\ u.grants = t.grants /\ u.old = t.old /\ u.id = t.key /\ u.key = t.key
          /\ u.done = t.done
      BY StagesOfARequest DEF Tasks
    <2>2. task' = [task EXCEPT ![w] = u] /\ row' = [row EXCEPT ![t.name] = NewRow(w)]
      BY <1>2 DEF Claim
    <2>3. NewRow(w) \in Rows /\ NewRow(w).id = t.key /\ NewRow(w).grants = t.grants
      BY DEF NewRow, Rows, Tasks
    <2> QED BY <1>1, <1>2, <2>1, <2>2, <2>3 DEF SameRequest
  <1>3. CASE row[t.name] # NoRow
    <2>1. GoTo(w, "free") /\ row' = row
      BY <1>3 DEF Claim
    <2> QED BY <1>1, <1>3, <2>1, GoToGoes, StagesOfARequest DEF GrantsInv
  <1> QED BY <1>2, <1>3

LEMMA FetchDoes ==
  ASSUME GrantsInv, NEW w \in Workers, NEW t \in Tasks, t = task[w], NEW answer, Fetch(w, answer)
  PROVE  /\ t.stage = "fetch" /\ t.name \in Names /\ Answered(answer)
         /\ UNCHANGED <<row, consumer, whitelist, pass, held, strangers>>
         /\ \E u \in Tasks :
              /\ task' = [task EXCEPT ![w] = u]
              /\ \/ u.stage = "free"
                 \/ /\ answer = "ok" /\ consumer[t.name] # NoKey
                    /\ u.stage = "provision" /\ u.op = t.op /\ u.name = t.name /\ u.grants = t.grants
                    /\ u.id = t.id /\ u.old = consumer[t.name] /\ u.done = t.done
                    /\ u.key = IF t.op = "limit" THEN consumer[t.name] ELSE t.key
  <1>1. t.stage = "fetch" /\ t.name \in Names /\ Answered(answer)
        /\ UNCHANGED <<row, consumer, whitelist, pass, held, strangers>>
    BY DEF Fetch, At, GrantsInv, NamesAreKnown, Busy
  <1> PICK value \in Nat : value = consumer[t.name]
    BY <1>1 DEF GrantsInv, GrantsTypeOK
  <1> PICK key \in Nat : key = IF t.op = "limit" THEN value ELSE t.key
    BY DEF Tasks
  <1> DEFINE u == [t EXCEPT !.stage = "provision", !.old = value, !.key = key]
  <1>2. \/ task' = [task EXCEPT ![w] = Free]
        \/ answer = "ok" /\ value # NoKey /\ task' = [task EXCEPT ![w] = u]
    <2>1. CASE answer = "ok" /\ value # NoKey /\ t.op = "limit"
      <3>1. task' = [task EXCEPT ![w] = [t EXCEPT !.stage = "provision", !.old = value, !.key = value]]
        BY <2>1 DEF Fetch
      <3> QED BY <2>1, <3>1
    <2>2. CASE answer = "ok" /\ value # NoKey /\ t.op # "limit"
      <3>1. task' = [task EXCEPT ![w] = [t EXCEPT !.stage = "provision", !.old = value, !.key = t.key]]
        BY <2>2 DEF Fetch
      <3> QED BY <2>2, <3>1
    <2>3. CASE ~(answer = "ok" /\ value # NoKey)
      BY <2>3 DEF Fetch
    <2> QED BY <2>1, <2>2, <2>3
  <1>3. /\ u \in Tasks /\ u.stage = "provision" /\ u.name = t.name /\ u.op = t.op /\ u.grants = t.grants
        /\ u.id = t.id /\ u.old = value /\ u.key = key /\ u.done = t.done
    BY StagesOfARequest DEF Tasks
  <1>4. CASE task' = [task EXCEPT ![w] = Free]
    BY <1>1, <1>4, FreeIsATask
  <1>5. CASE answer = "ok" /\ value # NoKey /\ task' = [task EXCEPT ![w] = u]
    BY <1>1, <1>3, <1>5
  <1> QED BY <1>2, <1>4, <1>5

Provisioned(w, t, u, answer) ==
  /\ task' = [task EXCEPT ![w] = u]
  /\ u.stage = IF answer = "ok" THEN IF t.op = "limit" THEN "finish" ELSE "list"
               ELSE IF t.op = "create_my" THEN "unclaim" ELSE "free"
  /\ u.stage # "free" => SameRequest(t, u) /\ u.id = t.id /\ u.key = t.key /\ u.done = {}

LEMMA ProvisionDoes ==
  ASSUME GrantsInv, NEW w \in Workers, NEW t \in Tasks, t = task[w], NEW answer, Provision(w, answer)
  PROVE  /\ t.stage = "provision" /\ t.name \in Names /\ Answered(answer)
         /\ UNCHANGED <<row, whitelist, pass, held, strangers>>
         /\ consumer' = IF answer = "failed" THEN consumer ELSE [consumer EXCEPT ![t.name] = t.key]
         /\ \E u \in Tasks : Provisioned(w, t, u, answer)
  <1>1. /\ t.stage = "provision" /\ t.name \in Names /\ Answered(answer)
        /\ UNCHANGED <<row, whitelist, pass, held, strangers>>
        /\ consumer' = IF answer = "failed" THEN consumer ELSE [consumer EXCEPT ![t.name] = t.key]
    BY DEF Provision, At, GrantsInv, NamesAreKnown, Busy, Landed
  <1> PICK stage \in Stages : stage = IF answer = "ok" THEN IF t.op = "limit" THEN "finish" ELSE "list"
                           ELSE IF t.op = "create_my" THEN "unclaim" ELSE "free"
    BY StagesOfARequest
  <1>2. GoTo(w, stage)
    BY DEF Provision
  <1> QED BY <1>1, <1>2, GoToGoes DEF GrantsInv, Provisioned

Listed(w, t, u, answer) ==
  /\ task' = [task EXCEPT ![w] = u]
  /\ u.stage # "free" => SameRequest(t, u) /\ u.id = t.id /\ u.key = t.key
  /\ \/ answer # "ok" /\ u.stage = AfterFailure(t.op) /\ (u.stage # "free" => u.done = {})
     \/ /\ answer = "ok" /\ u.stage = AfterSync(t.op) /\ u.done = {}
        /\ \A r \in Routes : SyncBody(whitelist[r], t.name, t.grants, r) = whitelist[r]
     \/ /\ answer = "ok" /\ u.stage = "put" /\ u.view = whitelist /\ u.done = t.done
        /\ \A r \in Routes \ u.todo : SyncBody(whitelist[r], t.name, t.grants, r) = whitelist[r]

LEMMA ListRoutesDoes ==
  ASSUME GrantsInv, NEW w \in Workers, NEW t \in Tasks, t = task[w], NEW answer, ListRoutes(w, answer)
  PROVE  /\ t.stage = "list" /\ t.name \in Names /\ Answered(answer)
         /\ UNCHANGED <<row, consumer, whitelist, pass, held, strangers>>
         /\ \E u \in Tasks : Listed(w, t, u, answer)
  <1>1. t.stage = "list" /\ t.name \in Names /\ Answered(answer)
        /\ UNCHANGED <<row, consumer, whitelist, pass, held, strangers>> /\ whitelist \in Whitelists
    BY DEF ListRoutes, At, GrantsInv, GrantsTypeOK, NamesAreKnown, Busy
  <1> PICK todo \in SUBSET Routes :
        todo = {r \in Routes : SyncBody(whitelist[r], t.name, t.grants, r) # whitelist[r]}
    OBVIOUS
  <1> DEFINE u == [t EXCEPT !.stage = "put", !.view = whitelist, !.todo = todo]
  <1>2. \/ answer # "ok" /\ GoTo(w, AfterFailure(t.op))
        \/ answer = "ok" /\ todo = {} /\ GoTo(w, AfterSync(t.op))
        \/ answer = "ok" /\ task' = [task EXCEPT ![w] = u]
    BY DEF ListRoutes
  <1>3. CASE answer # "ok" /\ GoTo(w, AfterFailure(t.op))
    BY <1>1, <1>3, GoToGoes, StagesOfARequest DEF GrantsInv, Listed
  <1>4. CASE answer = "ok" /\ todo = {} /\ GoTo(w, AfterSync(t.op))
    BY <1>1, <1>4, GoToGoes, StagesOfARequest DEF GrantsInv, Listed
  <1>5. CASE answer = "ok" /\ task' = [task EXCEPT ![w] = u]
    <2>1. /\ u \in Tasks /\ u.stage = "put" /\ u.name = t.name /\ u.view = whitelist /\ u.todo = todo
          /\ u.op = t.op /\ u.grants = t.grants /\ u.old = t.old /\ u.id = t.id /\ u.key = t.key
          /\ u.done = t.done
      BY <1>1, StagesOfARequest DEF Tasks
    <2> QED BY <1>1, <1>5, <2>1 DEF SameRequest, Listed
  <1> QED BY <1>2, <1>3, <1>4, <1>5

Written(w, t, u, r, answer) ==
  /\ task' = [task EXCEPT ![w] = u]
  /\ u.stage # "free" => SameRequest(t, u) /\ u.id = t.id /\ u.key = t.key
  /\ \/ answer = "ok" /\ t.todo = {r} /\ u.stage = AfterSync(t.op) /\ u.done = {}
     \/ /\ answer = "ok" /\ t.todo # {r} /\ u.stage = "put" /\ u.view = t.view
        /\ u.todo = t.todo \ {r} /\ u.done = t.done \cup {r}
     \/ /\ answer # "ok" /\ t.done = {} /\ u.stage = AfterFailure(t.op)
        /\ u.stage # "free" => u.done = {}
     \/ /\ answer # "ok" /\ t.done # {} /\ u.stage = "undo" /\ u.view = t.view
        /\ u.done = t.done

LEMMA PutRouteDoes ==
  ASSUME GrantsInv, NEW w \in Workers, NEW t \in Tasks, t = task[w], NEW r \in Routes, NEW answer,
         PutRoute(w, r, answer)
  PROVE  /\ t.stage = "put" /\ t.name \in Names /\ r \in t.todo /\ Answered(answer)
         /\ UNCHANGED <<row, consumer, pass, held, strangers>>
         /\ whitelist' = IF answer = "failed" THEN whitelist
                         ELSE [whitelist EXCEPT ![r] = SyncBody(t.view[r], t.name, t.grants, r)]
         /\ \E u \in Tasks : Written(w, t, u, r, answer)
  <1>1. /\ t.stage = "put" /\ t.name \in Names /\ r \in t.todo /\ Answered(answer)
        /\ UNCHANGED <<row, consumer, pass, held, strangers>>
        /\ whitelist' = IF answer = "failed" THEN whitelist
                        ELSE [whitelist EXCEPT ![r] = SyncBody(t.view[r], t.name, t.grants, r)]
    BY DEF PutRoute, At, GrantsInv, NamesAreKnown, Busy, Landed
  <1> DEFINE a == [t EXCEPT !.todo = t.todo \ {r}, !.done = t.done \cup {r}]
             b == [t EXCEPT !.stage = "undo", !.todo = {}]
  <1>2. \/ answer = "ok" /\ t.todo = {r} /\ GoTo(w, AfterSync(t.op))
        \/ answer = "ok" /\ t.todo # {r} /\ task' = [task EXCEPT ![w] = a]
        \/ answer # "ok" /\ t.done = {} /\ GoTo(w, AfterFailure(t.op))
        \/ answer # "ok" /\ t.done # {} /\ task' = [task EXCEPT ![w] = b]
    BY DEF PutRoute
  <1>3. CASE answer = "ok" /\ t.todo = {r} /\ GoTo(w, AfterSync(t.op))
    BY <1>1, <1>3, GoToGoes, StagesOfARequest DEF GrantsInv, Written
  <1>4. CASE answer = "ok" /\ t.todo # {r} /\ task' = [task EXCEPT ![w] = a]
    <2>1. /\ a \in Tasks /\ a.stage = "put" /\ a.name = t.name /\ a.view = t.view /\ a.todo = t.todo \ {r}
          /\ a.op = t.op /\ a.grants = t.grants /\ a.old = t.old /\ a.id = t.id /\ a.key = t.key
          /\ a.done = t.done \cup {r}
      BY <1>1 DEF Tasks
    <2> QED BY <1>1, <1>4, <2>1 DEF SameRequest, Written
  <1>5. CASE answer # "ok" /\ t.done = {} /\ GoTo(w, AfterFailure(t.op))
    BY <1>1, <1>5, GoToGoes, StagesOfARequest DEF GrantsInv, Written
  <1>6. CASE answer # "ok" /\ t.done # {} /\ task' = [task EXCEPT ![w] = b]
    <2>1. /\ b \in Tasks /\ b.stage = "undo" /\ b.name = t.name /\ b.view = t.view
          /\ b.op = t.op /\ b.grants = t.grants /\ b.old = t.old /\ b.id = t.id /\ b.key = t.key
          /\ b.done = t.done
      BY <1>1, StagesOfARequest DEF Tasks
    <2> QED BY <1>1, <1>6, <2>1 DEF SameRequest, Written
  <1> QED BY <1>2, <1>3, <1>4, <1>5, <1>6

LEMMA UndoRouteDoes ==
  ASSUME GrantsInv, NEW w \in Workers, NEW t \in Tasks, t = task[w], NEW r \in Routes, NEW answer,
         UndoRoute(w, r, answer)
  PROVE  /\ t.stage = "undo" /\ t.name \in Names /\ r \in t.done /\ Answered(answer)
         /\ UNCHANGED <<row, consumer, pass, held, strangers>>
         /\ whitelist' = IF answer = "failed" THEN whitelist
                         ELSE [whitelist EXCEPT ![r] = t.view[r]]
         /\ \E u \in Tasks :
              /\ task' = [task EXCEPT ![w] = u]
              /\ u.stage # "free" => SameRequest(t, u) /\ u.id = t.id /\ u.key = t.key
              /\ \/ t.done = {r} /\ u.stage = AfterFailure(t.op) /\ (u.stage # "free" => u.done = {})
                 \/ /\ t.done # {r} /\ u.stage = "undo" /\ u.view = t.view /\ u.done = t.done \ {r}
  <1>1. /\ t.stage = "undo" /\ t.name \in Names /\ r \in t.done /\ Answered(answer)
        /\ UNCHANGED <<row, consumer, pass, held, strangers>>
        /\ whitelist' = IF answer = "failed" THEN whitelist ELSE [whitelist EXCEPT ![r] = t.view[r]]
    BY DEF UndoRoute, At, GrantsInv, NamesAreKnown, Busy, Landed
  <1> DEFINE a == [t EXCEPT !.done = t.done \ {r}]
  <1>2. \/ t.done = {r} /\ GoTo(w, AfterFailure(t.op))
        \/ t.done # {r} /\ task' = [task EXCEPT ![w] = a]
    BY DEF UndoRoute
  <1>3. CASE t.done = {r} /\ GoTo(w, AfterFailure(t.op))
    BY <1>1, <1>3, GoToGoes, StagesOfARequest DEF GrantsInv
  <1>4. CASE t.done # {r} /\ task' = [task EXCEPT ![w] = a]
    <2>1. /\ a \in Tasks /\ a.stage = "undo" /\ a.name = t.name /\ a.view = t.view
          /\ a.op = t.op /\ a.grants = t.grants /\ a.old = t.old /\ a.id = t.id /\ a.key = t.key
          /\ a.done = t.done \ {r}
      BY <1>1 DEF Tasks
    <2> QED BY <1>1, <1>4, <2>1 DEF SameRequest
  <1> QED BY <1>2, <1>3, <1>4

LEMMA UnclaimDoes ==
  ASSUME GrantsInv, NEW w \in Workers, NEW t \in Tasks, t = task[w], Unclaim(w)
  PROVE  /\ t.stage = "unclaim" /\ t.name \in Names
         /\ UNCHANGED <<consumer, whitelist, pass, used, held, strangers>>
         /\ row' = IF row[t.name].id = t.id THEN [row EXCEPT ![t.name] = NoRow] ELSE row
         /\ \E u \in Tasks :
              /\ task' = [task EXCEPT ![w] = u] /\ u.stage = "cleanup"
              /\ SameRequest(t, u) /\ u.id = t.id /\ u.key = t.key /\ u.done = {}
  <1>1. /\ t.stage = "unclaim" /\ t.name \in Names /\ GoTo(w, "cleanup")
        /\ UNCHANGED <<consumer, whitelist, pass, used, held, strangers>>
        /\ row' = IF row[t.name].id = t.id THEN [row EXCEPT ![t.name] = NoRow] ELSE row
    BY DEF Unclaim, At, GrantsInv, NamesAreKnown, Busy
  <1> QED BY <1>1, GoToGoes, StagesOfARequest DEF GrantsInv

(* The request is over.                                                    *)
Over(w) == \E u \in Tasks : task' = [task EXCEPT ![w] = u] /\ u.stage = "free"

LEMMA RepairDoes ==
  ASSUME GrantsInv, NEW w \in Workers, NEW t \in Tasks, t = task[w], NEW answer, Repair(w, answer)
  PROVE  /\ t.stage \in {"cleanup", "restore"} /\ t.name \in Names /\ Answered(answer)
         /\ UNCHANGED <<row, whitelist, pass, held, strangers>>
         /\ consumer' = IF answer = "failed" THEN consumer
              ELSE [consumer EXCEPT ![t.name] = IF t.stage = "cleanup" THEN NoKey ELSE t.old]
         /\ Over(w)
  <1>1. /\ t.stage \in {"cleanup", "restore"} /\ t.name \in Names /\ Answered(answer)
        /\ UNCHANGED <<row, whitelist, pass, held, strangers>> /\ GoTo(w, "free")
        /\ consumer' = IF answer = "failed" THEN consumer
             ELSE [consumer EXCEPT ![t.name] = IF t.stage = "cleanup" THEN NoKey ELSE t.old]
    BY DEF Repair, At, GrantsInv, NamesAreKnown, Busy, Landed
  <1> QED BY <1>1, GoToGoes, StagesOfARequest DEF GrantsInv, Over

LEMMA RevokeDoes ==
  ASSUME GrantsInv, NEW w \in Workers, NEW t \in Tasks, t = task[w], NEW answer, Revoke(w, answer)
  PROVE  /\ t.stage = "revoke" /\ t.name \in Names /\ Answered(answer)
         /\ UNCHANGED <<row, whitelist, pass, held, strangers>>
         /\ consumer' = IF answer = "failed" THEN consumer ELSE [consumer EXCEPT ![t.name] = NoKey]
         /\ \E u \in Tasks :
              /\ task' = [task EXCEPT ![w] = u] /\ u.stage = IF answer = "ok" THEN "erase" ELSE "free"
              /\ u.stage # "free" => SameRequest(t, u) /\ u.id = t.id /\ u.key = t.key /\ u.done = {}
  <1>1. /\ t.stage = "revoke" /\ t.name \in Names /\ Answered(answer)
        /\ UNCHANGED <<row, whitelist, pass, held, strangers>>
        /\ consumer' = IF answer = "failed" THEN consumer ELSE [consumer EXCEPT ![t.name] = NoKey]
    BY DEF Revoke, At, GrantsInv, NamesAreKnown, Busy, Landed
  <1> PICK stage \in Stages : stage = IF answer = "ok" THEN "erase" ELSE "free"
    BY StagesOfARequest
  <1>2. GoTo(w, stage)
    BY DEF Revoke
  <1> QED BY <1>1, <1>2, GoToGoes DEF GrantsInv

LEMMA EraseDoes ==
  ASSUME GrantsInv, NEW w \in Workers, NEW t \in Tasks, t = task[w], Erase(w)
  PROVE  /\ t.stage = "erase" /\ t.name \in Names /\ Over(w)
         /\ UNCHANGED <<consumer, whitelist, pass, used, strangers>>
         /\ IF row[t.name].id = t.id
            THEN row' = [row EXCEPT ![t.name] = NoRow] /\ held' = [held EXCEPT ![t.name] = NoKey]
            ELSE UNCHANGED <<row, held>>
  <1>1. /\ t.stage = "erase" /\ t.name \in Names /\ GoTo(w, "free")
        /\ UNCHANGED <<consumer, whitelist, pass, used, strangers>>
        /\ IF row[t.name].id = t.id
           THEN row' = [row EXCEPT ![t.name] = NoRow] /\ held' = [held EXCEPT ![t.name] = NoKey]
           ELSE UNCHANGED <<row, held>>
    BY DEF Erase, At, GrantsInv, NamesAreKnown, Busy
  <1> QED BY <1>1, GoToGoes, StagesOfARequest DEF GrantsInv, Over

LEMMA BreakDoes ==
  ASSUME GrantsInv, NEW w \in Workers, Break(w)
  PROVE  /\ Busy(w) /\ Over(w) /\ UNCHANGED <<row, consumer, whitelist, pass, held, strangers>>
         /\ used'.breaks = used.breaks + 1 /\ used'.breaks # 0
  <1>1. used.breaks \in Nat /\ used'.breaks = used.breaks + 1
    BY DEF Break, Breaks, GrantsInv, GrantsTypeOK
  <1>2. GoTo(w, "free") /\ Busy(w) /\ UNCHANGED <<row, consumer, whitelist, pass, held, strangers>>
    BY DEF Break, At, Busy
  <1> QED BY <1>1, <1>2, GoToGoes, StagesOfARequest DEF GrantsInv, Over

LEMMA FinishDoes ==
  ASSUME GrantsInv, NEW w \in Workers, NEW t \in Tasks, t = task[w], Finish(w)
  PROVE  /\ t.stage = "finish" /\ t.name \in Names /\ Over(w)
         /\ UNCHANGED <<consumer, whitelist, pass, used, strangers>>
         /\ LET kept == IF t.op = "create" THEN row[t.name] = NoRow
                        ELSE row[t.name] # NoRow /\ row[t.name].id = t.id IN
            /\ held' = IF kept /\ t.op \in NewKeyOps THEN [held EXCEPT ![t.name] = t.key] ELSE held
            /\ ~kept => row' = row
            /\ kept => \E new \in Rows :
                 /\ row' = [row EXCEPT ![t.name] = new]
                 /\ new.id = IF t.op = "create" THEN t.key ELSE row[t.name].id
                 /\ new.grants = IF t.op \in {"create", "update", "rekey"} THEN t.grants
                                 ELSE row[t.name].grants
  <1>1. /\ t.stage = "finish" /\ t.name \in Names /\ GoTo(w, "free")
        /\ UNCHANGED <<consumer, whitelist, pass, used, strangers>>
    BY DEF Finish, At, GrantsInv, NamesAreKnown, Busy
  <1> DEFINE n == t.name
             kept == IF t.op = "create" THEN row[n] = NoRow ELSE row[n] # NoRow /\ row[n].id = t.id
             new == CASE t.op = "create" -> NewRow(w)
                      [] t.op \in {"update", "rekey"} -> [row[n] EXCEPT !.grants = t.grants]
                      [] t.op \in {"renew", "regenerate"} -> [row[n] EXCEPT !.expired = FALSE]
                      [] OTHER -> row[n]
  <1>2. held' = IF kept /\ t.op \in NewKeyOps THEN [held EXCEPT ![n] = t.key] ELSE held
    BY <1>1 DEF Finish
  <1>3. row \in [Names -> Rows] /\ row[n] \in Rows
    BY <1>1 DEF GrantsInv, GrantsTypeOK
  <1>4. ~kept => row' = row
    <2>1. CASE t.op = "create"
      BY <1>1, <1>3, <2>1 DEF Finish
    <2>2. CASE t.op # "create"
      BY <1>1, <1>3, <2>2 DEF Finish
    <2> QED BY <2>1, <2>2
  <1>5. kept => row' = [row EXCEPT ![n] = new]
    <2>1. CASE t.op = "create"
      BY <1>1, <1>3, <2>1 DEF Finish
    <2>2. CASE t.op \in {"update", "rekey"}
      BY <1>1, <1>3, <2>2 DEF Finish
    <2>3. CASE t.op \in {"renew", "regenerate"}
      BY <1>1, <1>3, <2>3 DEF Finish
    <2>4. CASE t.op \notin {"create", "update", "rekey", "renew", "regenerate"}
      BY <1>1, <1>3, <2>4 DEF Finish
    <2> QED BY <2>1, <2>2, <2>3, <2>4
  <1>6. /\ new \in Rows
        /\ new.id = IF t.op = "create" THEN t.key ELSE row[n].id
        /\ new.grants = IF t.op \in {"create", "update", "rekey"} THEN t.grants ELSE row[n].grants
    BY <1>3 DEF NewRow, Rows, Tasks
  <1>7. Over(w)
    BY <1>1, GoToGoes, StagesOfARequest DEF GrantsInv, Over
  <1> HIDE DEF new
  <1> QED BY <1>1, <1>2, <1>4, <1>5, <1>6, <1>7
-------------------------------------------------------------------------------
(* Every request fits the stage it is at. *)
LEMMA FitMoves ==
  ASSUME GrantsInv, TasksFit, NEW w \in Workers, NEW u \in Tasks, task' = [task EXCEPT ![w] = u],
         u.stage # "free" => Fits(u),
         \A n \in Names : row'[n] # NoRow => row'[n].id # 0
  PROVE  TasksFit'
  <1>1. \A v \in Workers : task'[v] = IF v = w THEN u ELSE task[v]
    BY DEF GrantsInv, GrantsTypeOK
  <1> QED BY <1>1 DEF TasksFit, Busy

LEMMA FitGoesOn ==
  ASSUME NEW t \in Tasks, NEW u \in Tasks, Fits(t), SameRequest(t, u),
         t.op \in NewKeyOps => u.key # NoKey,
         u.stage \notin {"put", "undo"} => u.done = {},
         \/ u.stage = "provision" /\ t.op \in NewKeyOps \cup {"limit"}
         \/ u.stage = "finish" /\ t.op = "limit"
         \/ u.stage \in {"list", "put", "undo"} /\ t.op # "limit"
         \/ u.stage = AfterSync(t.op) \/ u.stage = AfterFailure(t.op)
         \/ u.stage = "unclaim" /\ t.op = "create_my"
         \/ u.stage = "cleanup" /\ t.op \in Creating
         \/ u.stage = "erase" /\ t.op \in Deleting,
         u.stage # "free"
  PROVE  Fits(u)
  BY DEF Fits, SameRequest, AfterSync, AfterFailure, Creating, Deleting, NewKeyOps

LEMMA BeginFits ==
  ASSUME GrantsInv, TasksFit, NEW w \in Workers, NEW op \in Offered, NEW n \in Names,
         NEW grants \in Grants, Begin(w, op, n, grants)
  PROVE  TasksFit'
  <1> PICK u \in Tasks :
           /\ task' = [task EXCEPT ![w] = u] /\ ~Busy(w)
           /\ u.stage = FirstStage(op, n) /\ u.op = op /\ u.name = n /\ u.grants = grants
           /\ u.id = row[n].id /\ u.todo = {} /\ u.done = {}
           /\ op \in NewKeyOps => u.key # NoKey
           /\ Accepted(op, n) /\ grants \in GrantsOf(op, n) /\ op \in Ops
           /\ UNCHANGED <<row, consumer, whitelist, pass, held, strangers>>
           /\ used'.faults = used.faults /\ used'.breaks = used.breaks
    BY BeginDoes
  <1>1. op \in Deleting => grants = {}
    BY DEF GrantsOf, Deleting
  <1>2. Fits(u)
    BY <1>1 DEF Fits, FirstStage, Creating, Deleting, NewKeyOps
  <1> QED BY <1>2, FitMoves DEF TasksFit

LEMMA HandlerFits ==
  ASSUME GrantsInv, TasksFit, NEW w \in Workers, Handler(w) \/ Break(w)
  PROVE  TasksFit'
  <1> PICK t \in Tasks : t = task[w]
    BY DEF GrantsInv, GrantsTypeOK
  <1>0. /\ t.stage # "free" => Fits(t)
        /\ \A n \in Names : row[n] # NoRow => row[n].id # 0
        /\ NoRow.id = 0
    BY DEF TasksFit, Busy, NoRow
  <1>1. CASE Claim(w)
    <2>1. PICK u \in Tasks :
              /\ task' = [task EXCEPT ![w] = u]
              /\ \/ /\ row[t.name] = NoRow /\ u.stage = "provision" /\ SameRequest(t, u)
                    /\ u.id = t.key /\ u.key = t.key /\ u.done = t.done
                    /\ row' = [row EXCEPT ![t.name] = NewRow(w)]
                    /\ NewRow(w) \in Rows /\ NewRow(w).id = t.key /\ NewRow(w).grants = t.grants
                 \/ row[t.name] # NoRow /\ u.stage = "free" /\ row' = row
      BY <1>1, ClaimDoes
    <2>2. t.stage = "claim" /\ t.name \in Names
      BY <1>1, ClaimDoes
    <2>3. t.op = "create_my" /\ t.key # 0 /\ t.done = {} /\ t.op \in NewKeyOps
      BY <1>0, <2>2 DEF Fits, NewKeyOps, NoKey
    <2>4. u.stage # "free" => Fits(u)
      BY <1>0, <2>1, <2>2, <2>3, FitGoesOn DEF NoKey
    <2>5. \A n \in Names : row'[n] # NoRow => row'[n].id # 0
      BY <1>0, <2>1, <2>2, <2>3 DEF GrantsInv, GrantsTypeOK
    <2> QED BY <2>1, <2>4, <2>5, FitMoves
  <1>2. ASSUME NEW answer, Fetch(w, answer) PROVE TasksFit'
    <2>1. t.stage = "fetch" /\ row' = row
      BY <1>2, FetchDoes
    <2>2. PICK u \in Tasks :
              /\ task' = [task EXCEPT ![w] = u]
              /\ \/ u.stage = "free"
                 \/ /\ answer = "ok" /\ consumer[t.name] # NoKey
                    /\ u.stage = "provision" /\ u.op = t.op /\ u.name = t.name /\ u.grants = t.grants
                    /\ u.id = t.id /\ u.old = consumer[t.name] /\ u.done = t.done
                    /\ u.key = IF t.op = "limit" THEN consumer[t.name] ELSE t.key
      BY <1>2, FetchDoes
    <2>3. u.stage # "free" => Fits(u)
      BY <1>0, <2>1, <2>2 DEF Fits, NewKeyOps, Deleting
    <2> QED BY <1>0, <2>1, <2>2, <2>3, FitMoves
  <1>3. ASSUME NEW answer, Provision(w, answer) PROVE TasksFit'
    <2>1. t.stage = "provision" /\ row' = row
      BY <1>3, ProvisionDoes
    <2>2. PICK u \in Tasks : Provisioned(w, t, u, answer)
      BY <1>3, ProvisionDoes
    <2>3. u.stage # "free" => Fits(u)
      BY <1>0, <2>1, <2>2, FitGoesOn DEF Fits, Provisioned
    <2> QED BY <1>0, <2>1, <2>2, <2>3, FitMoves DEF Provisioned
  <1>4. ASSUME NEW answer, ListRoutes(w, answer) PROVE TasksFit'
    <2>1. t.stage = "list" /\ row' = row
      BY <1>4, ListRoutesDoes
    <2>2. PICK u \in Tasks : Listed(w, t, u, answer)
      BY <1>4, ListRoutesDoes
    <2>3. Fits(t) /\ t.op # "limit"
      BY <1>0, <2>1 DEF Fits
    <2>4. u.stage # "free" => Fits(u)
      BY <2>2, <2>3, FitGoesOn DEF Fits, Listed
    <2> QED BY <1>0, <2>1, <2>2, <2>4, FitMoves DEF Listed
  <1>5. ASSUME NEW answer, NEW r \in Routes, PutRoute(w, r, answer) PROVE TasksFit'
    <2>1. t.stage = "put" /\ row' = row
      BY <1>5, PutRouteDoes
    <2>2. PICK u \in Tasks : Written(w, t, u, r, answer)
      BY <1>5, PutRouteDoes
    <2>3. Fits(t) /\ t.op # "limit"
      BY <1>0, <2>1 DEF Fits
    <2>4. u.stage # "free" => Fits(u)
      BY <2>2, <2>3, FitGoesOn DEF Fits, Written
    <2> QED BY <1>0, <2>1, <2>2, <2>4, FitMoves DEF Written
  <1>6. ASSUME NEW answer, NEW r \in Routes, UndoRoute(w, r, answer) PROVE TasksFit'
    <2>1. t.stage = "undo" /\ row' = row
      BY <1>6, UndoRouteDoes
    <2>2. PICK u \in Tasks :
              /\ task' = [task EXCEPT ![w] = u]
              /\ u.stage # "free" => SameRequest(t, u) /\ u.id = t.id /\ u.key = t.key
              /\ \/ u.stage = AfterFailure(t.op) /\ (u.stage # "free" => u.done = {})
                 \/ u.stage = "undo"
      BY <1>6, UndoRouteDoes
    <2>3. Fits(t) /\ t.op # "limit"
      BY <1>0, <2>1 DEF Fits
    <2>4. u.stage # "free" => Fits(u)
      BY <2>2, <2>3, FitGoesOn DEF Fits
    <2> QED BY <1>0, <2>1, <2>2, <2>4, FitMoves
  <1>7. CASE Unclaim(w)
    <2>1. /\ t.stage = "unclaim" /\ t.name \in Names
          /\ row' = IF row[t.name].id = t.id THEN [row EXCEPT ![t.name] = NoRow] ELSE row
      BY <1>7, UnclaimDoes
    <2>2. PICK u \in Tasks :
              /\ task' = [task EXCEPT ![w] = u] /\ u.stage = "cleanup"
              /\ SameRequest(t, u) /\ u.id = t.id /\ u.key = t.key /\ u.done = {}
      BY <1>7, UnclaimDoes
    <2>3. Fits(t) /\ t.op \in Creating
      BY <1>0, <2>1 DEF Fits, Creating
    <2>4. Fits(u)
      BY <2>2, <2>3, FitGoesOn DEF Fits
    <2>5. \A n \in Names : row'[n] # NoRow => row'[n].id # 0
      BY <1>0, <2>1 DEF GrantsInv, GrantsTypeOK
    <2> QED BY <2>2, <2>4, <2>5, FitMoves
  <1>8. ASSUME NEW answer, Repair(w, answer) PROVE TasksFit'
    <2>1. row' = row /\ Over(w)
      BY <1>8, RepairDoes
    <2> QED BY <1>0, <2>1, FitMoves DEF Over
  <1>9. ASSUME NEW answer, Revoke(w, answer) PROVE TasksFit'
    <2>1. t.stage = "revoke" /\ row' = row
      BY <1>9, RevokeDoes
    <2>2. PICK u \in Tasks :
              /\ task' = [task EXCEPT ![w] = u] /\ u.stage = IF answer = "ok" THEN "erase" ELSE "free"
              /\ u.stage # "free" => SameRequest(t, u) /\ u.id = t.id /\ u.key = t.key /\ u.done = {}
      BY <1>9, RevokeDoes
    <2>3. Fits(t) /\ t.op \in Deleting
      BY <1>0, <2>1 DEF Fits
    <2>4. u.stage # "free" => Fits(u)
      BY <2>2, <2>3, FitGoesOn DEF Fits
    <2> QED BY <1>0, <2>1, <2>2, <2>4, FitMoves
  <1>10. CASE Erase(w)
    <2>1. Over(w) /\ t.name \in Names /\ (row' = row \/ row' = [row EXCEPT ![t.name] = NoRow])
      BY <1>10, EraseDoes
    <2>2. \A n \in Names : row'[n] # NoRow => row'[n].id # 0
      BY <1>0, <2>1 DEF GrantsInv, GrantsTypeOK
    <2> QED BY <2>1, <2>2, FitMoves DEF Over
  <1>11. CASE Break(w)
    <2>1. row' = row /\ Over(w)
      BY <1>11, BreakDoes
    <2> QED BY <1>0, <2>1, FitMoves DEF Over
  <1>12. CASE Finish(w)
    <2> DEFINE kept == IF t.op = "create" THEN row[t.name] = NoRow
                       ELSE row[t.name] # NoRow /\ row[t.name].id = t.id
    <2>1. /\ Over(w) /\ t.name \in Names /\ t.stage = "finish" /\ (~kept => row' = row)
          /\ kept => \E new \in Rows :
                 /\ row' = [row EXCEPT ![t.name] = new]
                 /\ new.id = IF t.op = "create" THEN t.key ELSE row[t.name].id
      BY <1>12, FinishDoes
    <2>2. t.op = "create" => t.key # 0
      BY <1>0, <2>1 DEF Fits, NewKeyOps, NoKey
    <2>3. \A n \in Names : row'[n] # NoRow => row'[n].id # 0
      <3>1. CASE ~kept
        BY <1>0, <2>1, <3>1
      <3>2. CASE kept
        <4>1. PICK new \in Rows : /\ row' = [row EXCEPT ![t.name] = new]
                                  /\ new.id = IF t.op = "create" THEN t.key ELSE row[t.name].id
          BY <2>1, <3>2
        <4>2. new.id # 0
          BY <1>0, <2>1, <2>2, <3>2, <4>1
        <4> QED BY <1>0, <4>1, <4>2 DEF GrantsInv, GrantsTypeOK
      <3> QED BY <3>1, <3>2
    <2> QED BY <2>1, <2>3, FitMoves DEF Over
  <1> QED BY <1>1, <1>2, <1>3, <1>4, <1>5, <1>6, <1>7, <1>8, <1>9, <1>10, <1>11, <1>12 DEF Handler

LEMMA FitStep ==
  ASSUME GrantsInv, TasksFit, [Next]_vars
  PROVE  TasksFit'
  <1>1. ASSUME NEW w \in Workers, Handler(w) \/ Break(w) PROVE TasksFit'
    BY <1>1, HandlerFits
  <1>2. ASSUME NEW w \in Workers, NEW op \in Offered, NEW n \in Names, NEW grants \in Grants,
               Begin(w, op, n, grants) PROVE TasksFit'
    BY <1>2, BeginFits
  <1>3. ASSUME NEW n \in Names, Expire(n) PROVE TasksFit'
    <2>1. row \in [Names -> Rows] /\ UNCHANGED task /\ row' = [row EXCEPT ![n].expired = TRUE]
      BY <1>3 DEF Expire, GrantsInv, GrantsTypeOK
    <2>2. \A m \in Names : row'[m].id = row[m].id
      BY <2>1 DEF Rows
    <2> QED BY <1>3, <2>1, <2>2 DEF Expire, TasksFit, Busy
  <1>4. ASSUME NEW x \in Strangers, NEW r \in Routes, HandEdit(x, r) PROVE TasksFit'
    BY <1>4 DEF HandEdit, TasksFit, Busy
  <1>5. ASSUME NEW p \in Passes, PassStep(p) PROVE TasksFit'
    BY <1>5 DEF PassStep, Snapshot, PassList, PassPut, TasksFit, Busy
  <1>6. CASE UNCHANGED vars
    BY <1>6 DEF vars, TasksFit, Busy
  <1> QED BY <1>1, <1>2, <1>3, <1>4, <1>5, <1>6 DEF Next, Outside
-------------------------------------------------------------------------------
(* The keys that were handed out work. *)
ValueKept(n) == row'[n].id = row[n].id /\ consumer'[n] = consumer[n]
KeyKept(n) == ValueKept(n) /\ held'[n] = held[n]

(* Who needs the key of its name to stay as it is.                         *)
Relying(w) ==
  Making(w) \/ Changing(w) \/ (task[w].op = "limit" /\ task[w].stage = "provision")

LEMMA RowsById ==
  ASSUME TasksFit, NEW n \in Names
  PROVE  row[n] = NoRow <=> row[n].id = 0
  BY DEF TasksFit, NoRow

LEMMA RekeyingIsAlone ==
  ASSUME Recorded, Orderly'
  PROVE  \A w, v \in Workers : SameKey(w, v)' => ~Changing(w)' /\ ~Changing(v)'
  <1>1. "rekeying" \notin Meetings(task')
    BY DEF Recorded, Orderly
  <1> QED BY <1>1 DEF Meetings, SameKey, Changing, Busy

LEMMA KeysMove ==
  ASSUME GrantsInv, TasksFit, TasksFit', KeysInv, Recorded,
         NEW w \in Workers, NEW u \in Tasks, NEW n \in Names, task' = [task EXCEPT ![w] = u],
         Busy(w) \/ u.stage # "free",
         Busy(w) => task[w].name = n,
         u.stage # "free" => u.name = n,
         Orderly' =>
           /\ Orderly
           /\ \A m \in Names \ {n} : KeyKept(m)
           /\ ValueKept(n) \/ \A v \in Workers \ {w} : Relying(v) => task[v].name # n
           /\ Making(w)' => \A v \in Workers \ {w} : Making(v) => task[v].name # n
           /\ u.stage \notin {"undo", "unclaim", "cleanup", "restore"}
           /\ Making(w)' => MadeOnce(u)'
           /\ Changing(w)' => ChangedAlone(u)'
           /\ u.op = "limit" /\ u.stage = "provision" => u.key = consumer'[n] /\ u.key # NoKey
           /\ ~Making(w)' /\ ~Changing(w)'
              /\ (\A v \in Workers \ {w} : Making(v) \/ Changing(v) => task[v].name # n) =>
                   Keyed(n)'
  PROVE  KeysInv'
  <1> SUFFICES ASSUME Orderly' PROVE KeysInv'
    BY DEF KeysInv
  <1>1. \A v \in Workers : task'[v] = IF v = w THEN u ELSE task[v]
    BY DEF GrantsInv, GrantsTypeOK
  <1>2. \A v \in Workers \ {w} : /\ Making(v)' = Making(v) /\ Changing(v)' = Changing(v)
                                 /\ Busy(v)' = Busy(v) /\ task'[v] = task[v]
    BY <1>1 DEF Making, Changing, Busy
  <1>3. Orderly /\ KeysInv
    OBVIOUS
  <1>4. \A v \in Workers \ {w} : Busy(v) /\ task[v].name = n => ~Changing(v)
    <2>1. CASE u.stage # "free"
      BY <1>1, <1>2, <2>1, RekeyingIsAlone DEF SameKey, Busy
    <2>2. CASE Busy(w)
      BY <1>3, <2>2 DEF KeysInv, SameKey
    <2> QED BY <2>1, <2>2
  <1>5. ASSUME NEW m \in Names, \A v \in Workers : Making(v)' \/ Changing(v)' => task'[v].name # m
        PROVE  Keyed(m)'
    <2>1. CASE m = n
      <3>1. \A v \in Workers \ {w} : Making(v) \/ Changing(v) => task[v].name # n
        BY <1>2, <1>5, <2>1
      <3>2. ~Making(w)' /\ ~Changing(w)'
        BY <1>1, <1>5, <2>1 DEF Making, Changing, Busy
      <3> QED BY <2>1, <3>1, <3>2
    <2>2. CASE m # n
      <3>1. \A v \in Workers : Making(v) \/ Changing(v) => task[v].name # m
        BY <1>2, <1>5, <2>2 DEF Making, Changing
      <3>2. Keyed(m)
        BY <1>3, <3>1 DEF KeysInv
      <3>3. KeyKept(m)
        BY <2>2
      <3>4. (row[m] = NoRow <=> row[m].id = 0) /\ (row'[m] = NoRow <=> row'[m].id = 0)
        BY DEF TasksFit, NoRow
      <3> QED BY <3>2, <3>3, <3>4 DEF Keyed, KeyKept, ValueKept
    <2> QED BY <2>1, <2>2
  <1>6. ASSUME NEW v \in Workers, NEW x \in Workers, SameKey(v, x)'
        PROVE  ~Changing(v)' /\ ~(Making(v)' /\ Making(x)')
    <2>1. ~Changing(v)'
      BY <1>6, RekeyingIsAlone
    <2>2. CASE v # w /\ x # w
      BY <1>2, <1>3, <1>6, <2>1, <2>2 DEF KeysInv, SameKey
    <2>3. CASE v = w
      BY <1>1, <1>2, <1>6, <2>1, <2>3 DEF SameKey, Making, Busy
    <2>4. CASE x = w
      BY <1>1, <1>2, <1>6, <2>1, <2>4 DEF SameKey, Making, Busy
    <2> QED BY <2>2, <2>3, <2>4
  <1>7. ASSUME NEW v \in Workers
        PROVE  /\ task'[v].stage \notin {"undo", "unclaim", "cleanup", "restore"}
               /\ Making(v)' => MadeOnce(task[v])'
               /\ Changing(v)' => ChangedAlone(task[v])'
               /\ task'[v].op = "limit" /\ task'[v].stage = "provision" =>
                    task'[v].key = consumer'[task'[v].name] /\ task'[v].key # NoKey
    <2>1. CASE v = w
      <3>1. task'[v] = u
        BY <1>1, <2>1
      <3>2. MadeOnce(u)' <=> MadeOnce(task[v])'
        BY <3>1 DEF MadeOnce
      <3>3. ChangedAlone(u)' <=> ChangedAlone(task[v])'
        BY <3>1 DEF ChangedAlone, Keyed
      <3> QED BY <2>1, <3>1, <3>2, <3>3
    <2>2. CASE v # w
      <3>1. /\ task[v].stage \notin {"undo", "unclaim", "cleanup", "restore"}
            /\ Making(v) => MadeOnce(task[v])
            /\ Changing(v) => ChangedAlone(task[v])
            /\ task[v].op = "limit" /\ task[v].stage = "provision" =>
                 task[v].key = consumer[task[v].name] /\ task[v].key # NoKey
        BY <1>3 DEF KeysInv
      <3>2. task'[v] = task[v] /\ Making(v)' = Making(v) /\ Changing(v)' = Changing(v)
        BY <1>2, <2>2
      <3>3. CASE ~Relying(v)
        BY <3>1, <3>2, <3>3 DEF Relying
      <3>4. CASE Relying(v)
        <4>1. Busy(v) /\ task[v].name \in Names
          BY <3>4 DEF Relying, Making, Changing, Busy, GrantsInv, NamesAreKnown
        <4>2. ValueKept(task[v].name)
          BY <2>2, <3>4, <4>1 DEF KeyKept, ValueKept
        <4>3. PICK m \in Names : m = task[v].name
          BY <4>1
        <4>4. (row[m] = NoRow <=> row[m].id = 0) /\ (row'[m] = NoRow <=> row'[m].id = 0)
          BY DEF TasksFit, NoRow
        <4>5. MadeOnce(task[v]) => MadeOnce(task[v])'
          BY <3>2, <4>2, <4>3, <4>4 DEF MadeOnce, KeyKept, ValueKept
        <4>6. Changing(v) /\ ChangedAlone(task[v]) => ChangedAlone(task[v])'
          <5> SUFFICES ASSUME Changing(v) PROVE ChangedAlone(task[v]) => ChangedAlone(task[v])'
            OBVIOUS
          <5>1. KeyKept(task[v].name)
            BY <1>4, <2>2, <4>1 DEF KeyKept, ValueKept
          <5> QED BY <3>2, <4>3, <4>4, <5>1 DEF ChangedAlone, KeyKept, ValueKept, Keyed
        <4> QED BY <3>1, <3>2, <4>2, <4>5, <4>6 DEF ValueKept
      <3> QED BY <3>3, <3>4
    <2> QED BY <2>1, <2>2
  <1> QED BY <1>5, <1>6, <1>7 DEF KeysInv

(* The steps of a request, for the keys. *)
LEMMA BeginKeys ==
  ASSUME GrantsInv, TasksFit, TasksFit', KeysInv, Recorded, NEW w \in Workers, NEW op \in Offered,
         NEW n \in Names, NEW grants \in Grants, Begin(w, op, n, grants)
  PROVE  KeysInv'
  <1>1. PICK u \in Tasks :
           /\ task' = [task EXCEPT ![w] = u] /\ ~Busy(w)
           /\ u.stage = FirstStage(op, n) /\ u.op = op /\ u.name = n /\ u.grants = grants
           /\ u.id = row[n].id /\ u.todo = {} /\ u.done = {}
           /\ op \in NewKeyOps => u.key # NoKey
           /\ Accepted(op, n) /\ grants \in GrantsOf(op, n) /\ op \in Ops
           /\ UNCHANGED <<row, consumer, whitelist, pass, held, strangers>>
           /\ used'.faults = used.faults /\ used'.breaks = used.breaks
    BY BeginDoes
  <1>2. task'[w] = u
    BY <1>1 DEF GrantsInv, GrantsTypeOK
  <1>3. Orderly' => Orderly
    BY <1>1 DEF Orderly, Recorded
  <1>4. \A m \in Names : KeyKept(m)
    BY <1>1 DEF KeyKept, ValueKept
  <1>5. u.stage \in {"provision", "claim", "fetch", "revoke", "list"}
    BY <1>1 DEF FirstStage
  <1>6. ~Making(w)'
    BY <1>1, <1>2 DEF Making, FirstStage
  <1>7. u.op = "limit" => u.stage # "provision"
    BY <1>1 DEF FirstStage
  <1>8. ASSUME Orderly', Changing(w)' PROVE ChangedAlone(u)'
    <2>1. IF u.op = "create" THEN row[n] = NoRow ELSE row[n] # NoRow /\ row[n].id = u.id
      BY <1>1, <1>2, <1>8 DEF Accepted, Changing, Rekeying
    <2>2. ~(u.stage \in {"list", "put", "finish"} /\ u.op \in NewKeyOps)
      BY <1>1, <1>2, <1>8 DEF FirstStage, NewKeyOps, Changing, Rekeying
    <2>3. ASSUME NEW v \in Workers, Making(v) \/ Changing(v) PROVE task[v].name # n
      <3>1. v # w
        BY <1>1, <2>3 DEF Making, Changing
      <3>2. task'[v] = task[v] /\ Busy(v)' /\ Busy(w)'
        BY <1>1, <1>8, <2>3, <3>1 DEF Making, Changing, Busy, GrantsInv, GrantsTypeOK
      <3>3. ~SameKey(w, v)'
        BY <1>8, RekeyingIsAlone
      <3> QED BY <1>1, <1>2, <3>1, <3>2, <3>3 DEF SameKey
    <2>4. Keyed(n)
      BY <1>3, <1>8, <2>3 DEF KeysInv
    <2> QED BY <1>1, <1>5, <2>1, <2>2, <2>4 DEF ChangedAlone, Keyed
  <1>9. Orderly' /\ (\A v \in Workers \ {w} : Making(v) \/ Changing(v) => task[v].name # n) =>
          Keyed(n)'
    <2>1. ~Making(w) /\ ~Changing(w)
      BY <1>1 DEF Making, Changing
    <2> QED BY <1>1, <1>3, <2>1 DEF KeysInv, Keyed
  <1> QED BY <1>1, <1>3, <1>4, <1>5, <1>6, <1>7, <1>8, <1>9, KeysMove DEF KeyKept

LEMMA ClaimKeys ==
  ASSUME GrantsInv, TasksFit, TasksFit', KeysInv, Recorded, NEW w \in Workers, NEW t \in Tasks,
         t = task[w], Claim(w)
  PROVE  KeysInv'
  <1> DEFINE n == t.name
  <1>1. /\ t.stage = "claim" /\ n \in Names
        /\ UNCHANGED <<consumer, whitelist, pass, used, held, strangers>>
    BY ClaimDoes
  <1>2. PICK u \in Tasks :
              /\ task' = [task EXCEPT ![w] = u]
              /\ \/ /\ row[t.name] = NoRow /\ u.stage = "provision" /\ SameRequest(t, u)
                    /\ u.id = t.key /\ u.key = t.key /\ u.done = t.done
                    /\ row' = [row EXCEPT ![t.name] = NewRow(w)]
                    /\ NewRow(w) \in Rows /\ NewRow(w).id = t.key /\ NewRow(w).grants = t.grants
                 \/ row[t.name] # NoRow /\ u.stage = "free" /\ row' = row
    BY ClaimDoes
  <1>3. task'[w] = u /\ Busy(w) /\ t.op = "create_my" /\ t.key # NoKey /\ row \in [Names -> Rows]
    BY <1>1, <1>2 DEF GrantsInv, GrantsTypeOK, TasksFit, Fits, Busy, NewKeyOps
  <1>4. Orderly' => Orderly
    BY <1>1 DEF Orderly, Recorded
  <1>5. ~Making(w) /\ ~Changing(w) /\ ~Changing(w)'
    BY <1>1, <1>2, <1>3 DEF Making, Changing, Rekeying, SameRequest, Busy
  <1>6. CASE u.stage = "free"
    <2>1. row' = row /\ \A m \in Names : KeyKept(m)
      BY <1>1, <1>2, <1>6 DEF KeyKept, ValueKept
    <2>2. ~Making(w)'
      BY <1>3, <1>6 DEF Making, Busy
    <2>3. Orderly' /\ (\A v \in Workers \ {w} : Making(v) \/ Changing(v) => task[v].name # n) =>
            Keyed(n)'
      BY <1>1, <1>4, <1>5, <2>1 DEF KeysInv, Keyed
    <2> QED BY <1>1, <1>2, <1>3, <1>4, <1>5, <1>6, <2>1, <2>2, <2>3, KeysMove DEF KeyKept
  <1>7. CASE row[n] = NoRow /\ u.stage = "provision"
    <2>1. /\ u.name = n /\ u.op = "create_my" /\ u.id = t.key /\ row'[n].id = t.key
          /\ \A m \in Names \ {n} : KeyKept(m)
      BY <1>1, <1>2, <1>3, <1>7 DEF KeyKept, ValueKept, SameRequest
    <2>2. ASSUME Orderly', NEW v \in Workers \ {w}, Busy(v), task[v].name = n
          PROVE  ~Making(v) /\ ~Changing(v)
      BY <1>1, <1>3, <1>4, <1>7, <2>2 DEF KeysInv, SameKey, MadeOnce
    <2>3. ASSUME Orderly' PROVE consumer[n] = NoKey
      <3>1. \A v \in Workers : Making(v) \/ Changing(v) => task[v].name # n
        BY <1>5, <2>2, <2>3 DEF Making, Changing
      <3> QED BY <1>1, <1>4, <1>7, <2>3, <3>1 DEF KeysInv, Keyed
    <2>4. Orderly' => \A v \in Workers \ {w} : Relying(v) => task[v].name # n
      <3> SUFFICES ASSUME Orderly', NEW v \in Workers \ {w}, Relying(v), task[v].name = n
                   PROVE  FALSE
        OBVIOUS
      <3>1. Busy(v)
        BY DEF Relying, Making, Changing, Busy
      <3>2. task[v].op = "limit" /\ task[v].stage = "provision"
        BY <2>2, <3>1 DEF Relying
      <3> QED BY <1>4, <2>3, <3>2 DEF KeysInv
    <2>5. ASSUME Orderly' PROVE MadeOnce(u)'
      <3>1. row'[n] # NoRow
        BY <1>3, <2>1 DEF NoRow, NoKey
      <3> QED BY <1>1, <1>2, <1>7, <2>1, <2>3, <2>5, <3>1 DEF MadeOnce
    <2>6. Making(w)'
      BY <1>3, <1>7, <2>1 DEF Making, Busy
    <2>7. Orderly' => \A v \in Workers \ {w} : Making(v) => task[v].name # n
      BY <2>4 DEF Relying
    <2> QED BY <1>1, <1>2, <1>3, <1>4, <1>5, <1>7, <2>1, <2>4, <2>5, <2>6, <2>7, KeysMove
  <1> QED BY <1>2, <1>6, <1>7

LEMMA FetchKeys ==
  ASSUME GrantsInv, TasksFit, TasksFit', KeysInv, Recorded, NEW w \in Workers, NEW t \in Tasks,
         t = task[w], NEW answer, Fetch(w, answer)
  PROVE  KeysInv'
  <1> DEFINE n == t.name
  <1>1. /\ t.stage = "fetch" /\ n \in Names /\ Answered(answer)
        /\ UNCHANGED <<row, consumer, whitelist, pass, held, strangers>>
    BY FetchDoes
  <1>2. PICK u \in Tasks :
              /\ task' = [task EXCEPT ![w] = u]
              /\ \/ u.stage = "free"
                 \/ /\ answer = "ok" /\ consumer[t.name] # NoKey
                    /\ u.stage = "provision" /\ u.op = t.op /\ u.name = t.name /\ u.grants = t.grants
                    /\ u.id = t.id /\ u.old = consumer[t.name] /\ u.done = t.done
                    /\ u.key = IF t.op = "limit" THEN consumer[t.name] ELSE t.key
    BY FetchDoes
  <1>3. task'[w] = u /\ Busy(w) /\ t.op \in {"limit", "rekey"}
    BY <1>1, <1>2 DEF GrantsInv, GrantsTypeOK, TasksFit, Fits, Busy
  <1>4. Orderly' => Orderly
    BY <1>1, FaultsAdd DEF Orderly, Recorded, GrantsInv, GrantsTypeOK
  <1>5. \A m \in Names : KeyKept(m)
    BY <1>1 DEF KeyKept, ValueKept
  <1>6. ~Making(w)' /\ ~Making(w)
    BY <1>2, <1>3 DEF Making, Busy
  <1>7. ASSUME Orderly', Changing(w)' PROVE ChangedAlone(u)'
    <2>1. u.stage = "provision" /\ u.op = t.op /\ Changing(w)
      BY <1>2, <1>3, <1>7 DEF Changing, Busy
    <2>2. ChangedAlone(t)
      BY <1>4, <1>7, <2>1 DEF KeysInv
    <2> QED BY <1>1, <1>2, <1>3, <2>1, <2>2 DEF ChangedAlone
  <1>8. Orderly' /\ ~Changing(w)'
          /\ (\A v \in Workers \ {w} : Making(v) \/ Changing(v) => task[v].name # n) => Keyed(n)'
    <2> SUFFICES ASSUME Orderly', ~Changing(w)',
                        \A v \in Workers \ {w} : Making(v) \/ Changing(v) => task[v].name # n
                 PROVE  Keyed(n)
      BY <1>1 DEF Keyed
    <2>1. CASE Changing(w)
      <3>1. ChangedAlone(t)
        BY <1>4, <2>1 DEF KeysInv
      <3> QED BY <1>1, <3>1 DEF ChangedAlone
    <2>2. CASE ~Changing(w)
      BY <1>1, <1>4, <1>6, <2>2 DEF KeysInv
    <2> QED BY <2>1, <2>2
  <1>9. u.op = "limit" /\ u.stage = "provision" => u.key = consumer'[n] /\ u.key # NoKey
    BY <1>1, <1>2
  <1> QED BY <1>1, <1>2, <1>3, <1>4, <1>5, <1>6, <1>7, <1>8, <1>9, KeysMove DEF KeyKept

LEMMA ProvisionKeys ==
  ASSUME GrantsInv, TasksFit, TasksFit', KeysInv, Recorded, NEW w \in Workers, NEW t \in Tasks,
         t = task[w], NEW answer, Provision(w, answer)
  PROVE  KeysInv'
  <1> DEFINE n == t.name
  <1>1. /\ t.stage = "provision" /\ n \in Names /\ Answered(answer)
        /\ UNCHANGED <<row, whitelist, pass, held, strangers>>
        /\ consumer' = IF answer = "failed" THEN consumer ELSE [consumer EXCEPT ![n] = t.key]
    BY ProvisionDoes
  <1>2. PICK u \in Tasks : Provisioned(w, t, u, answer)
    BY ProvisionDoes
  <1>3. task' = [task EXCEPT ![w] = u] /\ task'[w] = u /\ Busy(w) /\ t.op \in NewKeyOps \cup {"limit"}
        /\ (t.op \in NewKeyOps => t.key # NoKey)
    BY <1>1, <1>2 DEF GrantsInv, GrantsTypeOK, TasksFit, Fits, Busy, Provisioned
  <1>4. Orderly' => Orderly /\ answer = "ok"
    BY <1>1, FaultsAdd DEF Orderly, Recorded, GrantsInv, GrantsTypeOK
  <1>5. u.stage # "free" => u.name = n
    BY <1>2 DEF Provisioned, SameRequest
  <1> SUFFICES ASSUME Orderly' PROVE KeysInv'
    BY DEF KeysInv
  <1>6. /\ consumer' = [consumer EXCEPT ![n] = t.key] /\ u.op = t.op /\ u.name = n /\ u.id = t.id
        /\ u.key = t.key /\ u.stage = IF t.op = "limit" THEN "finish" ELSE "list"
    BY <1>1, <1>2, <1>4 DEF Provisioned, SameRequest
  <1>7. consumer'[n] = t.key /\ \A m \in Names \ {n} : KeyKept(m)
    BY <1>1, <1>6 DEF KeyKept, ValueKept, GrantsInv, GrantsTypeOK
  <1>8. u.stage \notin {"free", "undo", "unclaim", "cleanup", "restore"} /\ u.stage # "provision"
    BY <1>6
  <1>9. Making(w)' = Making(w) /\ Changing(w)' = Changing(w) /\ (Making(w) <=> t.op = "create_my")
    BY <1>1, <1>3, <1>6, <1>8 DEF Making, Changing, Busy
  <1>10. CASE t.op = "limit"
    <2>1. KeyKept(n) /\ consumer[n] = t.key
      BY <1>1, <1>4, <1>7, <1>10 DEF KeyKept, ValueKept, KeysInv
    <2>2. ~Making(w) /\ ~Changing(w)
      BY <1>9, <1>10 DEF Changing, Rekeying
    <2>3. (\A v \in Workers \ {w} : Making(v) \/ Changing(v) => task[v].name # n) => Keyed(n)'
      BY <1>1, <1>4, <1>7, <2>1, <2>2 DEF KeysInv, Keyed
    <2> QED BY <1>1, <1>3, <1>4, <1>5, <1>7, <1>8, <1>9, <2>1, <2>2, <2>3, KeysMove DEF KeyKept
  <1>11. CASE t.op # "limit"
    <2>1. t.op = "create_my" \/ t.op \in Rekeying
      BY <1>3, <1>11 DEF NewKeyOps, Rekeying
    <2>2. Making(w) \/ Changing(w)
      BY <1>3, <1>9, <2>1 DEF Changing
    <2>3. \A v \in Workers \ {w} : Relying(v) => task[v].name # n
      <3> SUFFICES ASSUME NEW v \in Workers \ {w}, Relying(v), task[v].name = n PROVE FALSE
        OBVIOUS
      <3>1. SameKey(w, v) /\ SameKey(v, w)
        BY <1>1, <1>3 DEF SameKey, Relying, Making, Changing, Busy
      <3>2. Making(w) /\ ~Making(v) /\ ~Changing(v)
        BY <1>4, <2>2, <3>1 DEF KeysInv
      <3>3. task[v].op = "limit" /\ task[v].stage = "provision"
        BY <3>2 DEF Relying
      <3>4. consumer[n] = NoKey
        BY <1>1, <1>4, <3>2 DEF KeysInv, MadeOnce
      <3> QED BY <1>4, <3>3, <3>4 DEF KeysInv
    <2>4. Making(w)' => MadeOnce(u)'
      <3> SUFFICES ASSUME Making(w)' PROVE MadeOnce(u)'
        OBVIOUS
      <3>1. MadeOnce(t)
        BY <1>4, <1>9 DEF KeysInv
      <3> QED BY <1>1, <1>6, <1>7, <1>8, <3>1 DEF MadeOnce
    <2>5. Changing(w)' => ChangedAlone(u)'
      <3> SUFFICES ASSUME Changing(w)' PROVE ChangedAlone(u)'
        OBVIOUS
      <3>1. ChangedAlone(t)
        BY <1>4, <1>9 DEF KeysInv
      <3> QED BY <1>1, <1>6, <1>7, <1>11, <3>1 DEF ChangedAlone
    <2>6. \A v \in Workers \ {w} : Making(v) => task[v].name # n
      BY <2>3 DEF Relying
    <2> QED BY <1>1, <1>3, <1>4, <1>5, <1>7, <1>8, <1>9, <2>2, <2>3, <2>4, <2>5, <2>6, KeysMove
  <1> QED BY <1>10, <1>11

(* The whitelists and the failures are nothing to the keys.               *)
LEMMA SyncKeys ==
  ASSUME GrantsInv, TasksFit, TasksFit', KeysInv, Recorded, NEW w \in Workers, NEW t \in Tasks,
         t = task[w], Busy(w), NEW u \in Tasks, task' = [task EXCEPT ![w] = u],
         UNCHANGED <<row, consumer, held>>, t.stage \in {"list", "put"}, t.name \in Names,
         Orderly' => /\ Orderly
                     /\ u.stage \in {"put", "revoke", "finish"}
                     /\ SameRequest(t, u) /\ u.id = t.id /\ u.key = t.key
  PROVE  KeysInv'
  <1> DEFINE n == t.name
  <1> SUFFICES ASSUME Orderly' PROVE KeysInv'
    BY DEF KeysInv
  <1>1. /\ u.stage \in {"put", "revoke", "finish"} /\ u.name = n /\ u.op = t.op /\ u.id = t.id
        /\ u.key = t.key /\ Orderly
    BY DEF SameRequest
  <1>2. task'[w] = u /\ \A m \in Names : KeyKept(m)
    BY DEF KeyKept, ValueKept, GrantsInv, GrantsTypeOK
  <1>3. Making(w)' = Making(w) /\ Changing(w)' = Changing(w)
    BY <1>1, <1>2 DEF Making, Changing, Busy
  <1>4. Making(w)' => MadeOnce(u)'
    <2> SUFFICES ASSUME Making(w)' PROVE MadeOnce(u)'
      OBVIOUS
    <2>1. MadeOnce(t)
      BY <1>1, <1>3 DEF KeysInv
    <2> QED BY <1>1, <2>1 DEF MadeOnce
  <1>5. Changing(w)' => ChangedAlone(u)'
    <2> SUFFICES ASSUME Changing(w)' PROVE ChangedAlone(u)'
      OBVIOUS
    <2>1. ChangedAlone(t)
      BY <1>1, <1>3 DEF KeysInv
    <2> QED BY <1>1, <2>1 DEF ChangedAlone
  <1>6. Making(w) => \A v \in Workers \ {w} : Making(v) => task[v].name # n
    BY <1>1 DEF KeysInv, SameKey, Making
  <1>7. ~Making(w)' /\ ~Changing(w)'
          /\ (\A v \in Workers \ {w} : Making(v) \/ Changing(v) => task[v].name # n) => Keyed(n)'
    BY <1>1, <1>3 DEF KeysInv, Keyed
  <1> QED BY <1>1, <1>2, <1>3, <1>4, <1>5, <1>6, <1>7, KeysMove DEF KeyKept

LEMMA ListRoutesKeys ==
  ASSUME GrantsInv, TasksFit, TasksFit', KeysInv, Recorded, NEW w \in Workers, NEW t \in Tasks,
         t = task[w], NEW answer, ListRoutes(w, answer)
  PROVE  KeysInv'
  <1>1. /\ t.stage = "list" /\ t.name \in Names /\ Answered(answer)
        /\ UNCHANGED <<row, consumer, whitelist, pass, held, strangers>>
    BY ListRoutesDoes
  <1>2. PICK u \in Tasks : Listed(w, t, u, answer)
    BY ListRoutesDoes
  <1>3. Orderly' => Orderly /\ answer = "ok"
    BY <1>1, FaultsAdd DEF Orderly, Recorded, GrantsInv, GrantsTypeOK
  <1>4. task' = [task EXCEPT ![w] = u] /\ Busy(w)
    BY <1>1, <1>2 DEF Listed, Busy
  <1>5. answer = "ok" => /\ u.stage \in {"put", "revoke", "finish"}
                         /\ SameRequest(t, u) /\ u.id = t.id /\ u.key = t.key
    BY <1>2 DEF Listed, AfterSync
  <1> QED BY <1>1, <1>3, <1>4, <1>5, SyncKeys

LEMMA PutRouteKeys ==
  ASSUME GrantsInv, TasksFit, TasksFit', KeysInv, Recorded, NEW w \in Workers, NEW t \in Tasks,
         t = task[w], NEW r \in Routes, NEW answer, PutRoute(w, r, answer)
  PROVE  KeysInv'
  <1>1. /\ t.stage = "put" /\ t.name \in Names /\ Answered(answer)
        /\ UNCHANGED <<row, consumer, pass, held, strangers>>
    BY PutRouteDoes
  <1>2. PICK u \in Tasks : Written(w, t, u, r, answer)
    BY PutRouteDoes
  <1>3. Orderly' => Orderly /\ answer = "ok"
    BY <1>1, FaultsAdd DEF Orderly, Recorded, GrantsInv, GrantsTypeOK
  <1>4. task' = [task EXCEPT ![w] = u] /\ Busy(w)
    BY <1>1, <1>2 DEF Written, Busy
  <1>5. answer = "ok" => /\ u.stage \in {"put", "revoke", "finish"}
                         /\ SameRequest(t, u) /\ u.id = t.id /\ u.key = t.key
    BY <1>2 DEF Written, AfterSync
  <1> QED BY <1>1, <1>3, <1>4, <1>5, SyncKeys

(* Where a failure has led is not orderly.                                 *)
LEMMA FailureKeys ==
  ASSUME GrantsInv, KeysInv, Recorded, NEW w \in Workers,
         task[w].stage \in {"undo", "unclaim", "cleanup", "restore"},
         used' = used \/ \E answer : Answered(answer)
  PROVE  KeysInv'
  <1>1. Orderly' => Orderly
    BY FaultsAdd DEF Orderly, Recorded, GrantsInv, GrantsTypeOK
  <1> QED BY <1>1 DEF KeysInv

LEMMA RevokeKeys ==
  ASSUME GrantsInv, TasksFit, TasksFit', KeysInv, Recorded, NEW w \in Workers, NEW t \in Tasks,
         t = task[w], NEW answer, Revoke(w, answer)
  PROVE  KeysInv'
  <1> DEFINE n == t.name
  <1>1. /\ t.stage = "revoke" /\ n \in Names /\ Answered(answer)
        /\ UNCHANGED <<row, whitelist, pass, held, strangers>>
        /\ consumer' = IF answer = "failed" THEN consumer ELSE [consumer EXCEPT ![t.name] = NoKey]
    BY RevokeDoes
  <1>2. PICK u \in Tasks :
              /\ task' = [task EXCEPT ![w] = u] /\ u.stage = IF answer = "ok" THEN "erase" ELSE "free"
              /\ u.stage # "free" => SameRequest(t, u) /\ u.id = t.id /\ u.key = t.key /\ u.done = {}
    BY RevokeDoes
  <1>3. Orderly' => Orderly /\ answer = "ok"
    BY <1>1, FaultsAdd DEF Orderly, Recorded, GrantsInv, GrantsTypeOK
  <1> SUFFICES ASSUME Orderly' PROVE KeysInv'
    BY DEF KeysInv
  <1>4. /\ u.stage = "erase" /\ u.name = n /\ u.op = t.op /\ u.id = t.id /\ task'[w] = u /\ Busy(w)
        /\ t.op \in Deleting
    BY <1>1, <1>2, <1>3 DEF SameRequest, GrantsInv, GrantsTypeOK, Busy, TasksFit, Fits
  <1>5. consumer'[n] = NoKey /\ \A m \in Names \ {n} : KeyKept(m)
    BY <1>1, <1>3 DEF KeyKept, ValueKept, GrantsInv, GrantsTypeOK
  <1>6. Changing(w) /\ Changing(w)' /\ ~Making(w)'
    BY <1>4 DEF Changing, Making, Busy, Deleting, Rekeying
  <1>7. ChangedAlone(t)
    BY <1>3, <1>6 DEF KeysInv
  <1>8. ChangedAlone(u)'
    BY <1>1, <1>4, <1>5, <1>7 DEF ChangedAlone, Deleting
  <1>9. \A v \in Workers \ {w} : Relying(v) => task[v].name # n
    <2> SUFFICES ASSUME NEW v \in Workers \ {w}, Relying(v), task[v].name = n PROVE FALSE
      OBVIOUS
    <2>1. SameKey(w, v)
      BY <1>4 DEF SameKey, Relying, Making, Changing, Busy
    <2> QED BY <1>3, <1>6, <2>1 DEF KeysInv
  <1> QED BY <1>1, <1>2, <1>3, <1>4, <1>5, <1>6, <1>8, <1>9, KeysMove DEF KeyKept

LEMMA EraseKeys ==
  ASSUME GrantsInv, TasksFit, TasksFit', KeysInv, Recorded, NEW w \in Workers, NEW t \in Tasks,
         t = task[w], Erase(w)
  PROVE  KeysInv'
  <1> DEFINE n == t.name
  <1>1. /\ t.stage = "erase" /\ n \in Names /\ Over(w)
        /\ UNCHANGED <<consumer, whitelist, pass, used, strangers>>
        /\ IF row[n].id = t.id
           THEN row' = [row EXCEPT ![n] = NoRow] /\ held' = [held EXCEPT ![n] = NoKey]
           ELSE UNCHANGED <<row, held>>
    BY EraseDoes
  <1>2. PICK u \in Tasks : task' = [task EXCEPT ![w] = u] /\ u.stage = "free"
    BY <1>1 DEF Over
  <1>3. Orderly' => Orderly
    BY <1>1 DEF Orderly, Recorded
  <1> SUFFICES ASSUME Orderly' PROVE KeysInv'
    BY DEF KeysInv
  <1>4. task'[w] = u /\ Busy(w) /\ t.op \in Deleting /\ ~Making(w)' /\ ~Changing(w)'
    BY <1>1, <1>2 DEF GrantsInv, GrantsTypeOK, Busy, TasksFit, Fits, Making, Changing
  <1>5. Changing(w)
    BY <1>4 DEF Changing, Deleting, Rekeying
  <1>6. ChangedAlone(t)
    BY <1>3, <1>5 DEF KeysInv
  <1>7. row[n].id = t.id /\ consumer[n] = NoKey
    BY <1>1, <1>4, <1>6 DEF ChangedAlone, Deleting
  <1>8. row'[n] = NoRow /\ \A m \in Names \ {n} : KeyKept(m)
    BY <1>1, <1>7 DEF KeyKept, ValueKept, GrantsInv, GrantsTypeOK
  <1>9. Keyed(n)'
    BY <1>1, <1>7, <1>8 DEF Keyed
  <1>10. \A v \in Workers \ {w} : Relying(v) => task[v].name # n
    <2> SUFFICES ASSUME NEW v \in Workers \ {w}, Relying(v), task[v].name = n PROVE FALSE
      OBVIOUS
    <2>1. SameKey(w, v)
      BY <1>4 DEF SameKey, Relying, Making, Changing, Busy
    <2> QED BY <1>3, <1>5, <2>1 DEF KeysInv
  <1> QED BY <1>1, <1>2, <1>3, <1>4, <1>8, <1>9, <1>10, KeysMove

LEMMA FinishKeys ==
  ASSUME GrantsInv, TasksFit, TasksFit', KeysInv, Recorded, NEW w \in Workers, NEW t \in Tasks,
         t = task[w], Finish(w)
  PROVE  KeysInv'
  <1> DEFINE n == t.name
             kept == IF t.op = "create" THEN row[n] = NoRow ELSE row[n] # NoRow /\ row[n].id = t.id
  <1>1. /\ t.stage = "finish" /\ n \in Names /\ Over(w)
        /\ UNCHANGED <<consumer, whitelist, pass, used, strangers>>
        /\ held' = IF kept /\ t.op \in NewKeyOps THEN [held EXCEPT ![n] = t.key] ELSE held
        /\ ~kept => row' = row
        /\ kept => \E new \in Rows :
                 /\ row' = [row EXCEPT ![n] = new]
                 /\ new.id = IF t.op = "create" THEN t.key ELSE row[n].id
    BY FinishDoes
  <1>2. PICK u \in Tasks : task' = [task EXCEPT ![w] = u] /\ u.stage = "free"
    BY <1>1 DEF Over
  <1>3. Orderly' => Orderly
    BY <1>1 DEF Orderly, Recorded
  <1> SUFFICES ASSUME Orderly' PROVE KeysInv'
    BY DEF KeysInv
  <1>4. /\ task'[w] = u /\ Busy(w) /\ ~Making(w)' /\ ~Changing(w)' /\ t.op \notin Deleting
        /\ t.op \in Ops /\ (t.op \in NewKeyOps => t.key # NoKey)
        /\ row \in [Names -> Rows] /\ held \in [Names -> Nat]
    BY <1>1, <1>2 DEF GrantsInv, GrantsTypeOK, Busy, TasksFit, Fits, Making, Changing
  <1>5. \A m \in Names \ {n} : KeyKept(m)
    <2> TAKE m \in Names \ {n}
    <2>1. row'[m] = row[m]
      BY <1>1, <1>4
    <2> QED BY <1>1, <1>4, <2>1 DEF KeyKept, ValueKept
  <1>6. CASE t.op \in NewKeyOps
    <2>1. Making(w) \/ Changing(w)
      BY <1>1, <1>4, <1>6 DEF Making, Changing, NewKeyOps, Rekeying
    <2>2. kept /\ consumer[n] = t.key
      <3>1. CASE Making(w)
        BY <1>1, <1>3, <1>6, <3>1 DEF KeysInv, MadeOnce, Making
      <3>2. CASE Changing(w)
        <4>1. ChangedAlone(t)
          BY <1>3, <3>2 DEF KeysInv
        <4> QED BY <1>1, <1>6, <4>1 DEF ChangedAlone
      <3> QED BY <2>1, <3>1, <3>2
    <2>3. held'[n] = t.key /\ row'[n] # NoRow
      <3>1. PICK new \in Rows : /\ row' = [row EXCEPT ![n] = new]
                                /\ new.id = IF t.op = "create" THEN t.key ELSE row[n].id
        BY <1>1, <2>2
      <3>2. new.id # 0
        BY <1>1, <1>4, <1>6, <2>2, <3>1 DEF TasksFit, NoKey
      <3> QED BY <1>1, <1>4, <1>6, <2>2, <3>1, <3>2 DEF NoRow
    <2>4. Keyed(n)'
      BY <1>1, <1>4, <1>6, <2>2, <2>3 DEF Keyed
    <2>5. ValueKept(n) \/ \A v \in Workers \ {w} : Relying(v) => task[v].name # n
      <3>1. CASE Changing(w)
        <4> SUFFICES ASSUME NEW v \in Workers \ {w}, Relying(v), task[v].name = n PROVE FALSE
          OBVIOUS
        <4>1. SameKey(w, v)
          BY <1>4 DEF SameKey, Relying, Making, Changing, Busy
        <4> QED BY <1>3, <3>1, <4>1 DEF KeysInv
      <3>2. CASE Making(w)
        BY <1>1, <1>4, <2>2, <3>2 DEF ValueKept, Making
      <3> QED BY <2>1, <3>1, <3>2
    <2> QED BY <1>1, <1>2, <1>3, <1>4, <1>5, <2>4, <2>5, KeysMove
  <1>7. CASE t.op \notin NewKeyOps
    <2>1. KeyKept(n)
      <3>1. held'[n] = held[n] /\ consumer'[n] = consumer[n] /\ t.op # "create"
        BY <1>1, <1>4, <1>7 DEF NewKeyOps
      <3>2. row'[n].id = row[n].id
        BY <1>1, <1>4, <3>1
      <3> QED BY <3>1, <3>2 DEF KeyKept, ValueKept
    <2>2. ~Making(w) /\ ~Changing(w)
      BY <1>4, <1>7 DEF Making, Changing, NewKeyOps, Rekeying, Deleting
    <2>3. (\A v \in Workers \ {w} : Making(v) \/ Changing(v) => task[v].name # n) => Keyed(n)'
      <3> SUFFICES ASSUME \A v \in Workers \ {w} : Making(v) \/ Changing(v) => task[v].name # n
                   PROVE  Keyed(n)'
        OBVIOUS
      <3>1. Keyed(n)
        BY <1>1, <1>3, <2>2 DEF KeysInv
      <3>2. (row[n] = NoRow <=> row[n].id = 0) /\ (row'[n] = NoRow <=> row'[n].id = 0)
        BY <1>1 DEF TasksFit, NoRow
      <3> QED BY <2>1, <3>1, <3>2 DEF Keyed, KeyKept, ValueKept
    <2> QED BY <1>1, <1>2, <1>3, <1>4, <1>5, <2>1, <2>3, KeysMove DEF KeyKept
  <1> QED BY <1>6, <1>7

(* What leaves the requests and the keys alone.                            *)
LEMMA KeysStay ==
  ASSUME GrantsInv, TasksFit, TasksFit', KeysInv, UNCHANGED task, Orderly' => Orderly,
         \A n \in Names : KeyKept(n)
  PROVE  KeysInv'
  <1> SUFFICES ASSUME Orderly' PROVE KeysInv'
    BY DEF KeysInv
  <1>1. \A w, v \in Workers : /\ Making(w)' = Making(w) /\ Changing(w)' = Changing(w)
                              /\ SameKey(w, v)' = SameKey(w, v)
    BY DEF Making, Changing, SameKey, Busy
  <1>2. ASSUME NEW m \in Names PROVE Keyed(m)' = Keyed(m) /\ (row'[m] = NoRow <=> row[m] = NoRow)
    BY <1>2 DEF Keyed, KeyKept, ValueKept, TasksFit, NoRow
  <1>3. ASSUME NEW w \in Workers, Making(w) \/ Changing(w) \/ task[w].stage = "provision"
        PROVE  /\ MadeOnce(task[w])' = MadeOnce(task[w])
               /\ ChangedAlone(task[w])' = ChangedAlone(task[w])
               /\ consumer'[task[w].name] = consumer[task[w].name]
    <2>1. PICK m \in Names : m = task[w].name
      BY <1>3 DEF Making, Changing, Busy, GrantsInv, NamesAreKnown
    <2> QED BY <1>2, <2>1 DEF MadeOnce, ChangedAlone, KeyKept, ValueKept
  <1> QED BY <1>1, <1>2, <1>3 DEF KeysInv

LEMMA KeysStep ==
  ASSUME GrantsInv, TasksFit, KeysInv, [Next]_vars
  PROVE  KeysInv'
  <1>0. TasksFit'
    BY FitStep
  <1>1. ASSUME NEW w \in Workers, Handler(w), Recorded PROVE KeysInv'
    <2> PICK t \in Tasks : t = task[w]
      BY DEF GrantsInv, GrantsTypeOK
    <2>1. CASE Claim(w)
      BY <1>0, <1>1, <2>1, ClaimKeys
    <2>2. CASE Unclaim(w)
      <3>1. t.stage = "unclaim" /\ used' = used
        BY <2>2, UnclaimDoes
      <3> QED BY <1>1, <3>1, FailureKeys
    <2>3. CASE Finish(w)
      BY <1>0, <1>1, <2>3, FinishKeys
    <2>4. CASE Erase(w)
      BY <1>0, <1>1, <2>4, EraseKeys
    <2>5. ASSUME NEW answer, Fetch(w, answer) PROVE KeysInv'
      BY <1>0, <1>1, <2>5, FetchKeys
    <2>6. ASSUME NEW answer, Provision(w, answer) PROVE KeysInv'
      BY <1>0, <1>1, <2>6, ProvisionKeys
    <2>7. ASSUME NEW answer, ListRoutes(w, answer) PROVE KeysInv'
      BY <1>0, <1>1, <2>7, ListRoutesKeys
    <2>8. ASSUME NEW answer, NEW r \in Routes, PutRoute(w, r, answer) PROVE KeysInv'
      BY <1>0, <1>1, <2>8, PutRouteKeys
    <2>9. ASSUME NEW answer, NEW r \in Routes, UndoRoute(w, r, answer) PROVE KeysInv'
      <3>1. t.stage = "undo" /\ Answered(answer)
        BY <2>9, UndoRouteDoes
      <3> QED BY <1>1, <3>1, FailureKeys
    <2>10. ASSUME NEW answer, Repair(w, answer) PROVE KeysInv'
      <3>1. t.stage \in {"cleanup", "restore"} /\ Answered(answer)
        BY <2>10, RepairDoes
      <3> QED BY <1>1, <3>1, FailureKeys
    <2>11. ASSUME NEW answer, Revoke(w, answer) PROVE KeysInv'
      BY <1>0, <1>1, <2>11, RevokeKeys
    <2> QED BY <1>1, <2>1, <2>2, <2>3, <2>4, <2>5, <2>6, <2>7, <2>8, <2>9, <2>10, <2>11 DEF Handler
  <1>2. ASSUME NEW w \in Workers, NEW op \in Offered, NEW n \in Names, NEW grants \in Grants,
               Begin(w, op, n, grants), Recorded
        PROVE  KeysInv'
    BY <1>0, <1>2, BeginKeys
  <1>3. ASSUME NEW w \in Workers, Break(w), Recorded PROVE KeysInv'
    <2>1. used'.breaks # 0
      BY <1>3, BreakDoes
    <2> QED BY <2>1 DEF KeysInv, Orderly
  <1>4. ASSUME NEW n \in Names, Expire(n), Recorded PROVE KeysInv'
    <2>1. row \in [Names -> Rows] /\ row' = [row EXCEPT ![n].expired = TRUE]
          /\ UNCHANGED <<task, consumer, held, used>>
      BY <1>4 DEF Expire, GrantsInv, GrantsTypeOK
    <2>2. \A m \in Names : KeyKept(m)
      BY <2>1 DEF Rows, KeyKept, ValueKept
    <2>3. Orderly' => Orderly
      BY <1>4, <2>1 DEF Orderly, Recorded
    <2> QED BY <1>0, <2>1, <2>2, <2>3, KeysStay
  <1>5. ASSUME NEW x \in Strangers, NEW r \in Routes, HandEdit(x, r), Recorded PROVE KeysInv'
    <2>1. Orderly' => Orderly
      BY <1>5 DEF Orderly, Recorded, HandEdit, GrantsInv, GrantsTypeOK
    <2> QED BY <1>0, <1>5, <2>1, KeysStay DEF HandEdit, KeyKept, ValueKept
  <1>6. ASSUME NEW p \in Passes, PassStep(p) PROVE KeysInv'
    <2>1. UNCHANGED <<row, consumer, held, task, overlap>>
      BY <1>6 DEF PassStep, Snapshot, PassList, PassPut
    <2>2. used' = used \/ \E answer : Answered(answer)
      BY <1>6 DEF PassStep, Snapshot, PassList, PassPut
    <2>3. Orderly' => Orderly
      BY <2>1, <2>2, FaultsAdd DEF Orderly, GrantsInv, GrantsTypeOK
    <2> QED BY <1>0, <2>1, <2>3, KeysStay DEF KeyKept, ValueKept
  <1>7. CASE UNCHANGED vars
    BY <1>0, <1>7, KeysStay DEF vars, KeyKept, ValueKept, Orderly
  <1> QED BY <1>1, <1>2, <1>3, <1>4, <1>5, <1>6, <1>7 DEF Next, Outside

LEMMA KeysInit ==
  Init => TasksFit /\ KeysInv
  BY DEF Init, TasksFit, KeysInv, Busy, Free, Making, Changing, SameKey, Keyed

(* The key value its owner was last handed is the one APISIX accepts, for  *)
(* any number of requests for it side by side and any passes among them,   *)
(* whatever is lost (create_my_api_key claims its row before it writes the *)
(* consumer).                                                              *)
THEOREM HandedOutKeysWork ==
  Spec => []HandedOutKeyWorks
  <1>1. GrantsInv /\ TasksFit /\ KeysInv => HandedOutKeyWorks
    <2> SUFFICES ASSUME KeysInv, Orderly, NEW n \in Names, row[n] # NoRow,
                        \A w \in Workers : task[w].name # n
                 PROVE  consumer[n] # NoKey /\ consumer[n] = held[n]
      BY DEF HandedOutKeyWorks, Orderly
    <2> QED BY DEF KeysInv, Keyed
  <1>2. Init => GrantsInv /\ TasksFit /\ KeysInv
    BY KeysInit, GrantsInitInv
  <1>3. GrantsInv /\ TasksFit /\ KeysInv /\ [Next]_vars => (GrantsInv /\ TasksFit /\ KeysInv)'
    BY GrantsStep, FitStep, KeysStep
  <1> QED BY <1>1, <1>2, <1>3, PTL DEF Spec
-------------------------------------------------------------------------------
(* Requests one at a time are whole. *)
OthersKeep(n) ==
  \A m \in Names \ {n} : /\ row'[m] = row[m] /\ consumer'[m] = consumer[m]
                         /\ \A r \in Routes : (m \in whitelist'[r]) = (m \in whitelist[r])

(* The request of a worker, if it is the only one, is in the middle.       *)
Alone(w) == \A v \in Workers : Busy(v) => v = w

LEMMA OneByOneIsAlone ==
  ASSUME GrantsInv, WholeInv, OneByOne, NEW w \in Workers, Busy(w)
  PROVE  Alone(w) /\ Midway(task[w])
  BY DEF GrantsInv, OneAtATime, OneByOne, WholeInv, Alone

LEMMA WholeMove ==
  ASSUME GrantsInv, WholeInv, Recorded, NEW w \in Workers, NEW u \in Tasks, NEW n \in Names,
         task' = [task EXCEPT ![w] = u], Busy(w) \/ u.stage # "free",
         Busy(w) => task[w].name = n, u.stage # "free" => u.name = n,
         OneByOne' => /\ OneByOne /\ OthersKeep(n)
                      /\ u.stage = "free" => Settled(n)'
                      /\ u.stage # "free" => Midway(u)'
  PROVE  WholeInv'
  <1> SUFFICES ASSUME OneByOne' PROVE WholeInv'
    BY DEF WholeInv
  <1>1. \A v \in Workers : task'[v] = IF v = w THEN u ELSE task[v]
    BY DEF GrantsInv, GrantsTypeOK
  <1>2. \A v \in Workers \ {w} : ~Busy(v) /\ ~Busy(v)'
    <2>1. CASE u.stage # "free"
      BY <1>1, <2>1, MeetingsAreSeen DEF OneByOne, Busy
    <2>2. CASE Busy(w)
      BY <1>1, <2>2, OneByOneIsAlone DEF Alone, Busy
    <2> QED BY <2>1, <2>2
  <1>3. ASSUME NEW m \in Names, \A v \in Workers : Busy(v)' => task'[v].name # m PROVE Settled(m)'
    <2>1. CASE m = n
      BY <1>1, <1>3, <2>1 DEF Busy
    <2>2. CASE m # n
      <3>1. Settled(m)
        BY <1>2, <2>2 DEF WholeInv
      <3> QED BY <2>2, <3>1 DEF Settled, Granted, OthersKeep
    <2> QED BY <2>1, <2>2
  <1>4. ASSUME NEW v \in Workers, Busy(v)' PROVE Midway(task[v])'
    <2>1. v = w /\ task'[v] = u /\ u.stage # "free"
      BY <1>1, <1>2, <1>4 DEF Busy
    <2>2. Midway(u)'
      BY <2>1
    <2> QED BY <2>1, <2>2
            DEF Midway, RowMidway, ConsumerMidway, WhitelistMidway, ListedMidway, Granted
  <1> QED BY <1>3, <1>4 DEF WholeInv

LEMMA BeginWhole ==
  ASSUME GrantsInv, WholeInv, Recorded, NEW w \in Workers, NEW op \in Offered,
         NEW n \in Names, NEW grants \in Grants, Begin(w, op, n, grants)
  PROVE  WholeInv'
  <1>1. PICK u \in Tasks :
           /\ task' = [task EXCEPT ![w] = u] /\ ~Busy(w)
           /\ u.stage = FirstStage(op, n) /\ u.op = op /\ u.name = n /\ u.grants = grants
           /\ u.id = row[n].id /\ u.todo = {} /\ u.done = {}
           /\ op \in NewKeyOps => u.key # NoKey
           /\ Accepted(op, n) /\ grants \in GrantsOf(op, n) /\ op \in Ops
           /\ UNCHANGED <<row, consumer, whitelist, pass, held, strangers>>
           /\ used'.faults = used.faults /\ used'.breaks = used.breaks
    BY BeginDoes
  <1>2. OneByOne' => OneByOne
    BY <1>1 DEF OneByOne, Recorded
  <1>3. u.stage \in {"provision", "claim", "fetch", "revoke", "list"}
    BY <1>1 DEF FirstStage
  <1>4. ASSUME OneByOne' PROVE Midway(u)'
    <2>1. \A v \in Workers : task'[v] = IF v = w THEN u ELSE task[v]
      BY <1>1 DEF GrantsInv, GrantsTypeOK
    <2>2. \A v \in Workers : ~Busy(v)
      BY <1>1, <1>3, <1>4, <2>1, MeetingsAreSeen DEF OneByOne, Busy
    <2>3. Settled(n)
      BY <1>2, <1>4, <2>2 DEF WholeInv
    <2>4. RowMidway(u)'
      BY <1>1, <1>3 DEF RowMidway, FirstStage, Accepted, GrantsOf
    <2>5. ConsumerMidway(u)'
      BY <1>1, <1>3, <2>3 DEF ConsumerMidway, FirstStage, Accepted, Settled, Ops
    <2>6. WhitelistMidway(u)'
      <3> SUFFICES ASSUME NEW r \in Routes, n \in whitelist[r]
                   PROVE  /\ u.stage # "revoke" /\ u.op \notin Creating /\ Granted(n, r)
        BY <1>1, <1>3 DEF WhitelistMidway, Granted, FirstStage, Creating
      <3>1. Granted(n, r) /\ row[n] # NoRow
        BY <2>3 DEF Settled, Granted
      <3>2. row[n].grants # {}
        BY <3>1, NothingGrantsNothing DEF Granted
      <3> QED BY <1>1, <3>1, <3>2 DEF FirstStage, Accepted, Creating
    <2>7. ListedMidway(u)'
      BY <1>3 DEF ListedMidway
    <2> QED BY <1>3, <2>4, <2>5, <2>6, <2>7 DEF Midway
  <1> QED BY <1>1, <1>2, <1>3, <1>4, WholeMove DEF OthersKeep

LEMMA ClaimWhole ==
  ASSUME GrantsInv, TasksFit, WholeInv, Recorded, NEW w \in Workers, NEW t \in Tasks,
         t = task[w], Claim(w)
  PROVE  WholeInv'
  <1> DEFINE n == t.name
  <1>1. /\ t.stage = "claim" /\ n \in Names
        /\ UNCHANGED <<consumer, whitelist, pass, used, held, strangers>>
    BY ClaimDoes
  <1>2. PICK u \in Tasks :
              /\ task' = [task EXCEPT ![w] = u]
              /\ \/ /\ row[t.name] = NoRow /\ u.stage = "provision" /\ SameRequest(t, u)
                    /\ u.id = t.key /\ u.key = t.key /\ u.done = t.done
                    /\ row' = [row EXCEPT ![t.name] = NewRow(w)]
                    /\ NewRow(w) \in Rows /\ NewRow(w).id = t.key /\ NewRow(w).grants = t.grants
                 \/ row[t.name] # NoRow /\ u.stage = "free" /\ row' = row
    BY ClaimDoes
  <1>3. Busy(w) /\ t.op = "create_my" /\ t.key # 0 /\ row \in [Names -> Rows]
    BY <1>1 DEF GrantsInv, GrantsTypeOK, TasksFit, Fits, Busy, NewKeyOps, NoKey
  <1>4. OneByOne' => OneByOne
    BY <1>1 DEF OneByOne, Recorded
  <1>5. ASSUME OneByOne'
        PROVE  u.stage # "free" /\ u.name = n /\ OthersKeep(n) /\ Midway(u)'
    <2>1. Midway(t) /\ row[n] = NoRow
      BY <1>1, <1>3, <1>4, <1>5, OneByOneIsAlone DEF Midway, RowMidway
    <2>2. /\ u.stage = "provision" /\ u.name = n /\ u.op = "create_my" /\ u.grants = t.grants
          /\ u.id = t.key /\ row'[n].id = t.key /\ row'[n].grants = t.grants
          /\ \A m \in Names \ {n} : row'[m] = row[m]
      BY <1>1, <1>2, <1>3, <2>1 DEF SameRequest
    <2>3. row'[n] # NoRow
      BY <1>3, <2>2 DEF NoRow
    <2>4. RowMidway(u)' /\ ConsumerMidway(u)' /\ ListedMidway(u)'
      BY <2>2, <2>3 DEF RowMidway, ConsumerMidway, ListedMidway
    <2>5. WhitelistMidway(u)'
      BY <1>1, <1>3, <2>1, <2>2 DEF Midway, WhitelistMidway, Creating
    <2> QED BY <1>1, <2>2, <2>4, <2>5 DEF Midway, OthersKeep
  <1> QED BY <1>1, <1>2, <1>3, <1>4, <1>5, WholeMove DEF SameRequest

LEMMA FetchWhole ==
  ASSUME GrantsInv, TasksFit, WholeInv, Recorded, NEW w \in Workers, NEW t \in Tasks,
         t = task[w], NEW answer, Fetch(w, answer)
  PROVE  WholeInv'
  <1> DEFINE n == t.name
  <1>1. /\ t.stage = "fetch" /\ n \in Names /\ Answered(answer)
        /\ UNCHANGED <<row, consumer, whitelist, pass, held, strangers>>
    BY FetchDoes
  <1>2. PICK u \in Tasks :
              /\ task' = [task EXCEPT ![w] = u]
              /\ \/ u.stage = "free"
                 \/ /\ answer = "ok" /\ consumer[t.name] # NoKey
                    /\ u.stage = "provision" /\ u.op = t.op /\ u.name = t.name /\ u.grants = t.grants
                    /\ u.id = t.id /\ u.old = consumer[t.name] /\ u.done = t.done
                    /\ u.key = IF t.op = "limit" THEN consumer[t.name] ELSE t.key
    BY FetchDoes
  <1>3. Busy(w) /\ t.op \in {"limit", "rekey"}
    BY <1>1 DEF TasksFit, Fits, Busy
  <1>4. OneByOne' => OneByOne
    BY <1>1, FaultsAdd DEF OneByOne, Recorded, GrantsInv, GrantsTypeOK
  <1>5. ASSUME OneByOne' PROVE /\ u.stage = "free" => Settled(n)'
                               /\ u.stage # "free" => Midway(u)'
    <2>1. Midway(t)
      BY <1>3, <1>4, <1>5, OneByOneIsAlone
    <2>2. /\ row[n] # NoRow /\ row[n].id = t.id /\ consumer[n] # NoKey
          /\ t.op = "limit" => row[n].grants = t.grants
          /\ \A r \in Routes : n \in whitelist[r] => Granted(n, r)
      BY <1>1, <1>3, <2>1 DEF Midway, RowMidway, ConsumerMidway, WhitelistMidway
    <2>3. Settled(n)'
      BY <1>1, <2>2 DEF Settled, Granted
    <2>4. CASE u.stage # "free"
      <3>1. RowMidway(u)' /\ ConsumerMidway(u)' /\ ListedMidway(u)'
        BY <1>1, <1>2, <1>3, <2>2, <2>4 DEF RowMidway, ConsumerMidway, ListedMidway
      <3>2. WhitelistMidway(u)'
        BY <1>1, <1>2, <1>3, <2>2, <2>4 DEF WhitelistMidway, Creating, Granted
      <3> QED BY <1>2, <2>4, <3>1, <3>2 DEF Midway
    <2> QED BY <2>3, <2>4
  <1> QED BY <1>1, <1>2, <1>3, <1>4, <1>5, WholeMove DEF OthersKeep

LEMMA ProvisionWhole ==
  ASSUME LostReplies = FALSE, GrantsInv, TasksFit, WholeInv, Recorded, NEW w \in Workers,
         NEW t \in Tasks, t = task[w], NEW answer, Provision(w, answer)
  PROVE  WholeInv'
  <1> DEFINE n == t.name
  <1>1. /\ t.stage = "provision" /\ n \in Names /\ Answered(answer)
        /\ UNCHANGED <<row, whitelist, pass, held, strangers>>
        /\ consumer' = IF answer = "failed" THEN consumer ELSE [consumer EXCEPT ![n] = t.key]
    BY ProvisionDoes
  <1>2. PICK u \in Tasks : Provisioned(w, t, u, answer)
    BY ProvisionDoes
  <1>3. task' = [task EXCEPT ![w] = u] /\ Busy(w) /\ t.op \in NewKeyOps \cup {"limit"}
        /\ (t.op \in NewKeyOps => t.key # NoKey)
    BY <1>1, <1>2 DEF TasksFit, Fits, Busy, Provisioned
  <1>4. OneByOne' => OneByOne /\ answer # "lost" /\ (answer = "failed" => used'.faults >= 1)
    BY <1>1, FaultsAdd DEF OneByOne, Recorded, GrantsInv, GrantsTypeOK
  <1>5. u.stage # "free" => u.name = n
    BY <1>2 DEF Provisioned, SameRequest
  <1>6. ASSUME OneByOne'
        PROVE  OthersKeep(n) /\ (IF u.stage = "free" THEN Settled(n)' ELSE Midway(u)')
    <2>1. Midway(t) /\ answer \in {"ok", "failed"}
      BY <1>1, <1>3, <1>4, <1>6, OneByOneIsAlone, FaultsAdd DEF GrantsInv
    <2>2. OthersKeep(n)
      BY <1>1 DEF OthersKeep, GrantsInv, GrantsTypeOK
    <2>3. /\ IF t.op = "create" THEN row[n] = NoRow ELSE row[n] # NoRow /\ row[n].id = t.id
          /\ t.op \in {"create_my", "regenerate", "limit"} => row[n] # NoRow /\ row[n].grants = t.grants
          /\ t.op # "create_my" => ((consumer[n] # NoKey) = (t.op # "create"))
          /\ t.op = "rekey" => t.old # NoKey
          /\ t.key # NoKey
      BY <1>1, <1>3, <2>1 DEF Midway, RowMidway, ConsumerMidway
    <2>4. \A r \in Routes : n \in whitelist[r] => t.op \notin Creating /\ Granted(n, r)
      BY <1>1, <2>1 DEF Midway, WhitelistMidway
    <2>5. u.stage # "free" => /\ u.op = t.op /\ u.name = n /\ u.grants = t.grants /\ u.old = t.old
                              /\ u.id = t.id /\ u.key = t.key
      BY <1>2 DEF Provisioned, SameRequest
    <2>6. CASE answer = "ok"
      <3>1. u.stage = (IF t.op = "limit" THEN "finish" ELSE "list") /\ u.stage # "free"
        BY <1>2, <2>6 DEF Provisioned
      <3>2. consumer'[n] = t.key
        BY <1>1, <2>6 DEF GrantsInv, GrantsTypeOK
      <3>3. RowMidway(u)' /\ ConsumerMidway(u)' /\ ListedMidway(u)'
        BY <1>1, <2>3, <2>5, <3>1, <3>2, <1>3
        DEF RowMidway, ConsumerMidway, ListedMidway, NewKeyOps
      <3>4. WhitelistMidway(u)'
        BY <1>1, <2>4, <2>5, <3>1 DEF WhitelistMidway, Granted
      <3> QED BY <2>2, <3>1, <3>3, <3>4 DEF Midway
    <2>7. CASE answer = "failed"
      <3>1. u.stage = (IF t.op = "create_my" THEN "unclaim" ELSE "free")
        BY <1>2, <2>7 DEF Provisioned
      <3>2. consumer' = consumer /\ used'.faults >= 1
        BY <1>1, <1>4, <1>6, <2>7
      <3>3. CASE t.op = "create_my"
        <4>1. RowMidway(u)' /\ ConsumerMidway(u)' /\ ListedMidway(u)'
          BY <1>1, <2>3, <2>5, <3>1, <3>2, <3>3 DEF RowMidway, ConsumerMidway, ListedMidway
        <4>2. WhitelistMidway(u)'
          BY <1>1, <2>4, <2>5, <3>1, <3>3 DEF WhitelistMidway, Creating
        <4> QED BY <2>2, <3>1, <3>2, <3>3, <4>1, <4>2 DEF Midway
      <3>4. CASE t.op # "create_my"
        <4>1. Settled(n)'
          BY <1>1, <2>3, <2>4, <3>2, <3>4 DEF Settled, Granted, Creating
        <4> QED BY <2>2, <3>1, <3>4, <4>1
      <3> QED BY <3>3, <3>4
    <2> QED BY <2>1, <2>6, <2>7
  <1> QED BY <1>1, <1>3, <1>4, <1>5, <1>6, WholeMove

(* A sync that has failed leaves the whitelists as its row has them, one   *)
(* that is done as it was asked for.                                       *)
LEMMA FailureGoesOn ==
  ASSUME NEW t \in Tasks, NEW u \in Tasks, Fits(t), Midway(t), t.stage \in {"list", "put", "undo"},
         u.stage = AfterFailure(t.op),
         u.stage # "free" => SameRequest(t, u) /\ u.id = t.id /\ u.key = t.key,
         UNCHANGED <<row, consumer>>, used'.faults >= 1,
         \A r \in Routes : t.name \in whitelist'[r] => t.op \notin Creating /\ Granted(t.name, r)
  PROVE  IF u.stage = "free" THEN Settled(t.name)' ELSE Midway(u)'
  <1> DEFINE n == t.name
  <1>1. /\ IF t.op = "create" THEN row[n] = NoRow ELSE row[n] # NoRow /\ row[n].id = t.id
        /\ t.op = "create_my" => row[n] # NoRow /\ row[n].grants = t.grants
        /\ consumer[n] # NoKey
        /\ t.op = "rekey" => t.old # NoKey
    BY DEF Midway, RowMidway, ConsumerMidway
  <1>2. CASE t.op \in {"create", "create_my", "rekey"}
    <2>1. /\ u.op = t.op /\ u.name = n /\ u.grants = t.grants /\ u.old = t.old
          /\ u.id = t.id /\ u.key = t.key
          /\ u.stage = CASE t.op = "create" -> "cleanup" [] t.op = "create_my" -> "unclaim"
                         [] OTHER -> "restore"
      BY <1>2 DEF AfterFailure, SameRequest
    <2>2. RowMidway(u)' /\ ConsumerMidway(u)' /\ ListedMidway(u)'
      BY <1>1, <1>2, <2>1 DEF RowMidway, ConsumerMidway, ListedMidway
    <2>3. WhitelistMidway(u)'
      BY <1>2, <2>1 DEF WhitelistMidway, Creating, Granted
    <2> QED BY <1>2, <2>1, <2>2, <2>3 DEF Midway
  <1>3. CASE t.op \notin {"create", "create_my", "rekey"}
    <2>1. u.stage = "free"
      BY <1>3 DEF AfterFailure
    <2>2. Settled(n)'
      BY <1>1, <1>3 DEF Settled, Granted
    <2> QED BY <2>1, <2>2
  <1> QED BY <1>2, <1>3

LEMMA SyncGoesOn ==
  ASSUME NEW t \in Tasks, NEW u \in Tasks, Fits(t), Midway(t), t.stage \in {"list", "put"},
         u.stage = AfterSync(t.op), SameRequest(t, u) /\ u.id = t.id /\ u.key = t.key,
         UNCHANGED <<row, consumer>>,
         \A r \in Routes : t.name \in whitelist'[r] => GrantsRoute(t.grants, r)
  PROVE  u.stage # "free" /\ Midway(u)'
  <1> DEFINE n == t.name
  <1>1. /\ u.op = t.op /\ u.name = n /\ u.grants = t.grants /\ u.old = t.old
        /\ u.id = t.id /\ u.key = t.key /\ t.op # "limit"
        /\ u.stage = IF t.op \in Deleting THEN "revoke" ELSE "finish"
    BY DEF AfterSync, SameRequest, Fits, Deleting
  <1>2. RowMidway(u)' /\ ConsumerMidway(u)' /\ ListedMidway(u)'
    BY <1>1 DEF RowMidway, ConsumerMidway, ListedMidway, Midway, Deleting
  <1>3. t.op \in Deleting => \A r \in Routes : n \notin whitelist'[r]
    BY NothingGrantsNothing DEF Fits
  <1>4. WhitelistMidway(u)'
    BY <1>1, <1>3 DEF WhitelistMidway, Creating
  <1> QED BY <1>1, <1>2, <1>4 DEF Midway

LEMMA ListRoutesWhole ==
  ASSUME LostReplies = FALSE, GrantsInv, TasksFit, WholeInv, Recorded, NEW w \in Workers,
         NEW t \in Tasks, t = task[w], NEW answer, ListRoutes(w, answer)
  PROVE  WholeInv'
  <1> DEFINE n == t.name
  <1>1. /\ t.stage = "list" /\ n \in Names /\ Answered(answer)
        /\ UNCHANGED <<row, consumer, whitelist, pass, held, strangers>>
    BY ListRoutesDoes
  <1>2. PICK u \in Tasks : Listed(w, t, u, answer)
    BY ListRoutesDoes
  <1>3. task' = [task EXCEPT ![w] = u] /\ Busy(w) /\ Fits(t) /\ t.done = {}
    BY <1>1, <1>2 DEF TasksFit, Fits, Busy, Listed
  <1>4. OneByOne' => OneByOne /\ (answer # "ok" => used'.faults >= 1)
    BY <1>1, FaultsAdd DEF OneByOne, Recorded, GrantsInv, GrantsTypeOK
  <1>5. u.stage # "free" => SameRequest(t, u) /\ u.id = t.id /\ u.key = t.key /\ u.name = n
    BY <1>2 DEF Listed, SameRequest
  <1>6. OthersKeep(n)
    BY <1>1 DEF OthersKeep
  <1>7. ASSUME OneByOne'
        PROVE  IF u.stage = "free" THEN Settled(n)' ELSE Midway(u)'
    <2>1. Midway(t)
      BY <1>3, <1>4, <1>7, OneByOneIsAlone
    <2>2. \A r \in Routes : n \in whitelist[r] => t.op \notin Creating /\ Granted(n, r)
      BY <1>1, <2>1 DEF Midway, WhitelistMidway
    <2>3. CASE answer # "ok" /\ u.stage = AfterFailure(t.op)
      BY <1>1, <1>3, <1>4, <1>5, <1>7, <2>1, <2>2, <2>3, FailureGoesOn
    <2>4. CASE /\ u.stage = AfterSync(t.op)
               /\ \A r \in Routes : SyncBody(whitelist[r], t.name, t.grants, r) = whitelist[r]
      <3>1. \A r \in Routes : n \in whitelist[r] => GrantsRoute(t.grants, r)
        BY <1>1, <2>4, SyncMembers
      <3>2. u.stage # "free"
        BY <2>4 DEF AfterSync
      <3> QED BY <1>1, <1>3, <1>5, <2>1, <2>4, <3>1, <3>2, SyncGoesOn
    <2>5. CASE /\ u.stage = "put" /\ u.view = whitelist /\ u.done = t.done
               /\ \A r \in Routes \ u.todo : SyncBody(whitelist[r], t.name, t.grants, r) = whitelist[r]
      <3>1. /\ u.op = t.op /\ u.name = n /\ u.grants = t.grants /\ u.old = t.old
            /\ u.id = t.id /\ u.key = t.key
        BY <1>5, <2>5 DEF SameRequest
      <3>2. \A r \in Routes \ u.todo : n \in whitelist[r] => GrantsRoute(t.grants, r)
        BY <1>1, <2>5, SyncMembers
      <3>3. RowMidway(u)' /\ ConsumerMidway(u)' /\ WhitelistMidway(u)'
        BY <1>1, <2>1, <2>5, <3>1 DEF Midway, RowMidway, ConsumerMidway, WhitelistMidway
      <3>4. ListedMidway(u)'
        BY <1>1, <1>3, <2>2, <2>5, <3>1, <3>2 DEF ListedMidway, Granted
      <3> QED BY <2>5, <3>3, <3>4 DEF Midway
    <2> QED BY <1>2, <2>3, <2>4, <2>5 DEF Listed
  <1> QED BY <1>1, <1>3, <1>4, <1>5, <1>6, <1>7, WholeMove

(* What a request has put.                                                 *)
LEMMA PutMembers ==
  ASSUME GrantsInv, NEW t \in Tasks, t.name \in Names, NEW r \in Routes,
         whitelist' = [whitelist EXCEPT ![r] = SyncBody(t.view[r], t.name, t.grants, r)]
  PROVE  /\ \A q \in Routes \ {r} : whitelist'[q] = whitelist[q]
         /\ t.name \in whitelist'[r] <=> GrantsRoute(t.grants, r)
         /\ \A m \in Names \ {t.name} : (m \in whitelist'[r]) = (m \in t.view[r])
  <1>1. whitelist \in [Routes -> SUBSET (Names \cup Strangers \cup {DenyAll})]
    BY DEF GrantsInv, GrantsTypeOK, Whitelists
  <1>2. whitelist'[r] = SyncBody(t.view[r], t.name, t.grants, r)
    BY <1>1
  <1>3. t.name \in SyncBody(t.view[r], t.name, t.grants, r) <=> GrantsRoute(t.grants, r)
    BY SyncMembers
  <1>4. ASSUME NEW m \in Names \ {t.name}
        PROVE  (m \in SyncBody(t.view[r], t.name, t.grants, r)) = (m \in t.view[r])
    BY SyncMembers
  <1> QED BY <1>1, <1>2, <1>3, <1>4

LEMMA PutRouteWhole ==
  ASSUME LostReplies = FALSE, GrantsInv, TasksFit, WholeInv, Recorded, NEW w \in Workers,
         NEW t \in Tasks, t = task[w], NEW r \in Routes, NEW answer, PutRoute(w, r, answer)
  PROVE  WholeInv'
  <1> DEFINE n == t.name
  <1>1. /\ t.stage = "put" /\ n \in Names /\ r \in t.todo /\ Answered(answer)
        /\ UNCHANGED <<row, consumer, pass, held, strangers>>
        /\ whitelist' = IF answer = "failed" THEN whitelist
                        ELSE [whitelist EXCEPT ![r] = SyncBody(t.view[r], t.name, t.grants, r)]
    BY PutRouteDoes
  <1>2. PICK u \in Tasks : Written(w, t, u, r, answer)
    BY PutRouteDoes
  <1>3. task' = [task EXCEPT ![w] = u] /\ Busy(w) /\ Fits(t)
    BY <1>1, <1>2 DEF TasksFit, Busy, Written
  <1>4. OneByOne' => /\ OneByOne /\ answer \in {"ok", "failed"}
                     /\ (answer # "ok" => used'.faults >= 1)
    BY <1>1, FaultsAdd DEF OneByOne, Recorded, GrantsInv, GrantsTypeOK
  <1>5. u.stage # "free" => SameRequest(t, u) /\ u.id = t.id /\ u.key = t.key /\ u.name = n
    BY <1>2 DEF Written, SameRequest
  <1>6. ASSUME OneByOne' PROVE OthersKeep(n) /\ Midway(t) /\ ListedMidway(t)
    <2>1. Midway(t) /\ ListedMidway(t)
      BY <1>3, <1>4, <1>6, OneByOneIsAlone DEF Midway
    <2>2. CASE answer = "failed"
      BY <1>1, <2>1, <2>2 DEF OthersKeep
    <2>3. CASE answer = "ok"
      <3>1. whitelist' = [whitelist EXCEPT ![r] = SyncBody(t.view[r], t.name, t.grants, r)]
        BY <1>1, <2>3
      <3>2. /\ \A q \in Routes \ {r} : whitelist'[q] = whitelist[q]
            /\ \A m \in Names \ {n} : (m \in whitelist'[r]) = (m \in t.view[r])
        BY <1>1, <3>1, PutMembers
      <3>3. \A m \in Names \ {n} : (m \in whitelist[r]) = (m \in t.view[r])
        BY <1>1, <2>1 DEF ListedMidway
      <3> QED BY <1>1, <2>1, <3>2, <3>3 DEF OthersKeep
    <2> QED BY <1>4, <1>6, <2>2, <2>3
  <1>7. ASSUME OneByOne', answer = "ok"
        PROVE  u.stage # "free" /\ Midway(u)'
    <2>1. whitelist' = [whitelist EXCEPT ![r] = SyncBody(t.view[r], t.name, t.grants, r)]
      BY <1>1, <1>7
    <2>2. /\ \A q \in Routes \ {r} : whitelist'[q] = whitelist[q]
          /\ n \in whitelist'[r] <=> GrantsRoute(t.grants, r)
          /\ \A m \in Names \ {n} : (m \in whitelist'[r]) = (m \in t.view[r])
      BY <1>1, <2>1, PutMembers
    <2>3. Midway(t) /\ ListedMidway(t)
      BY <1>6, <1>7
    <2>4. CASE t.todo = {r} /\ u.stage = AfterSync(t.op)
      <3>1. ASSUME NEW q \in Routes, n \in whitelist'[q] PROVE GrantsRoute(t.grants, q)
        <4>1. CASE q = r
          BY <2>2, <3>1, <4>1
        <4>2. CASE q # r
          <5>1. n \in whitelist[q] /\ q \notin t.todo
            BY <2>2, <2>4, <3>1, <4>2
          <5> QED BY <1>1, <2>3, <5>1 DEF ListedMidway
        <4> QED BY <4>1, <4>2
      <3>2. u.stage # "free"
        BY <2>4 DEF AfterSync
      <3> QED BY <1>1, <1>3, <1>5, <2>3, <2>4, <3>1, <3>2, SyncGoesOn
    <2>5. CASE /\ u.stage = "put" /\ u.view = t.view
               /\ u.todo = t.todo \ {r} /\ u.done = t.done \cup {r}
      <3>1. /\ u.op = t.op /\ u.name = n /\ u.grants = t.grants /\ u.old = t.old
            /\ u.id = t.id /\ u.key = t.key
        BY <1>5, <2>5 DEF SameRequest
      <3>2. RowMidway(u)' /\ ConsumerMidway(u)'
        BY <1>1, <2>3, <2>5, <3>1 DEF Midway, RowMidway, ConsumerMidway
      <3>3. WhitelistMidway(u)'
        BY <2>5 DEF WhitelistMidway
      <3>4. ASSUME NEW q \in Routes
            PROVE  /\ n \in whitelist'[q] => IF q \in u.done THEN GrantsRoute(t.grants, q)
                                             ELSE n \in t.view[q]
                   /\ n \in t.view[q] => t.op \notin Creating /\ Granted(n, q)
                   /\ n \in t.view[q] /\ q \notin u.todo \cup u.done => GrantsRoute(t.grants, q)
                   /\ \A m \in Names \ {n} : (m \in whitelist'[q]) = (m \in t.view[q])
        <4>1. CASE q = r
          BY <1>1, <2>2, <2>3, <2>5, <4>1 DEF ListedMidway
        <4>2. CASE q # r
          BY <1>1, <2>2, <2>3, <2>5, <4>2 DEF ListedMidway
        <4> QED BY <4>1, <4>2
      <3>5. ListedMidway(u)'
        BY <1>1, <2>5, <3>1, <3>4 DEF ListedMidway, Granted
      <3> QED BY <2>5, <3>2, <3>3, <3>5 DEF Midway
    <2> QED BY <1>2, <1>7, <2>4, <2>5 DEF Written
  <1>8. ASSUME OneByOne', answer = "failed"
        PROVE  IF u.stage = "free" THEN Settled(n)' ELSE Midway(u)'
    <2>1. Midway(t) /\ ListedMidway(t) /\ whitelist' = whitelist /\ used'.faults >= 1
      BY <1>1, <1>4, <1>6, <1>8
    <2>2. CASE t.done = {} /\ u.stage = AfterFailure(t.op)
      <3>1. \A q \in Routes : n \in whitelist'[q] => t.op \notin Creating /\ Granted(n, q)
        BY <1>1, <2>1, <2>2 DEF ListedMidway
      <3> QED BY <1>1, <1>3, <1>5, <2>1, <2>2, <3>1, FailureGoesOn
    <2>3. CASE u.stage = "undo" /\ u.view = t.view /\ u.done = t.done
      <3>1. /\ u.op = t.op /\ u.name = n /\ u.grants = t.grants /\ u.old = t.old
            /\ u.id = t.id /\ u.key = t.key
        BY <1>5, <2>3 DEF SameRequest
      <3>2. RowMidway(u)' /\ ConsumerMidway(u)'
        BY <1>1, <2>1, <2>3, <3>1 DEF Midway, RowMidway, ConsumerMidway
      <3>3. WhitelistMidway(u)' /\ ListedMidway(u)'
        BY <1>1, <2>1, <2>3, <3>1 DEF WhitelistMidway, ListedMidway, Granted
      <3> QED BY <2>1, <2>3, <3>2, <3>3 DEF Midway
    <2> QED BY <1>2, <1>8, <2>2, <2>3 DEF Written
  <1> QED BY <1>1, <1>3, <1>4, <1>5, <1>6, <1>7, <1>8, WholeMove

LEMMA UndoRouteWhole ==
  ASSUME LostReplies = FALSE, GrantsInv, TasksFit, WholeInv, Recorded, NEW w \in Workers,
         NEW t \in Tasks, t = task[w], NEW r \in Routes, NEW answer, UndoRoute(w, r, answer)
  PROVE  WholeInv'
  <1> DEFINE n == t.name
  <1>1. /\ t.stage = "undo" /\ n \in Names /\ r \in t.done /\ Answered(answer)
        /\ UNCHANGED <<row, consumer, pass, held, strangers>>
        /\ whitelist' = IF answer = "failed" THEN whitelist
                        ELSE [whitelist EXCEPT ![r] = t.view[r]]
    BY UndoRouteDoes
  <1>2. PICK u \in Tasks :
              /\ task' = [task EXCEPT ![w] = u]
              /\ u.stage # "free" => SameRequest(t, u) /\ u.id = t.id /\ u.key = t.key
              /\ \/ t.done = {r} /\ u.stage = AfterFailure(t.op) /\ (u.stage # "free" => u.done = {})
                 \/ /\ t.done # {r} /\ u.stage = "undo" /\ u.view = t.view /\ u.done = t.done \ {r}
    BY UndoRouteDoes
  <1>3. Busy(w) /\ Fits(t)
    BY <1>1 DEF TasksFit, Busy
  <1>4. OneByOne' => OneByOne
    BY <1>1, FaultsAdd DEF OneByOne, Recorded, GrantsInv, GrantsTypeOK
  <1>5. u.stage # "free" => u.name = n
    BY <1>2 DEF SameRequest
  <1>6. ASSUME OneByOne'
        PROVE  OthersKeep(n) /\ (IF u.stage = "free" THEN Settled(n)' ELSE Midway(u)')
    <2>1. Midway(t) /\ ListedMidway(t) /\ used.faults >= 1
      BY <1>1, <1>3, <1>4, <1>6, OneByOneIsAlone DEF Midway
    <2>2. answer = "ok" /\ used'.faults >= 1
      BY <1>1, <1>6, <2>1, FaultsAdd DEF OneByOne, GrantsInv, GrantsTypeOK
    <2>3. /\ whitelist'[r] = t.view[r] /\ \A q \in Routes \ {r} : whitelist'[q] = whitelist[q]
      BY <1>1, <2>2 DEF GrantsInv, GrantsTypeOK, Whitelists
    <2>4. OthersKeep(n)
      BY <1>1, <2>1, <2>3 DEF OthersKeep, ListedMidway
    <2>5. CASE t.done = {r} /\ u.stage = AfterFailure(t.op)
      <3>1. ASSUME NEW q \in Routes, n \in whitelist'[q] PROVE t.op \notin Creating /\ Granted(n, q)
        <4>1. n \in t.view[q]
          BY <1>1, <2>1, <2>3, <2>5, <3>1 DEF ListedMidway
        <4> QED BY <1>1, <2>1, <4>1 DEF ListedMidway
      <3> QED BY <1>1, <1>2, <1>3, <2>1, <2>2, <2>4, <2>5, <3>1, FailureGoesOn
    <2>6. CASE u.stage = "undo" /\ u.view = t.view /\ u.done = t.done \ {r}
      <3>1. /\ u.op = t.op /\ u.name = n /\ u.grants = t.grants /\ u.old = t.old
            /\ u.id = t.id /\ u.key = t.key
        BY <1>2, <2>6 DEF SameRequest
      <3>2. RowMidway(u)' /\ ConsumerMidway(u)' /\ WhitelistMidway(u)'
        BY <1>1, <2>1, <2>6, <3>1 DEF Midway, RowMidway, ConsumerMidway, WhitelistMidway
      <3>3. ASSUME NEW q \in Routes
            PROVE  /\ n \in whitelist'[q] => IF q \in u.done THEN GrantsRoute(t.grants, q)
                                             ELSE n \in t.view[q]
                   /\ n \in t.view[q] => t.op \notin Creating /\ Granted(n, q)
                   /\ \A m \in Names \ {n} : (m \in whitelist'[q]) = (m \in t.view[q])
        <4>1. CASE q = r
          BY <1>1, <2>1, <2>3, <2>6, <4>1 DEF ListedMidway
        <4>2. CASE q # r
          BY <1>1, <2>1, <2>3, <2>6, <4>2 DEF ListedMidway
        <4> QED BY <4>1, <4>2
      <3>4. ListedMidway(u)'
        BY <1>1, <2>6, <3>1, <3>3 DEF ListedMidway, Granted
      <3> QED BY <2>2, <2>4, <2>6, <3>2, <3>4 DEF Midway
    <2> QED BY <1>2, <2>5, <2>6
  <1> QED BY <1>1, <1>2, <1>3, <1>4, <1>5, <1>6, WholeMove

LEMMA UnclaimWhole ==
  ASSUME GrantsInv, TasksFit, WholeInv, Recorded, NEW w \in Workers,
         NEW t \in Tasks, t = task[w], Unclaim(w)
  PROVE  WholeInv'
  <1> DEFINE n == t.name
  <1>1. /\ t.stage = "unclaim" /\ n \in Names
        /\ UNCHANGED <<consumer, whitelist, pass, used, held, strangers>>
        /\ row' = IF row[n].id = t.id THEN [row EXCEPT ![n] = NoRow] ELSE row
    BY UnclaimDoes
  <1>2. PICK u \in Tasks :
              /\ task' = [task EXCEPT ![w] = u] /\ u.stage = "cleanup"
              /\ SameRequest(t, u) /\ u.id = t.id /\ u.key = t.key /\ u.done = {}
    BY UnclaimDoes
  <1>3. Busy(w) /\ t.op = "create_my" /\ row \in [Names -> Rows]
    BY <1>1 DEF TasksFit, Fits, Busy, GrantsInv, GrantsTypeOK
  <1>4. OneByOne' => OneByOne
    BY <1>1 DEF OneByOne, Recorded
  <1>5. u.name = n /\ u.op = t.op
    BY <1>2 DEF SameRequest
  <1>6. ASSUME OneByOne' PROVE OthersKeep(n) /\ Midway(u)'
    <2>1. Midway(t) /\ used.faults >= 1
      BY <1>1, <1>3, <1>4, <1>6, OneByOneIsAlone DEF Midway
    <2>2. row[n].id = t.id
      BY <1>1, <1>3, <2>1 DEF Midway, RowMidway
    <2>3. row'[n] = NoRow /\ \A m \in Names \ {n} : row'[m] = row[m]
      BY <1>1, <1>3, <2>2
    <2>4. RowMidway(u)' /\ ConsumerMidway(u)' /\ ListedMidway(u)'
      BY <1>2, <1>3, <1>5, <2>3 DEF RowMidway, ConsumerMidway, ListedMidway
    <2>5. WhitelistMidway(u)'
      BY <1>1, <1>2, <1>5, <2>1 DEF Midway, WhitelistMidway
    <2> QED BY <1>1, <2>1, <2>3, <2>4, <2>5 DEF Midway, OthersKeep
  <1> QED BY <1>1, <1>2, <1>3, <1>4, <1>5, <1>6, WholeMove

LEMMA RepairWhole ==
  ASSUME LostReplies = FALSE, GrantsInv, TasksFit, WholeInv, Recorded, NEW w \in Workers,
         NEW t \in Tasks, t = task[w], NEW answer, Repair(w, answer)
  PROVE  WholeInv'
  <1> DEFINE n == t.name
             value == IF t.stage = "cleanup" THEN NoKey ELSE t.old
  <1>1. /\ t.stage \in {"cleanup", "restore"} /\ n \in Names /\ Answered(answer) /\ Over(w)
        /\ UNCHANGED <<row, whitelist, pass, held, strangers>>
        /\ consumer' = IF answer = "failed" THEN consumer ELSE [consumer EXCEPT ![n] = value]
    BY RepairDoes
  <1>2. PICK u \in Tasks : task' = [task EXCEPT ![w] = u] /\ u.stage = "free"
    BY <1>1 DEF Over
  <1>3. Busy(w) /\ Fits(t)
    BY <1>1 DEF TasksFit, Busy
  <1>4. OneByOne' => OneByOne
    BY <1>1, FaultsAdd DEF OneByOne, Recorded, GrantsInv, GrantsTypeOK
  <1>5. ASSUME OneByOne' PROVE OthersKeep(n) /\ Settled(n)'
    <2>1. Midway(t) /\ used.faults >= 1
      BY <1>1, <1>3, <1>4, <1>5, OneByOneIsAlone DEF Midway
    <2>2. answer = "ok"
      BY <1>1, <1>5, <2>1, FaultsAdd DEF OneByOne, GrantsInv, GrantsTypeOK
    <2>3. consumer'[n] = value /\ \A m \in Names \ {n} : consumer'[m] = consumer[m]
      BY <1>1, <2>2 DEF GrantsInv, GrantsTypeOK
    <2>4. CASE t.stage = "cleanup"
      <3>1. row[n] = NoRow /\ \A r \in Routes : n \notin whitelist[r]
        BY <2>1, <2>4 DEF Midway, RowMidway, WhitelistMidway
      <3> QED BY <1>1, <2>3, <2>4, <3>1 DEF Settled, OthersKeep
    <2>5. CASE t.stage = "restore"
      <3>1. /\ row[n] # NoRow /\ t.old # NoKey
            /\ \A r \in Routes : n \in whitelist[r] => Granted(n, r)
        BY <1>3, <2>1, <2>5 DEF Midway, RowMidway, ConsumerMidway, WhitelistMidway, Fits
      <3> QED BY <1>1, <2>3, <2>5, <3>1 DEF Settled, Granted, OthersKeep
    <2> QED BY <1>1, <2>4, <2>5
  <1> QED BY <1>1, <1>2, <1>3, <1>4, <1>5, WholeMove

LEMMA RevokeWhole ==
  ASSUME LostReplies = FALSE, GrantsInv, TasksFit, WholeInv, Recorded, NEW w \in Workers,
         NEW t \in Tasks, t = task[w], NEW answer, Revoke(w, answer)
  PROVE  WholeInv'
  <1> DEFINE n == t.name
  <1>1. /\ t.stage = "revoke" /\ n \in Names /\ Answered(answer)
        /\ UNCHANGED <<row, whitelist, pass, held, strangers>>
        /\ consumer' = IF answer = "failed" THEN consumer ELSE [consumer EXCEPT ![n] = NoKey]
    BY RevokeDoes
  <1>2. PICK u \in Tasks :
              /\ task' = [task EXCEPT ![w] = u] /\ u.stage = IF answer = "ok" THEN "erase" ELSE "free"
              /\ u.stage # "free" => SameRequest(t, u) /\ u.id = t.id /\ u.key = t.key /\ u.done = {}
    BY RevokeDoes
  <1>3. Busy(w) /\ t.op \in Deleting
    BY <1>1 DEF TasksFit, Fits, Busy
  <1>4. OneByOne' => OneByOne /\ answer \in {"ok", "failed"}
    BY <1>1, FaultsAdd DEF OneByOne, Recorded, GrantsInv, GrantsTypeOK
  <1>5. u.stage # "free" => u.name = n /\ u.op = t.op /\ u.id = t.id
    BY <1>2 DEF SameRequest
  <1>6. ASSUME OneByOne'
        PROVE  OthersKeep(n) /\ (IF u.stage = "free" THEN Settled(n)' ELSE Midway(u)')
    <2>1. Midway(t)
      BY <1>1, <1>3, <1>4, <1>6, OneByOneIsAlone
    <2>2. /\ row[n] # NoRow /\ row[n].id = t.id /\ consumer[n] # NoKey
          /\ \A r \in Routes : n \notin whitelist[r]
      BY <1>1, <1>3, <2>1 DEF Midway, RowMidway, ConsumerMidway, WhitelistMidway, Deleting
    <2>3. OthersKeep(n)
      BY <1>1 DEF OthersKeep, GrantsInv, GrantsTypeOK
    <2>4. CASE answer = "ok"
      <3>1. consumer'[n] = NoKey /\ u.stage = "erase"
        BY <1>1, <1>2, <2>4 DEF GrantsInv, GrantsTypeOK
      <3>2. RowMidway(u)' /\ ConsumerMidway(u)' /\ ListedMidway(u)' /\ WhitelistMidway(u)'
        BY <1>1, <1>3, <1>5, <2>2, <3>1
        DEF RowMidway, ConsumerMidway, ListedMidway, WhitelistMidway, Deleting
      <3> QED BY <2>3, <3>1, <3>2 DEF Midway
    <2>5. CASE answer = "failed"
      BY <1>1, <1>2, <2>2, <2>3, <2>5 DEF Settled
    <2> QED BY <1>4, <1>6, <2>4, <2>5
  <1> QED BY <1>1, <1>2, <1>3, <1>4, <1>5, <1>6, WholeMove

LEMMA EraseWhole ==
  ASSUME GrantsInv, TasksFit, WholeInv, Recorded, NEW w \in Workers,
         NEW t \in Tasks, t = task[w], Erase(w)
  PROVE  WholeInv'
  <1> DEFINE n == t.name
  <1>1. /\ t.stage = "erase" /\ n \in Names /\ Over(w)
        /\ UNCHANGED <<consumer, whitelist, pass, used, strangers>>
        /\ IF row[n].id = t.id
           THEN row' = [row EXCEPT ![n] = NoRow] /\ held' = [held EXCEPT ![n] = NoKey]
           ELSE UNCHANGED <<row, held>>
    BY EraseDoes
  <1>2. PICK u \in Tasks : task' = [task EXCEPT ![w] = u] /\ u.stage = "free"
    BY <1>1 DEF Over
  <1>3. Busy(w) /\ t.op \in Deleting
    BY <1>1 DEF TasksFit, Fits, Busy
  <1>4. OneByOne' => OneByOne
    BY <1>1 DEF OneByOne, Recorded
  <1>5. ASSUME OneByOne' PROVE OthersKeep(n) /\ Settled(n)'
    <2>1. Midway(t)
      BY <1>1, <1>3, <1>4, <1>5, OneByOneIsAlone
    <2>2. row[n].id = t.id /\ consumer[n] = NoKey /\ \A r \in Routes : n \notin whitelist[r]
      BY <1>1, <1>3, <2>1 DEF Midway, RowMidway, ConsumerMidway, WhitelistMidway, Deleting
    <2>3. row'[n] = NoRow /\ \A m \in Names \ {n} : row'[m] = row[m]
      BY <1>1, <2>2 DEF GrantsInv, GrantsTypeOK
    <2> QED BY <1>1, <2>2, <2>3 DEF OthersKeep, Settled
  <1> QED BY <1>1, <1>2, <1>3, <1>4, <1>5, WholeMove

LEMMA FinishWhole ==
  ASSUME GrantsInv, TasksFit, WholeInv, Recorded, NEW w \in Workers,
         NEW t \in Tasks, t = task[w], Finish(w)
  PROVE  WholeInv'
  <1> DEFINE n == t.name
             kept == IF t.op = "create" THEN row[n] = NoRow ELSE row[n] # NoRow /\ row[n].id = t.id
  <1>1. /\ t.stage = "finish" /\ n \in Names /\ Over(w)
        /\ UNCHANGED <<consumer, whitelist, pass, used, strangers>>
        /\ kept => \E new \in Rows :
                 /\ row' = [row EXCEPT ![n] = new]
                 /\ new.id = IF t.op = "create" THEN t.key ELSE row[n].id
                 /\ new.grants = IF t.op \in {"create", "update", "rekey"} THEN t.grants
                                 ELSE row[n].grants
    BY FinishDoes
  <1>2. PICK u \in Tasks : task' = [task EXCEPT ![w] = u] /\ u.stage = "free"
    BY <1>1 DEF Over
  <1>3. /\ Busy(w) /\ t.op \in Ops /\ t.op \notin Deleting /\ (t.op = "create" => t.key # 0)
        /\ row \in [Names -> Rows]
    BY <1>1 DEF TasksFit, Fits, Busy, GrantsInv, GrantsTypeOK, NewKeyOps, NoKey
  <1>4. OneByOne' => OneByOne
    BY <1>1 DEF OneByOne, Recorded
  <1>5. ASSUME OneByOne' PROVE OthersKeep(n) /\ Settled(n)'
    <2>1. Midway(t)
      BY <1>1, <1>3, <1>4, <1>5, OneByOneIsAlone
    <2>2. /\ kept /\ consumer[n] # NoKey
          /\ t.op \in {"create_my", "regenerate", "renew", "limit"} => row[n].grants = t.grants
          /\ \A r \in Routes : n \in whitelist[r] =>
               IF t.op = "limit" THEN Granted(n, r) ELSE GrantsRoute(t.grants, r)
      BY <1>1, <2>1 DEF Midway, RowMidway, ConsumerMidway, WhitelistMidway
    <2>3. PICK new \in Rows :
                 /\ row' = [row EXCEPT ![n] = new]
                 /\ new.id = IF t.op = "create" THEN t.key ELSE row[n].id
                 /\ new.grants = IF t.op \in {"create", "update", "rekey"} THEN t.grants
                                 ELSE row[n].grants
      BY <1>1, <2>2
    <2>4. new.id # 0
      BY <1>1, <1>3, <2>2, <2>3 DEF TasksFit
    <2>5. row'[n] = new /\ new # NoRow /\ \A m \in Names \ {n} : row'[m] = row[m]
      BY <1>1, <1>3, <2>3, <2>4 DEF NoRow
    <2>6. t.op # "limit" => new.grants = t.grants
      BY <1>3, <2>2, <2>3 DEF Ops, Deleting
    <2>7. \A r \in Routes : n \in whitelist[r] => GrantsRoute(new.grants, r)
      BY <2>2, <2>3, <2>6 DEF Granted
    <2> QED BY <1>1, <2>2, <2>5, <2>7 DEF OthersKeep, Settled, Granted
  <1> QED BY <1>1, <1>2, <1>3, <1>4, <1>5, WholeMove

(* What leaves the requests and what they write alone.                     *)
LEMMA WholeStays ==
  ASSUME GrantsInv, WholeInv, UNCHANGED <<task, consumer>>, OneByOne' => OneByOne,
         used'.faults = used.faults,
         \A n \in Names : /\ (row'[n] = NoRow) = (row[n] = NoRow)
                          /\ row'[n].id = row[n].id /\ row'[n].grants = row[n].grants
                          /\ \A r \in Routes : (n \in whitelist'[r]) = (n \in whitelist[r])
  PROVE  WholeInv'
  <1> SUFFICES ASSUME OneByOne' PROVE WholeInv'
    BY DEF WholeInv
  <1>1. ASSUME NEW n \in Names, Settled(n) PROVE Settled(n)'
    BY <1>1 DEF Settled, Granted
  <1>2. ASSUME NEW w \in Workers, Busy(w), Midway(task[w]) PROVE Midway(task[w])'
    <2>1. PICK t : t = task[w]
      OBVIOUS
    <2>2. t.name \in Names /\ Midway(t)
      BY <1>2, <2>1 DEF GrantsInv, NamesAreKnown
    <2>3. \A r \in Routes : Granted(t.name, r)' = Granted(t.name, r)
      BY <2>2 DEF Granted
    <2>4. RowMidway(t)' /\ ConsumerMidway(t)'
      BY <2>2 DEF Midway, RowMidway, ConsumerMidway
    <2>5. WhitelistMidway(t)'
      BY <2>2, <2>3 DEF Midway, WhitelistMidway
    <2>6. ListedMidway(t)'
      BY <2>2, <2>3 DEF Midway, ListedMidway
    <2>7. Midway(t)'
      BY <2>2, <2>4, <2>5, <2>6 DEF Midway
    <2> QED BY <2>1, <2>7
            DEF Midway, RowMidway, ConsumerMidway, WhitelistMidway, ListedMidway, Granted
  <1> QED BY <1>1, <1>2 DEF WholeInv, Busy

LEMMA WholeStep ==
  ASSUME Passes = {}, LostReplies = FALSE, GrantsInv, TasksFit, WholeInv, [Next]_vars
  PROVE  WholeInv'
  <1>1. ASSUME NEW w \in Workers, Handler(w), Recorded PROVE WholeInv'
    <2> PICK t \in Tasks : t = task[w]
      BY DEF GrantsInv, GrantsTypeOK
    <2>1. CASE Claim(w)
      BY <1>1, <2>1, ClaimWhole
    <2>2. CASE Unclaim(w)
      BY <1>1, <2>2, UnclaimWhole
    <2>3. CASE Finish(w)
      BY <1>1, <2>3, FinishWhole
    <2>4. CASE Erase(w)
      BY <1>1, <2>4, EraseWhole
    <2>5. ASSUME NEW answer, Fetch(w, answer) PROVE WholeInv'
      BY <1>1, <2>5, FetchWhole
    <2>6. ASSUME NEW answer, Provision(w, answer) PROVE WholeInv'
      BY <1>1, <2>6, ProvisionWhole
    <2>7. ASSUME NEW answer, ListRoutes(w, answer) PROVE WholeInv'
      BY <1>1, <2>7, ListRoutesWhole
    <2>8. ASSUME NEW answer, NEW r \in Routes, PutRoute(w, r, answer) PROVE WholeInv'
      BY <1>1, <2>8, PutRouteWhole
    <2>9. ASSUME NEW answer, NEW r \in Routes, UndoRoute(w, r, answer) PROVE WholeInv'
      BY <1>1, <2>9, UndoRouteWhole
    <2>10. ASSUME NEW answer, Repair(w, answer) PROVE WholeInv'
      BY <1>1, <2>10, RepairWhole
    <2>11. ASSUME NEW answer, Revoke(w, answer) PROVE WholeInv'
      BY <1>1, <2>11, RevokeWhole
    <2> QED BY <1>1, <2>1, <2>2, <2>3, <2>4, <2>5, <2>6, <2>7, <2>8, <2>9, <2>10, <2>11 DEF Handler
  <1>2. ASSUME NEW w \in Workers, NEW op \in Offered, NEW n \in Names, NEW grants \in Grants,
               Begin(w, op, n, grants), Recorded
        PROVE  WholeInv'
    BY <1>2, BeginWhole
  <1>3. ASSUME NEW w \in Workers, Break(w), Recorded PROVE WholeInv'
    <2>1. used'.breaks # 0
      BY <1>3, BreakDoes
    <2> QED BY <2>1 DEF WholeInv, OneByOne
  <1>4. ASSUME NEW n \in Names, Expire(n), Recorded PROVE WholeInv'
    <2>1. row \in [Names -> Rows] /\ row' = [row EXCEPT ![n].expired = TRUE] /\ row[n] # NoRow
          /\ UNCHANGED <<task, consumer, whitelist, used>>
      BY <1>4 DEF Expire, GrantsInv, GrantsTypeOK
    <2>2. row[n].id # 0
      BY <2>1 DEF TasksFit
    <2>3. \A m \in Names : row'[m].id = row[m].id /\ row'[m].grants = row[m].grants
      BY <2>1 DEF Rows
    <2>4. \A m \in Names : (row'[m] = NoRow) = (row[m] = NoRow)
      <3> TAKE m \in Names
      <3>1. CASE m = n
        BY <2>1, <2>2, <2>3, <3>1 DEF NoRow
      <3>2. CASE m # n
        BY <2>1, <3>2
      <3> QED BY <3>1, <3>2
    <2>5. OneByOne' => OneByOne
      BY <1>4, <2>1 DEF OneByOne, Recorded
    <2> QED BY <2>1, <2>3, <2>4, <2>5, WholeStays
  <1>5. ASSUME NEW x \in Strangers, NEW r \in Routes, HandEdit(x, r), Recorded PROVE WholeInv'
    <2>1. /\ whitelist' = [whitelist EXCEPT ![r] = (whitelist[r] \ {DenyAll}) \cup {x}]
          /\ UNCHANGED <<row, task, consumer>>
      BY <1>5 DEF HandEdit
    <2>2. \A n \in Names, q \in Routes : (n \in whitelist'[q]) = (n \in whitelist[q])
      <3>1. \A n \in Names : n # x /\ n # DenyAll
        BY GrantsAssumption
      <3> QED BY <2>1, <3>1 DEF GrantsInv, GrantsTypeOK, Whitelists
    <2>3. used'.faults = used.faults /\ used'.breaks = used.breaks
      BY <1>5 DEF HandEdit, GrantsInv, GrantsTypeOK
    <2>4. OneByOne' => OneByOne
      BY <1>5, <2>3 DEF OneByOne, Recorded
    <2> QED BY <2>1, <2>2, <2>3, <2>4, WholeStays
  <1>6. CASE UNCHANGED vars
    BY <1>6, WholeStays DEF vars, OneByOne
  <1> QED BY <1>1, <1>2, <1>3, <1>4, <1>5, <1>6 DEF Next, Outside

LEMMA WholeInit ==
  Init => TasksFit /\ WholeInv
  <1> SUFFICES ASSUME Init PROVE TasksFit /\ WholeInv
    OBVIOUS
  <1>1. \A w \in Workers : ~Busy(w)
    BY FreeIsATask DEF Init, Busy
  <1>2. ASSUME NEW n \in Names
        PROVE  row[n] = NoRow /\ consumer[n] = NoKey /\ \A r \in Routes : n \notin whitelist[r]
    <2>1. n # DenyAll
      BY GrantsAssumption
    <2> QED BY <2>1 DEF Init
  <1> QED BY <1>1, <1>2 DEF TasksFit, WholeInv, Settled

(* Requests are whole where no pass runs among them and APISIX does what   *)
(* it answers: a pass with an old listing may put a deleted key back on a  *)
(* whitelist (what PassIsExact is about), and a removal whose answer was   *)
(* lost leaves a row without a consumer, which is deleted again.           *)
THEOREM RequestsStayWhole ==
  ASSUME Passes = {}, LostReplies = FALSE
  PROVE  Spec => []RequestsAreWhole
  <1>1. GrantsInv /\ TasksFit /\ WholeInv => NothingHalfDone
    <2> SUFFICES ASSUME WholeInv, OneByOne, \A w \in Workers : At(w, "free")
                 PROVE  \A n \in Names : Settled(n)
      BY DEF NothingHalfDone, OneByOne, Settled, Granted
    <2> QED BY DEF WholeInv, Busy, At
  <1>2. Init => GrantsInv /\ TasksFit /\ WholeInv
    BY WholeInit, GrantsInitInv
  <1>3. GrantsInv /\ TasksFit /\ WholeInv /\ [Next]_vars => (GrantsInv /\ TasksFit /\ WholeInv)'
    BY GrantsStep, FitStep, WholeStep
  <1>4. Spec => []NothingHalfDone
    BY <1>1, <1>2, <1>3, PTL DEF Spec
  <1>5. NothingHalfDone /\ HandedOutKeyWorks => RequestsAreWhole
    BY DEF RequestsAreWhole
  <1> QED BY <1>4, <1>5, HandedOutKeysWork, PTL
===============================================================================
