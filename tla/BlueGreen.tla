------------------------------ MODULE BlueGreen -------------------------------
(***************************************************************************)
(* scripts/deploy-bluegreen.sh: deploy, promote, rollback and stop of the  *)
(* two app stacks, and the boot-time provisioning of unibridge-service     *)
(* (app/main.py) that runs beside it.                                      *)
(*                                                                         *)
(* The routing of a color lives in four places that no transaction joins:  *)
(* two APISIX upstreams, the edge proxy's config and the state file.  A    *)
(* command changes them one after the other; any step may fail, an APISIX  *)
(* PUT may be applied although its answer is lost, and the script may be   *)
(* killed anywhere.  The lock allows one command at a time.                *)
(***************************************************************************)
EXTENDS Integers

CONSTANTS
  Blue, Green,   \* the colors
  None,          \* no color: an absent upstream, config, backup or state file
  MaxCommands,   \* bound on commands the operator runs
  MaxFaults,     \* bound on failing steps and kills of the script
  MaxMishaps     \* bound on container restarts and losses of etcd

Colors == {Blue, Green}
Maybe == Colors \cup {None}

ASSUME BlueGreenAssumption ==
  /\ Blue # Green /\ None \notin Colors
  /\ {MaxCommands, MaxFaults, MaxMishaps} \subseteq Nat

VARIABLES
  svc,      \* node of the unibridge-service upstream
  conv,     \* node of the llm-converter upstream
  routes,   \* the core routes exist and are current
  edge,     \* the color the running edge proxies to
  live,     \* the live edge config file
  backup,   \* its backup, EDGE_PREVIOUS_CONFIG
  state,    \* STATE_FILE
  box,      \* the containers of each color
  script,   \* the command that holds the lock
  used,     \* how much of each bound is used up
  (* History. *)
  torn      \* what happened since a command last succeeded that leaves the
            \* routing to chance

vars == <<svc, conv, routes, edge, live, backup, state, box, script, used, torn>>
upstreams == <<svc, conv>>
host == <<edge, live, backup, state>>

Other(c) == IF c = Blue THEN Green ELSE Blue

(* Where a container is in its lifespan.  An armed one provisions APISIX:  *)
(* it reads an upstream at "boot" and "midway" and writes it at "putSvc"   *)
(* and "putConv".                                                          *)
Life == {"absent", "stopped", "boot", "putSvc", "midway", "putConv", "up"}
Booting == {"boot", "putSvc", "midway", "putConv"}
Running == Booting \cup {"up"}

Step == {"idle", "compose", "wait", "prepare", "svc", "conv", "revert",
         "install", "reload", "restore", "commit", "retire"}
Cause == {"killed", "warned", "unanswered", "raced", "meddled", "drifted"}

(* An empty host: nothing was ever deployed. *)
Init ==
  /\ svc = None /\ conv = None /\ edge = None
  /\ live = None /\ backup = None /\ state = None
  /\ routes = FALSE
  /\ box = [c \in Colors |-> [life |-> "absent", armed |-> FALSE, pin |-> c]]
  /\ script = [step |-> "idle", deploys |-> FALSE, target |-> Blue, old |-> None,
               to |-> Blue, back |-> None, restoring |-> FALSE]
  /\ used = [commands |-> 0, faults |-> 0, mishaps |-> 0]
  /\ torn = {}

Command == used.commands < MaxCommands /\ used' = [used EXCEPT !.commands = @ + 1]
Fault   == used.faults < MaxFaults /\ used' = [used EXCEPT !.faults = @ + 1]
Mishap  == used.mishaps < MaxMishaps /\ used' = [used EXCEPT !.mishaps = @ + 1]

At(step) == script.step = step
Goto(step) == script' = [script EXCEPT !.step = step]
Exit == Goto("idle")

-------------------------------------------------------------------------------
(* What else may move an upstream: etcd is lost, a container claims one    *)
(* that is vacant, or one read it before a command moved it and writes it  *)
(* afterwards.  A command mends whatever happened before its first PUT.    *)
Claiming(c) == box[c].life \in {"putSvc", "putConv"}
InFlight == script.step \in {"conv", "revert", "install", "reload", "restore",
                             "commit", "retire"} \/ script.restoring
Meddled == IF InFlight THEN {"meddled"} ELSE {"drifted"}
Raced(node) ==
  IF \E c \in Colors : Claiming(c) /\ box[c].pin # node THEN {"raced"} ELSE {}
Settled ==
  LET over == {"meddled"} \cup (IF \E c \in Colors : Claiming(c) THEN {} ELSE {"raced"})
  IN  (torn \ over) \cup (IF torn \cap over = {} THEN {} ELSE {"drifted"})

(* deploy_color up to compose: a target that is not given is the other     *)
(* color, or blue.                                                         *)
Deploy(given) ==
  /\ At("idle") /\ Command
  /\ LET target == IF given # None THEN given
                   ELSE IF state # None THEN Other(state) ELSE Blue
     IN  script' = [script EXCEPT !.step = "compose", !.deploys = TRUE,
                      !.target = target, !.old = state,
                      !.to = target, !.back = state, !.restoring = FALSE]
  /\ torn' = Settled
  /\ UNCHANGED <<upstreams, routes, host, box>>

StartPromotion(target) ==
  /\ script' = [script EXCEPT !.step = "wait", !.deploys = FALSE,
                  !.target = target, !.old = state,
                  !.to = target, !.back = state, !.restoring = FALSE]
  /\ torn' = Settled

(* promote_color. *)
Promote(target) ==
  /\ At("idle") /\ Command
  /\ StartPromotion(target)
  /\ UNCHANGED <<upstreams, routes, host, box>>

(* rollback: only to a color that is already healthy. *)
Rollback ==
  /\ At("idle") /\ Command
  /\ state # None /\ box[Other(state)].life = "up"
  /\ StartPromotion(Other(state))
  /\ UNCHANGED <<upstreams, routes, host, box>>

(* stop_color takes whatever color it is given. *)
Stop(c) ==
  /\ At("idle") /\ Command
  /\ box[c].life \in Running
  /\ box' = [box EXCEPT ![c].life = "stopped"]
  /\ UNCHANGED <<upstreams, routes, host, script, torn>>

Recreate(c, armed, pin) ==
  box' = [box EXCEPT ![c] = [life |-> "boot", armed |-> armed, pin |-> pin]]

(* compose up of the target.  It is armed on the first deploy, and when    *)
(* APISIX answers and lacks its core routes; then it is pinned to the      *)
(* color that is active (provision_route_color).                           *)
Compose ==
  /\ At("compose")
  /\ \E answers \in BOOLEAN :
       LET armed == script.old = None \/ (answers /\ ~routes)
           pin   == IF armed /\ script.old # None THEN script.old ELSE script.target
       IN  \/ Recreate(script.target, armed, pin)
           \/ /\ box[script.target] = [life |-> "up", armed |-> armed, pin |-> pin]
              /\ UNCHANGED box
  /\ Goto("wait")
  /\ UNCHANGED <<upstreams, routes, host, used, torn>>

(* compose --wait and wait_color time out on a color that is not healthy. *)
Wait ==
  /\ At("wait")
  /\ \/ box[script.target].life = "up" /\ Goto("prepare")
     \/ box[script.target].life # "up" /\ Exit
  /\ UNCHANGED <<upstreams, routes, host, box, used, torn>>

(* prepare_edge: a candidate is rendered and validated on the side. *)
Prepare ==
  /\ At("prepare")
  /\ Goto("svc")
  /\ UNCHANGED <<upstreams, routes, host, box, used, torn>>

GiveUp ==
  /\ script.step \in {"compose", "prepare"} /\ Fault
  /\ Exit
  /\ UNCHANGED <<upstreams, routes, host, box, torn>>

-------------------------------------------------------------------------------
(* apisix_put: five attempts.  When all of them fail the last may have been *)
(* applied all the same.                                                    *)
PutResults(old, new) == {[ok |-> TRUE, now |-> new],
                         [ok |-> FALSE, now |-> old], [ok |-> FALSE, now |-> new]}
Charged(put) == IF put.ok THEN UNCHANGED used ELSE Fault
Unanswered(put, old) == IF ~put.ok /\ put.now # old THEN {"unanswered"} ELSE {}

(* promote_apisix script.to script.back, in two PUTs.  It runs on the way  *)
(* to the target, and again on the way back when the edge switch failed.   *)
PutService ==
  /\ At("svc")
  /\ \E put \in PutResults(svc, script.to) :
       /\ Charged(put)
       /\ svc' = put.now
       /\ torn' = torn \cup Unanswered(put, svc) \cup Raced(script.to)
                       \cup (IF ~put.ok /\ script.restoring THEN {"warned"} ELSE {})
       /\ IF put.ok THEN Goto("conv") ELSE Exit
  /\ UNCHANGED <<conv, routes, host, box>>

PutConverter ==
  /\ At("conv")
  /\ \E put \in PutResults(conv, script.to) :
       /\ Charged(put)
       /\ conv' = put.now
       /\ torn' = torn \cup Unanswered(put, conv) \cup Raced(script.to)
                       \cup (IF ~put.ok /\ (script.restoring \/ script.back = None)
                             THEN {"warned"} ELSE {})
       /\ IF put.ok THEN IF script.restoring THEN Exit ELSE Goto("install")
          ELSE IF script.back # None THEN Goto("revert") ELSE Exit
  /\ UNCHANGED <<svc, routes, host, box>>

Revert ==
  /\ At("revert")
  /\ \E put \in PutResults(svc, script.back) :
       /\ Charged(put)
       /\ svc' = put.now
       /\ torn' = torn \cup Raced(script.back)
                       \cup (IF put.ok THEN {} ELSE {"warned"})
  /\ Exit
  /\ UNCHANGED <<conv, routes, host, box>>

-------------------------------------------------------------------------------
(* Mutants: APISIX is not rolled back; it is, whether a previous color is  *)
(* known or not.                                                           *)
LeaveApisix == Exit
(* restore_apisix_after_edge_failure. *)
RestoreApisix ==
  IF script.old \in {None, script.target} THEN Exit
  ELSE script' = [script EXCEPT !.step = "svc", !.to = script.old,
                    !.back = script.target, !.restoring = TRUE]

(* Mutant: the edge is not reloaded. *)
InstallOnly ==
  /\ At("install")
  /\ backup' = live /\ live' = script.target
  /\ Goto("commit")
  /\ UNCHANGED <<upstreams, routes, edge, state, box, used, torn>>

(* switch_edge, first half: the live config is backed up and replaced. *)
Install ==
  /\ At("install")
  /\ \/ /\ backup' = live /\ live' = script.target
        /\ Goto("reload")
        /\ UNCHANGED used
     \/ /\ Fault /\ RestoreApisix
        /\ backup' \in {None, live}
        /\ UNCHANGED live
  /\ UNCHANGED <<upstreams, routes, edge, state, box, torn>>

(* switch_edge, second half: the edge comes up with it, or falls over with *)
(* the config it had, the new one or none.                                 *)
Reload ==
  /\ At("reload")
  /\ \/ edge' = script.target /\ Goto("commit") /\ UNCHANGED used
     \/ Fault /\ edge' \in {edge, script.target, None} /\ Goto("restore")
  /\ UNCHANGED <<upstreams, routes, live, backup, state, box, torn>>

(* restore_previous_edge: back to the backup, or down without one. *)
Restore ==
  /\ At("restore")
  /\ \/ live' = backup /\ edge' = backup /\ UNCHANGED <<used, torn>>
     \/ /\ backup # None /\ Fault
        /\ live' \in {live, backup} /\ edge' \in {edge, backup, None}
        /\ torn' = torn \cup {"warned"}
  /\ RestoreApisix
  /\ UNCHANGED <<upstreams, routes, backup, state, box>>

(* commit_active_color, after which the command has succeeded: what was    *)
(* torn before is mended, except what happened behind its back.            *)
Commit ==
  /\ At("commit")
  /\ \/ /\ state' = script.target /\ backup' = None
        /\ IF script.deploys /\ script.old \notin {None, script.target}
           THEN Goto("retire") ELSE Exit
        /\ torn' = torn \cap {"raced", "meddled"}
        /\ UNCHANGED used
     \/ Fault /\ Goto("restore") /\ UNCHANGED <<state, backup, torn>>
  /\ UNCHANGED <<upstreams, routes, edge, live, box>>

(* The end of deploy_color: the old color is stopped after a drain, or     *)
(* kept and, when armed, recreated disarmed (a failure is only warned of). *)
Retire ==
  /\ At("retire")
  /\ LET old == script.old
     IN  \/ box' = [box EXCEPT ![old].life =
                      IF @ \in Running THEN "stopped" ELSE @]
         \/ IF box[old].life # "absent" /\ ~box[old].armed THEN UNCHANGED box
            ELSE \/ Recreate(old, FALSE, script.target)
                 \/ UNCHANGED box
  /\ Exit
  /\ UNCHANGED <<upstreams, routes, host, used, torn>>

Kill ==
  /\ ~At("idle") /\ Fault
  /\ Exit
  /\ torn' = IF script.step \in {"compose", "wait", "prepare", "retire"}
             THEN torn ELSE torn \cup {"killed"}
  /\ UNCHANGED <<upstreams, routes, host, box>>

-------------------------------------------------------------------------------
(* Mutant: a booting container writes its color whatever is there. *)
ClaimAnyway(node, pin) == TRUE

(* _put_upstream_if_unclaimed, first half: only an upstream that is absent  *)
(* or already points at the node of the container's env is claimed.         *)
Unclaimed(node, pin) == node \in {None, pin}

(* The lifespan of a container, with provisioning when it is armed. *)
Boot(c) ==
  LET b == box[c]
      become(life) == box' = [box EXCEPT ![c].life = life]
  IN  /\ \/ /\ b.life = "boot"
            /\ become(IF ~b.armed THEN "up"
                      ELSE IF Unclaimed(svc, b.pin) THEN "putSvc" ELSE "midway")
            /\ UNCHANGED <<upstreams, routes>>
         \/ /\ b.life = "putSvc" /\ become("midway")
            /\ svc' = b.pin
            /\ UNCHANGED <<conv, routes>>
         \/ /\ b.life = "midway"
            /\ become(IF Unclaimed(conv, b.pin) THEN "putConv" ELSE "up")
            /\ routes' = TRUE
            /\ UNCHANGED upstreams
         \/ /\ b.life = "putConv" /\ become("up")
            /\ conv' = b.pin
            /\ UNCHANGED <<svc, routes>>
      /\ torn' = IF None \in {svc, conv} /\ upstreams' # upstreams
                 THEN torn \cup Meddled ELSE torn
      /\ UNCHANGED <<host, script, used>>

(* restart: unless-stopped. *)
Restart(c) ==
  /\ box[c].life \in Running /\ Mishap
  /\ box' = [box EXCEPT ![c].life = "boot"]
  /\ UNCHANGED <<upstreams, routes, host, script, torn>>

EtcdLost ==
  /\ Mishap
  /\ svc' = None /\ conv' = None /\ routes' = FALSE
  /\ torn' = torn \cup Meddled
  /\ UNCHANGED <<host, box, script>>

Script ==
  \/ Compose \/ Wait \/ Prepare \/ GiveUp
  \/ PutService \/ PutConverter \/ Revert
  \/ Install \/ Reload \/ Restore \/ Commit \/ Retire

Next ==
  \/ \E given \in Maybe : Deploy(given)
  \/ \E c \in Colors : Promote(c) \/ Stop(c) \/ Boot(c) \/ Restart(c)
  \/ Rollback \/ Script \/ Kill \/ EtcdLost

Spec == Init /\ [][Next]_vars

-------------------------------------------------------------------------------
(* Between commands the state file, the edge and both upstreams name one    *)
(* color: a command that succeeded moved them all, one that failed moved    *)
(* them all back, unless it warned, was killed or lost the answer to a PUT; *)
(* and the next success mends what those left behind.                       *)
RoutingAgrees ==
  At("idle") /\ torn = {} /\ state # None => {svc, conv, edge, live} = {state}

(* A deploy to the other color builds over nothing that serves traffic, and *)
(* retires nothing that does (deploy_color).                                *)
ServingColorIsLeftAlone ==
  /\ At("compose") /\ torn = {} /\ script.old \notin {None, script.target}
       => script.target \notin {svc, conv, edge}
  /\ At("retire") /\ torn = {} => script.old \notin {svc, conv, edge}

(* The state file is written last: both upstreams, the live config and the  *)
(* running edge are on the new color by then (commit_active_color).         *)
StateFileIsLast ==
  [][state' # state /\ torn \cap {"raced", "meddled"} = {}
       => {svc, conv, edge, live} = {state'}]_vars
===============================================================================
