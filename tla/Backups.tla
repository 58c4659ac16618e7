-------------------------------- MODULE Backups --------------------------------
(***************************************************************************)
(* backup/backup.sh takes a snapshot of every store into a directory;      *)
(* backup/restore.sh puts one store back while the services that use it    *)
(* are stopped.  One of them runs at a time (.backup.lock); the deployment *)
(* script, an operator's compose commands and a reboot do not take that    *)
(* lock.  Both stop at the first step that fails (set -e), and a command   *)
(* that is killed stops there too.                                         *)
(***************************************************************************)
EXTENDS Naturals, Sequences, FiniteSets

CONSTANTS MaxBackups, MaxRestores,
          MaxMeddling,   \* bound on services started or stopped by others
          MaxBackupFaults  \* bound on steps that fail and files that rot

Stores == {"etcd", "keycloak-db", "meta", "bifrost"}
UsedBy == [s \in Stores |-> CASE s = "etcd" -> {"apisix"} [] s = "keycloak-db" -> {"keycloak"}
                              [] s = "meta" -> {"blue", "green"} [] s = "bifrost" -> {"bifrost"}]
Services == UNION {UsedBy[s] : s \in Stores}
StoreOf(x) == CHOOSE s \in Stores : x \in UsedBy[s]

ASSUME BackupsAssumption == {MaxBackups, MaxRestores, MaxMeddling, MaxBackupFaults} \subseteq Nat

VARIABLES
  held,      \* what each store holds: "good", "torn" while it is being replaced
             \* or when that failed, "mess" when a torn one was put back
  runs,      \* the services that run
  snapshots, \* each snapshot, oldest first: its files and its manifest
  job,       \* the command that holds the lock
  taken, restored, meddled, broken,
  (* History. *)
  strays,    \* services that run beside a restore, or after one that failed,
             \* through somebody else, or because `compose ps` missed them
  succeeded  \* a backup has succeeded

backupVars == <<held, runs, snapshots, job, taken, restored, meddled, broken, strays, succeeded>>

NoFiles == [s \in Stores |-> "none"]
Empty == [files |-> NoFiles, manifest |-> "none"]
NoJob == [at |-> "idle"]

(* Both colors, one, or none are up; the rest of the stack is. *)
BackupsInit ==
  /\ held = [s \in Stores |-> "good"]
  /\ \E colors \in SUBSET UsedBy["meta"] : runs = (Services \ UsedBy["meta"]) \cup colors
  /\ snapshots = [k \in 1..MaxBackups |-> Empty] /\ job = NoJob
  /\ taken = 0 /\ restored = 0 /\ meddled = 0 /\ broken = 0
  /\ strays = {} /\ succeeded = FALSE

StepFails == broken < MaxBackupFaults /\ broken' = broken + 1
GoesOn(next) == job' = next /\ UNCHANGED broken
GivesUp == job' = NoJob /\ StepFails

stores == <<held, runs, strays>>
counts == <<taken, restored, meddled>>

-------------------------------------------------------------------------------
Order == <<"etcd", "keycloak-db", "meta", "bifrost", "manifest", "rotate">>

BackupStarts ==
  /\ job.at = "idle" /\ taken < MaxBackups /\ taken' = taken + 1
  /\ job' = [at |-> "backup", step |-> 1]
  /\ UNCHANGED <<stores, snapshots, restored, meddled, broken, succeeded>>

AtStep(what) == job.at = "backup" /\ Order[job.step] = what
NextStep ==
  /\ GoesOn(IF job.step = Len(Order) THEN NoJob ELSE [job EXCEPT !.step = @ + 1])
  /\ succeeded' = (succeeded \/ job.step = Len(Order))

Copy(s) == IF held[s] = "good" THEN "good" ELSE "mess"

(* backup_etcd, backup_postgres, backup_unibridge_meta, backup_bifrost: a  *)
(* dump that breaks off leaves what it has written.                        *)
Dump(s) ==
  /\ AtStep(s)
  /\ \/ snapshots' = [snapshots EXCEPT ![taken].files[s] = Copy(s)] /\ NextStep
     \/ /\ \E left \in {"none", "short"} : snapshots' = [snapshots EXCEPT ![taken].files[s] = left]
        /\ GivesUp /\ UNCHANGED succeeded
  /\ UNCHANGED <<stores, counts>>

(* write_manifest lists every file with its checksum, as it is by then. *)
WriteManifest ==
  /\ AtStep("manifest")
  /\ \/ snapshots' = [snapshots EXCEPT ![taken].manifest = "whole"] /\ NextStep
     \/ /\ \E left \in {"none", "short"} : snapshots' = [snapshots EXCEPT ![taken].manifest = left]
        /\ GivesUp /\ UNCHANGED succeeded
  /\ UNCHANGED <<stores, counts>>

(* rotate_old: any of the older ones may have reached the age by now.  One *)
(* whose removal breaks off keeps some of its files.                       *)
Rotate ==
  /\ AtStep("rotate")
  /\ \E old \in SUBSET (1..(taken - 1)) :
       \/ snapshots' = [k \in 1..MaxBackups |-> IF k \in old THEN Empty ELSE snapshots[k]] /\ NextStep
       \/ /\ \E k \in old, s \in Stores : \E m \in {"none", snapshots[k].manifest} :
               snapshots' = [snapshots EXCEPT ![k].files[s] = "none", ![k].manifest = m]
          /\ GivesUp /\ UNCHANGED succeeded
  /\ UNCHANGED <<stores, counts>>

-------------------------------------------------------------------------------
(* verify_backup_dir: a manifest that lists the file with this checksum. *)
Verified(k, s) == snapshots[k].manifest = "whole" /\ snapshots[k].files[s] \in {"good", "mess"}

(* restore.sh.  What is to be stopped is settled before the operator is    *)
(* asked to confirm: the running services of a database, where one that    *)
(* `compose ps` fails to list counts as stopped; APISIX and Bifrost in any *)
(* case.                                                                   *)
RestoreStarts(k, s) ==
  /\ job.at = "idle" /\ restored < MaxRestores /\ restored' = restored + 1
  /\ Verified(k, s)
  /\ \/ /\ s \in {"etcd", "bifrost"} /\ UNCHANGED strays
        /\ GoesOn([at |-> "confirm", store |-> s, from |-> k, listed |-> UsedBy[s], todo |-> UsedBy[s]])
     \/ /\ s \in {"keycloak-db", "meta"} /\ UNCHANGED strays
        /\ LET listed == runs \cap UsedBy[s] IN
           GoesOn([at |-> "confirm", store |-> s, from |-> k, listed |-> listed, todo |-> listed])
     \/ /\ s = "meta" /\ StepFails
        /\ \E missed \in runs \cap UsedBy[s] :
             LET listed == (runs \cap UsedBy[s]) \ {missed} IN
             /\ strays' = strays \cup {missed}
             /\ job' = [at |-> "confirm", store |-> s, from |-> k, listed |-> listed, todo |-> listed]
  /\ UNCHANGED <<held, runs, snapshots, taken, meddled, succeeded>>

(* "Type 'RESTORE PG' to continue", and the services stop one by one. *)
StopServices ==
  /\ job.at \in {"confirm", "stop"}
  /\ \/ job.at = "confirm" /\ job' = NoJob /\ UNCHANGED <<runs, strays, broken>>
     \/ job.todo = {} /\ GoesOn([job EXCEPT !.at = "replace", !.todo = job.listed]) /\ UNCHANGED <<runs, strays>>
     \/ \E x \in job.todo :
          \/ /\ runs' = runs \ {x} /\ strays' = strays \ {x}
             /\ GoesOn([job EXCEPT !.at = "stop", !.todo = @ \ {x}])
          \/ GivesUp /\ UNCHANGED <<runs, strays>>
  /\ UNCHANGED <<held, snapshots, counts, succeeded>>

(* Bifrost's store is swapped in one rename, after its file was checked;   *)
(* the others are emptied and filled again.                                *)
Swapped == {"bifrost"}

BeginReplace ==
  /\ job.at = "replace" /\ job.store \notin Swapped
  /\ held' = [held EXCEPT ![job.store] = "torn"]
  /\ GoesOn([job EXCEPT !.at = "fill"])
  /\ UNCHANGED <<runs, snapshots, counts, strays, succeeded>>

(* A dump that broke off was packed whole: nothing but its missing         *)
(* checksum tells; a rotten file does not unpack.                          *)
Content == snapshots[job.from].files[job.store]
PutBack(content) == IF content = "short" THEN "torn" ELSE content

(* Mutant: the services come back although the store was not filled. *)
BackAnyway == [job EXCEPT !.at = "start"]
AfterFailedFill == NoJob

EndReplace ==
  /\ \/ job.at = "fill"
     \/ job.at = "replace" /\ job.store \in Swapped
  /\ \/ /\ Content # "rotten"
        /\ held' = [held EXCEPT ![job.store] = PutBack(Content)]
        /\ GoesOn([job EXCEPT !.at = "start"])
     \/ /\ IF Content = "rotten" THEN UNCHANGED broken ELSE StepFails
        /\ UNCHANGED held
        /\ job' = IF job.store \in Swapped THEN [job EXCEPT !.at = "start"] ELSE AfterFailedFill
  /\ UNCHANGED <<runs, snapshots, counts, strays, succeeded>>

(* ... and those that were stopped come back, none else. *)
StartServices ==
  /\ job.at = "start"
  /\ \/ job.todo = {} /\ GoesOn(NoJob) /\ UNCHANGED runs
     \/ \E x \in job.todo : \/ runs' = runs \cup {x} /\ GoesOn([job EXCEPT !.todo = @ \ {x}])
                            \/ GivesUp /\ UNCHANGED runs
  /\ UNCHANGED <<held, snapshots, counts, strays, succeeded>>

-------------------------------------------------------------------------------
(* Somebody else starts or stops a service: a deployment, an operator who  *)
(* follows the advice after a failure too early, a reboot.                 *)
Restoring(s) == job.at \in {"confirm", "stop", "replace", "fill", "start"} /\ job.store = s
StartsElsewhere(x) ==
  /\ x \notin runs /\ meddled < MaxMeddling /\ meddled' = meddled + 1
  /\ runs' = runs \cup {x}
  /\ strays' = IF Restoring(StoreOf(x)) \/ held[StoreOf(x)] = "torn" THEN strays \cup {x} ELSE strays
  /\ UNCHANGED <<held, snapshots, job, taken, restored, broken, succeeded>>
StopsElsewhere(x) ==
  /\ x \in runs /\ meddled < MaxMeddling /\ meddled' = meddled + 1
  /\ runs' = runs \ {x} /\ strays' = strays \ {x}
  /\ UNCHANGED <<held, snapshots, job, taken, restored, broken, succeeded>>

(* A file of a snapshot is damaged, or copied in part. *)
Rots(k, s) ==
  /\ snapshots[k].files[s] \in {"good", "mess"} /\ StepFails
  /\ snapshots' = [snapshots EXCEPT ![k].files[s] = "rotten"]
  /\ UNCHANGED <<stores, job, counts, succeeded>>

BackupsNext ==
  \/ BackupStarts \/ WriteManifest \/ Rotate \/ StopServices \/ BeginReplace \/ EndReplace \/ StartServices
  \/ \E s \in Stores : Dump(s) \/ \E k \in 1..taken : RestoreStarts(k, s) \/ Rots(k, s)
  \/ \E x \in Services : StartsElsewhere(x) \/ StopsElsewhere(x)

BackupsSpec == BackupsInit /\ [][BackupsNext]_backupVars

-------------------------------------------------------------------------------
(* Whatever step of a restore fails, no service runs on a store that was   *)
(* left half replaced or filled from a damaged file, unless somebody else  *)
(* started it (restore_postgres, restore_etcd, restore_bifrost).           *)
NobodyOnATornStore == \A s \in Stores : held[s] = "torn" => runs \cap UsedBy[s] \subseteq strays

(* Once a backup has succeeded there is always one to restore from: a run  *)
(* that fails removes nothing, one that succeeds keeps its own snapshot.   *)
ASnapshotRemains == succeeded => \E k \in 1..taken : snapshots[k].manifest = "whole"

(* Together: what fails half-way costs neither a store nor the snapshots.  *)
BackupsHold == NobodyOnATornStore /\ ASnapshotRemains
===============================================================================
