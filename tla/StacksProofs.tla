----------------------------- MODULE StacksProofs ------------------------------
(***************************************************************************)
(* What the two colors and the stores they share are promised, for any     *)
(* number of commands, failing steps, requests and restarts: the backups,  *)
(* the permissions of roles, the users, the sessions at Bifrost, and the   *)
(* routing of the colors through deploys, promotions and rollbacks.        *)
(***************************************************************************)
EXTENDS BlueGreen, Backups, Roles, UserRoles, BifrostSessions, TLAPS, SequenceTheorems

(***************************************************************************)
(* Backups and restores.                                                   *)
(***************************************************************************)
Contained == {"none", "good", "mess", "short", "rotten"}
Snapshot == [files : [Stores -> Contained], manifest : {"none", "short", "whole"}]

RestoreStages == {"confirm", "stop", "replace", "fill", "start"}
BackupJobs == [at : {"backup"}, step : 1..6]
RestoreJobs == [at : RestoreStages, store : Stores, from : 1..MaxBackups,
                listed : SUBSET Services, todo : SUBSET Services]

BackupTypes ==
  /\ held \in [Stores -> {"good", "torn", "mess"}]
  /\ runs \subseteq Services /\ strays \subseteq Services
  /\ snapshots \in [1..MaxBackups -> Snapshot]
  /\ taken \in 0..MaxBackups
  /\ job = NoJob \/ (job \in BackupJobs /\ taken # 0) \/ job \in RestoreJobs
  /\ {restored, meddled, broken} \subseteq Nat
  /\ succeeded \in BOOLEAN

(* The file a restore puts back was sound when it was verified; Bifrost's   *)
(* store is never torn, for it is swapped whole.                           *)
SoundSource ==
  /\ held["bifrost"] # "torn"
  /\ job \in RestoreJobs => Content \in {"good", "mess", "rotten"}

(* Who runs on the store that is being replaced: from confirmation on those *)
(* that are still to be stopped, and then nobody but strays; they come back *)
(* to a store that is whole.                                                *)
RestoreIsGuarded ==
  job \in RestoreJobs =>
    LET users == runs \cap UsedBy[job.store] IN
    /\ job.todo \subseteq UsedBy[job.store] /\ job.listed \subseteq UsedBy[job.store]
    /\ job.at \in {"confirm", "stop"} => users \subseteq strays \cup job.todo
    /\ job.at \in {"replace", "fill"} => users \subseteq strays
    /\ job.at = "start" => held[job.store] # "torn"
    /\ job.at = "fill" => job.store \notin Swapped

(* The snapshot to restore from is not the one that is being written, until *)
(* that one has its manifest.                                              *)
Whole(k) == snapshots[k].manifest = "whole"
SnapshotInHand ==
  /\ succeeded => \E k \in 1..taken : Whole(k) /\ (job \in BackupJobs /\ job.step < 6 => k # taken)
  /\ job \in BackupJobs /\ job.step = 6 => Whole(taken)

BackupsInv ==
  BackupTypes /\ SoundSource /\ NobodyOnATornStore /\ RestoreIsGuarded /\ SnapshotInHand

-------------------------------------------------------------------------------
LEMMA StoreFacts ==
  /\ Stores = {"etcd", "keycloak-db", "meta", "bifrost"}
  /\ \A s \in Stores : UsedBy[s] \subseteq Services
  /\ \A s, t \in Stores : s # t => UsedBy[s] \cap UsedBy[t] = {}
  /\ UsedBy["etcd"] = {"apisix"} /\ UsedBy["bifrost"] = {"bifrost"}
BY DEF Stores, UsedBy, Services

LEMMA StoreOfService ==
  ASSUME NEW x \in Services
  PROVE  StoreOf(x) \in Stores /\ x \in UsedBy[StoreOf(x)]
<1>1. \E s \in Stores : x \in UsedBy[s]
  BY DEF Services
<1>. QED
  BY <1>1 DEF StoreOf

LEMMA OrderFacts ==
  /\ Len(Order) = 6
  /\ Order[1] = "etcd" /\ Order[2] = "keycloak-db" /\ Order[3] = "meta"
  /\ Order[4] = "bifrost" /\ Order[5] = "manifest" /\ Order[6] = "rotate"
BY DEF Order

LEMMA JobFacts ==
  ASSUME BackupTypes
  PROVE  /\ job.at \in {"idle", "backup"} \cup RestoreStages
         /\ job.at = "idle" <=> job = NoJob
         /\ job.at = "backup" <=> job \in BackupJobs
         /\ job.at \in RestoreStages <=> job \in RestoreJobs
         /\ job = NoJob => job \notin BackupJobs /\ job \notin RestoreJobs
         /\ job \in RestoreJobs => job \notin BackupJobs
BY DEF BackupTypes, BackupJobs, RestoreJobs, NoJob, RestoreStages

LEMMA BoundsAreNatural == MaxBackups \in Nat /\ MaxRestores \in Nat /\ MaxBackupFaults \in Nat
BY BackupsAssumption

LEMMA NoJobFacts == NoJob \notin BackupJobs /\ NoJob \notin RestoreJobs /\ NoJob.at = "idle"
BY DEF BackupJobs, RestoreJobs, NoJob, RestoreStages

(* A step of a backup leaves the stores alone, and writes the newest        *)
(* snapshot, or removes older ones.                                        *)
LEMMA BackupStep ==
  ASSUME BackupsInv, job \in BackupJobs,
         UNCHANGED <<held, runs, strays, taken, restored, meddled>>, broken' \in Nat,
         snapshots' \in [1..MaxBackups -> Snapshot],
         succeeded' \in BOOLEAN,
         job' = NoJob \/ (job' \in BackupJobs /\ job'.step = job.step + 1 /\ succeeded' = succeeded),
         job.step < 6 => succeeded' = succeeded /\ \A k \in 1..MaxBackups : k # taken => snapshots'[k] = snapshots[k],
         job.step = 5 /\ job' \in BackupJobs => snapshots'[taken].manifest = "whole",
         job.step = 6 => snapshots'[taken] = snapshots[taken]
  PROVE  BackupsInv'
<1> USE DEF BackupsInv
<1>1. BackupTypes' /\ job' \notin RestoreJobs
  BY NoJobFacts, JobFacts DEF BackupTypes, BackupJobs, RestoreJobs, RestoreStages
<1>2. SoundSource' /\ RestoreIsGuarded' /\ NobodyOnATornStore'
  BY <1>1 DEF SoundSource, RestoreIsGuarded, NobodyOnATornStore
<1>3. taken \in 1..MaxBackups /\ job.step \in 1..6
  <2>1. taken # 0
    BY JobFacts, NoJobFacts DEF BackupTypes
  <2>. QED
    BY <2>1, BoundsAreNatural DEF BackupTypes, BackupJobs
<1>4. SnapshotInHand'
  <2>1. CASE job.step = 6
    <3>1. Whole(taken)' /\ job' = NoJob
      BY <1>3, <2>1 DEF SnapshotInHand, Whole, BackupJobs
    <3>. QED
      BY <1>3, <3>1, NoJobFacts DEF SnapshotInHand
  <2>2. CASE job.step < 6
    <3>1. job' \in BackupJobs /\ job'.step = 6 => Whole(taken)'
      BY <1>3, <2>2, NoJobFacts DEF Whole
    <3>2. ASSUME succeeded' PROVE \E k \in 1..taken : Whole(k)' /\ k # taken
      <4>1. PICK k \in 1..taken : Whole(k) /\ k # taken
        BY <2>2, <3>2 DEF SnapshotInHand
      <4>. QED
        BY <1>3, <2>2, <4>1, BoundsAreNatural DEF Whole
    <3>. QED
      BY <3>1, <3>2 DEF SnapshotInHand
  <2>. QED
    BY <1>3, <2>1, <2>2
<1>. QED
  BY <1>1, <1>2, <1>4

(* Everything else leaves manifests and the newest snapshot's number. *)
LEMMA ManifestsStay ==
  ASSUME SnapshotInHand, BackupTypes, BackupTypes', UNCHANGED <<taken, succeeded>>,
         \A k \in 1..MaxBackups : snapshots'[k].manifest = snapshots[k].manifest,
         job' = job \/ (job \notin BackupJobs /\ job' \notin BackupJobs)
  PROVE  SnapshotInHand'
<1>1. \A k \in 1..taken : Whole(k)' <=> Whole(k)
  BY BoundsAreNatural DEF Whole, BackupTypes
<1>2. job \in BackupJobs => taken \in 1..taken
  BY NoJobFacts, JobFacts DEF BackupTypes
<1>. QED
  BY <1>1, <1>2 DEF SnapshotInHand

LEMMA BackupsStart ==
  ASSUME BackupsInv, BackupStarts
  PROVE  BackupsInv'
<1> USE DEF BackupsInv
<1>1. /\ job = NoJob /\ taken \in 0..MaxBackups /\ taken' = taken + 1 /\ taken' \in 1..MaxBackups
      /\ job' = [at |-> "backup", step |-> 1]
      /\ UNCHANGED <<held, runs, strays, snapshots, restored, meddled, broken, succeeded>>
  BY JobFacts, BoundsAreNatural DEF BackupStarts, BackupTypes, stores
<1>2. job' \in BackupJobs /\ job' \notin RestoreJobs /\ job'.step = 1
  BY <1>1 DEF BackupJobs, RestoreJobs, RestoreStages
<1>3. BackupTypes'
  BY <1>1, <1>2, BoundsAreNatural DEF BackupTypes
<1>4. SoundSource' /\ NobodyOnATornStore' /\ RestoreIsGuarded'
  BY <1>1, <1>2 DEF SoundSource, NobodyOnATornStore, RestoreIsGuarded
<1>5. ASSUME succeeded' PROVE \E k \in 1..taken' : Whole(k)' /\ k # taken'
  <2>1. PICK k \in 1..taken : Whole(k)
    BY <1>1, <1>5 DEF SnapshotInHand
  <2>. QED
    BY <1>1, <2>1 DEF Whole
<1>6. SnapshotInHand'
  BY <1>2, <1>5 DEF SnapshotInHand
<1>. QED
  BY <1>3, <1>4, <1>6

LEMMA BackupsGoOn ==
  ASSUME BackupsInv,
         WriteManifest \/ Rotate \/ \E s \in Stores : Dump(s)
  PROVE  BackupsInv'
<1> USE DEF BackupsInv
<1>1. job \in BackupJobs /\ job.step \in 1..6 /\ taken \in 1..MaxBackups
  <2>1. job.at = "backup"
    BY DEF WriteManifest, Rotate, Dump, AtStep
  <2>2. job \in BackupJobs /\ taken # 0
    BY <2>1, JobFacts DEF BackupTypes
  <2>. QED
    BY <2>2, BoundsAreNatural DEF BackupTypes, BackupJobs
<1>2. ASSUME NextStep
      PROVE  /\ broken' = broken
             /\ job' = NoJob \/ (job' \in BackupJobs /\ job'.step = job.step + 1 /\ succeeded' = succeeded)
             /\ job.step < 6 => succeeded' = succeeded
             /\ succeeded' \in BOOLEAN
  <2>1. /\ job' = IF job.step = 6 THEN NoJob ELSE [job EXCEPT !.step = job.step + 1]
        /\ broken' = broken /\ succeeded' = (succeeded \/ job.step = 6)
    BY <1>2, OrderFacts DEF NextStep, GoesOn
  <2>2. job.step # 6 => /\ [job EXCEPT !.step = job.step + 1] \in BackupJobs
                        /\ [job EXCEPT !.step = job.step + 1].step = job.step + 1
    BY <1>1 DEF BackupJobs
  <2>3. succeeded \in BOOLEAN
    BY DEF BackupTypes
  <2>. QED
    BY <1>1, <2>1, <2>2, <2>3
<1>3. ASSUME GivesUp PROVE job' = NoJob /\ broken' \in Nat
  BY <1>3 DEF GivesUp, StepFails, BackupTypes
<1>4. snapshots[taken] \in Snapshot /\ broken \in Nat /\ succeeded \in BOOLEAN
  BY <1>1 DEF BackupTypes
<1>5. ASSUME NEW s \in Stores, Dump(s) PROVE BackupsInv'
  <2>1. job.step < 5
    BY <1>1, <1>5, OrderFacts DEF Dump, AtStep, Stores
  <2>2. \E left \in Contained : snapshots' = [snapshots EXCEPT ![taken].files[s] = left]
    BY <1>5 DEF Dump, Copy, Contained
  <2>3. snapshots' \in [1..MaxBackups -> Snapshot]
    BY <1>1, <1>4, <2>2 DEF BackupTypes, Snapshot
  <2>4. \A k \in 1..MaxBackups : k # taken => snapshots'[k] = snapshots[k]
    BY <2>2 DEF BackupTypes
  <2>5. UNCHANGED <<held, runs, strays, taken, restored, meddled>>
    BY <1>5 DEF Dump, stores, counts
  <2>6. CASE NextStep
    BY <1>1, <1>2, <1>4, <2>1, <2>3, <2>4, <2>5, <2>6, BackupStep
  <2>7. CASE GivesUp /\ succeeded' = succeeded
    BY <1>1, <1>3, <1>4, <2>1, <2>3, <2>4, <2>5, <2>7, NoJobFacts, BackupStep
  <2>. QED
    BY <1>5, <2>6, <2>7 DEF Dump
<1>6. ASSUME WriteManifest PROVE BackupsInv'
  <2>1. job.step = 5
    BY <1>1, <1>6, OrderFacts DEF WriteManifest, AtStep
  <2>2. UNCHANGED <<held, runs, strays, taken, restored, meddled>>
    BY <1>6 DEF WriteManifest, stores, counts
  <2>3. \E m \in {"none", "short", "whole"} :
          snapshots' = [snapshots EXCEPT ![taken].manifest = m]
    BY <1>6 DEF WriteManifest
  <2>4. snapshots' \in [1..MaxBackups -> Snapshot]
    BY <1>1, <1>4, <2>3 DEF BackupTypes, Snapshot
  <2>5. \A k \in 1..MaxBackups : k # taken => snapshots'[k] = snapshots[k]
    BY <2>3 DEF BackupTypes
  <2>6. CASE NextStep /\ snapshots' = [snapshots EXCEPT ![taken].manifest = "whole"]
    <3>1. snapshots'[taken].manifest = "whole"
      BY <1>1, <1>4, <2>6 DEF BackupTypes, Snapshot
    <3>. QED
      BY <1>1, <1>2, <1>4, <2>1, <2>2, <2>4, <2>5, <2>6, <3>1, BackupStep
  <2>7. CASE GivesUp /\ succeeded' = succeeded
    BY <1>1, <1>3, <1>4, <2>1, <2>2, <2>4, <2>5, <2>7, NoJobFacts, BackupStep
  <2>. QED
    BY <1>6, <2>6, <2>7 DEF WriteManifest
<1>7. ASSUME Rotate PROVE BackupsInv'
  <2>1. job.step = 6
    BY <1>1, <1>7, OrderFacts DEF Rotate, AtStep
  <2>2. UNCHANGED <<held, runs, strays, taken, restored, meddled>>
    BY <1>7 DEF Rotate, stores, counts
  <2>3. PICK old \in SUBSET (1..(taken - 1)) :
          \/ snapshots' = [k \in 1..MaxBackups |-> IF k \in old THEN Empty ELSE snapshots[k]] /\ NextStep
          \/ /\ \E k \in old, s \in Stores : \E m \in {"none", snapshots[k].manifest} :
                  snapshots' = [snapshots EXCEPT ![k].files[s] = "none", ![k].manifest = m]
             /\ GivesUp /\ UNCHANGED succeeded
    BY <1>7 DEF Rotate
  <2>4. taken \notin old /\ old \subseteq 1..MaxBackups
    BY <1>1, BoundsAreNatural
  <2>5. Empty \in Snapshot
    BY DEF Empty, NoFiles, Snapshot, Contained
  <2>6. CASE snapshots' = [k \in 1..MaxBackups |-> IF k \in old THEN Empty ELSE snapshots[k]] /\ NextStep
    <3>1. snapshots' \in [1..MaxBackups -> Snapshot] /\ snapshots'[taken] = snapshots[taken]
      BY <1>1, <2>4, <2>5, <2>6 DEF BackupTypes
    <3>. QED
      BY <1>1, <1>2, <1>4, <2>1, <2>2, <2>6, <3>1, NoJobFacts, BackupStep
  <2>7. CASE /\ \E k \in old, s \in Stores : \E m \in {"none", snapshots[k].manifest} :
                  snapshots' = [snapshots EXCEPT ![k].files[s] = "none", ![k].manifest = m]
             /\ GivesUp /\ UNCHANGED succeeded
    <3>1. PICK k \in old, s \in Stores : \E m \in {"none", snapshots[k].manifest} :
                  snapshots' = [snapshots EXCEPT ![k].files[s] = "none", ![k].manifest = m]
      BY <2>7
    <3>2. k \in 1..MaxBackups /\ snapshots[k] \in Snapshot /\ k # taken
      BY <2>4 DEF BackupTypes
    <3>3. snapshots' \in [1..MaxBackups -> Snapshot] /\ snapshots'[taken] = snapshots[taken]
      <4> DEFINE less == [snapshots EXCEPT ![k].files[s] = "none"]
      <4>1. less \in [1..MaxBackups -> Snapshot] /\ less[taken] = snapshots[taken]
        BY <1>1, <3>1, <3>2 DEF BackupTypes, Snapshot, Contained
      <4>2. \E m \in {"none", "short", "whole"} : snapshots' = [less EXCEPT ![k].manifest = m]
        BY <3>1, <3>2 DEF Snapshot
      <4>. HIDE DEF less
      <4>. QED
        BY <1>1, <3>2, <4>1, <4>2 DEF Snapshot
    <3>. QED
      BY <1>1, <1>3, <1>4, <2>1, <2>2, <2>7, <3>3, NoJobFacts, BackupStep
  <2>. QED
    BY <2>3, <2>6, <2>7
<1>. QED
  BY <1>5, <1>6, <1>7

-------------------------------------------------------------------------------
LEMMA RestoreJobFields ==
  ASSUME BackupTypes, job.at \in RestoreStages
  PROVE  /\ job \in RestoreJobs /\ job \notin BackupJobs /\ job # NoJob
         /\ job.store \in Stores /\ job.from \in 1..MaxBackups
         /\ job.listed \subseteq Services /\ job.todo \subseteq Services
BY JobFacts DEF RestoreJobs

(* The restore takes its time: no step of it touches another store, and    *)
(* whoever runs there beside it is left alone.                             *)
LEMMA RestoresStart ==
  ASSUME BackupsInv, NEW k \in 1..taken, NEW s \in Stores, RestoreStarts(k, s)
  PROVE  BackupsInv'
<1> USE DEF BackupsInv
<1>1. PICK listed \in SUBSET UsedBy[s] :
        /\ job' = [at |-> "confirm", store |-> s, from |-> k, listed |-> listed, todo |-> listed]
        /\ runs \cap UsedBy[s] \subseteq strays' \cup listed
        /\ strays \subseteq strays' /\ strays' \subseteq Services
        /\ broken' \in Nat
  <2>1. UsedBy[s] \subseteq Services /\ runs \cap UsedBy[s] \subseteq UsedBy[s] /\ broken \in Nat
    BY StoreFacts DEF BackupTypes
  <2>2. CASE UNCHANGED strays /\ GoesOn([at |-> "confirm", store |-> s, from |-> k, listed |-> UsedBy[s], todo |-> UsedBy[s]])
    BY <2>1, <2>2 DEF GoesOn, BackupTypes
  <2>3. CASE /\ UNCHANGED strays
             /\ GoesOn([at |-> "confirm", store |-> s, from |-> k, listed |-> runs \cap UsedBy[s],
                        todo |-> runs \cap UsedBy[s]])
    BY <2>1, <2>3 DEF GoesOn, BackupTypes
  <2>4. CASE /\ StepFails
             /\ \E missed \in runs \cap UsedBy[s] :
                  LET l == (runs \cap UsedBy[s]) \ {missed} IN
                  /\ strays' = strays \cup {missed}
                  /\ job' = [at |-> "confirm", store |-> s, from |-> k, listed |-> l, todo |-> l]
    <3>1. PICK missed \in runs \cap UsedBy[s] :
            /\ strays' = strays \cup {missed}
            /\ job' = [at |-> "confirm", store |-> s, from |-> k, listed |-> (runs \cap UsedBy[s]) \ {missed},
                       todo |-> (runs \cap UsedBy[s]) \ {missed}]
      BY <2>4
    <3>2. (runs \cap UsedBy[s]) \ {missed} \in SUBSET UsedBy[s]
      OBVIOUS
    <3>3. broken' \in Nat /\ strays' \subseteq Services
      BY <2>1, <2>4, <3>1 DEF StepFails, BackupTypes
    <3>4. runs \cap UsedBy[s] \subseteq strays' \cup ((runs \cap UsedBy[s]) \ {missed})
      BY <3>1
    <3>. QED
      BY <3>1, <3>2, <3>3, <3>4
  <2>. QED
    BY <2>2, <2>3, <2>4 DEF RestoreStarts
<1>2. /\ job = NoJob /\ Verified(k, s) /\ restored' = restored + 1
      /\ UNCHANGED <<held, runs, snapshots, taken, meddled, succeeded>>
  BY JobFacts DEF RestoreStarts
<1>3. job' \in RestoreJobs /\ job' \notin BackupJobs /\ k \in 1..MaxBackups
  <2>1. k \in 1..MaxBackups /\ listed \subseteq Services
    BY BoundsAreNatural, StoreFacts DEF BackupTypes
  <2>. QED
    BY <1>1, <2>1 DEF RestoreJobs, RestoreStages, BackupJobs
<1>4. BackupTypes'
  BY <1>1, <1>2, <1>3 DEF BackupTypes
<1>5. SoundSource'
  <2>1. Content' \in {"good", "mess", "rotten"}
    BY <1>1, <1>2 DEF Content, Verified
  <2>. QED
    BY <1>2, <2>1 DEF SoundSource
<1>6. NobodyOnATornStore'
  BY <1>1, <1>2 DEF NobodyOnATornStore
<1>7. RestoreIsGuarded'
  BY <1>1, <1>2 DEF RestoreIsGuarded
<1>8. SnapshotInHand'
  BY <1>2, <1>3, <1>4, JobFacts, ManifestsStay
<1>. QED
  BY <1>4, <1>5, <1>6, <1>7, <1>8

LEMMA ServicesStop ==
  ASSUME BackupsInv, StopServices
  PROVE  BackupsInv'
<1> USE DEF BackupsInv
<1>1. /\ job.at \in {"confirm", "stop"} /\ UNCHANGED <<held, snapshots, taken, restored, meddled, succeeded>>
      /\ broken' \in Nat
      /\ job \in RestoreJobs /\ job \notin BackupJobs /\ job.store \in Stores
  <2>1. job.at \in {"confirm", "stop"} /\ UNCHANGED <<held, snapshots, taken, restored, meddled, succeeded>>
    BY DEF StopServices, counts
  <2>2. broken' = broken \/ broken' = broken + 1
    BY DEF StopServices, GoesOn, GivesUp, StepFails
  <2>3. broken' \in Nat
    BY <2>2 DEF BackupTypes
  <2>. QED
    BY <2>1, <2>3, RestoreJobFields DEF RestoreStages
<1>2. CASE job' = NoJob /\ UNCHANGED <<runs, strays>>
  <2>1. BackupTypes'
    BY <1>1, <1>2 DEF BackupTypes
  <2>2. SnapshotInHand'
    BY <1>1, <1>2, <2>1, NoJobFacts, ManifestsStay
  <2>. QED
    BY <1>1, <1>2, <2>1, <2>2, NoJobFacts DEF SoundSource, NobodyOnATornStore, RestoreIsGuarded
<1>3. CASE /\ job.todo = {} /\ UNCHANGED <<runs, strays>>
           /\ job' = [job EXCEPT !.at = "replace", !.todo = job.listed]
  <2>1. /\ job' \in RestoreJobs /\ job'.at = "replace" /\ job'.todo = job.listed /\ job'.listed = job.listed
        /\ job'.store = job.store /\ job'.from = job.from
    BY <1>1, <1>3 DEF RestoreJobs, RestoreStages
  <2>2. job' \notin BackupJobs
    BY <2>1 DEF BackupJobs
  <2>3. BackupTypes'
    BY <1>1, <1>3, <2>1 DEF BackupTypes
  <2>4. SnapshotInHand'
    BY <1>1, <2>2, <2>3, ManifestsStay
  <2>5. SoundSource' /\ NobodyOnATornStore'
    BY <1>1, <1>3, <2>1 DEF SoundSource, Content, NobodyOnATornStore
  <2>6. RestoreIsGuarded'
    BY <1>1, <1>3, <2>1 DEF RestoreIsGuarded
  <2>. QED
    BY <2>3, <2>4, <2>5, <2>6
<1>4. ASSUME NEW x \in job.todo, runs' = runs \ {x}, strays' = strays \ {x},
             job' = [job EXCEPT !.at = "stop", !.todo = job.todo \ {x}]
      PROVE  BackupsInv'
  <2>1. /\ job' \in RestoreJobs /\ job'.at = "stop" /\ job'.todo = job.todo \ {x} /\ job'.listed = job.listed
        /\ job'.store = job.store /\ job'.from = job.from
    BY <1>1, <1>4 DEF RestoreJobs, RestoreStages
  <2>2. job' \notin BackupJobs
    BY <2>1 DEF BackupJobs
  <2>3. BackupTypes'
    BY <1>1, <1>4, <2>1 DEF BackupTypes
  <2>4. SnapshotInHand'
    BY <1>1, <2>2, <2>3, ManifestsStay
  <2>5. SoundSource' /\ NobodyOnATornStore'
    BY <1>1, <1>4, <2>1 DEF SoundSource, Content, NobodyOnATornStore
  <2>6. RestoreIsGuarded'
    BY <1>1, <1>4, <2>1 DEF RestoreIsGuarded
  <2>. QED
    BY <2>3, <2>4, <2>5, <2>6
<1>. QED
  BY <1>2, <1>3, <1>4 DEF StopServices, GoesOn, GivesUp

(* The store is emptied and filled again, or swapped. *)
LEMMA StoreIsReplaced ==
  ASSUME BackupsInv, BeginReplace \/ EndReplace
  PROVE  BackupsInv'
<1> USE DEF BackupsInv
<1>1. /\ job.at \in {"replace", "fill"}
      /\ UNCHANGED <<runs, strays, snapshots, taken, restored, meddled, succeeded>> /\ broken' \in Nat
      /\ job \in RestoreJobs /\ job \notin BackupJobs /\ job.store \in Stores
  <2>1. job.at \in {"replace", "fill"} /\ UNCHANGED <<runs, strays, snapshots, taken, restored, meddled, succeeded>>
    BY DEF BeginReplace, EndReplace, counts
  <2>2. broken' \in Nat
    BY DEF BeginReplace, EndReplace, GoesOn, StepFails, BackupTypes
  <2>. QED
    BY <2>1, <2>2, RestoreJobFields DEF RestoreStages
<1>2. runs \cap UsedBy[job.store] \subseteq strays
  BY <1>1 DEF RestoreIsGuarded
<1>3. PICK h \in {"good", "torn", "mess"} : held' = [held EXCEPT ![job.store] = h]
  <2>1. CASE BeginReplace
    BY <2>1 DEF BeginReplace
  <2>2. CASE EndReplace /\ UNCHANGED held
    <3>1. held = [held EXCEPT ![job.store] = held[job.store]] /\ held[job.store] \in {"good", "torn", "mess"}
      BY <1>1 DEF BackupTypes
    <3>. QED
      BY <2>2, <3>1
  <2>3. CASE EndReplace /\ Content # "rotten" /\ held' = [held EXCEPT ![job.store] = PutBack(Content)]
    BY <1>1, <2>3 DEF SoundSource, PutBack
  <2>. QED
    BY <2>1, <2>2, <2>3 DEF EndReplace
<1>4. \/ job' = NoJob
      \/ \E at \in {"fill", "start"} : job' = [job EXCEPT !.at = at]
  BY DEF BeginReplace, EndReplace, GoesOn, AfterFailedFill
<1>5. job' \notin BackupJobs /\ BackupTypes'
  <2>1. ASSUME NEW at \in {"fill", "start"}, job' = [job EXCEPT !.at = at]
        PROVE  job' \in RestoreJobs /\ job' \notin BackupJobs
    BY <1>1, <2>1 DEF RestoreJobs, RestoreStages, BackupJobs
  <2>2. job' \notin BackupJobs /\ (job' = NoJob \/ job' \in RestoreJobs)
    BY <1>4, <2>1, NoJobFacts
  <2>3. held' \in [Stores -> {"good", "torn", "mess"}]
    BY <1>1, <1>3 DEF BackupTypes
  <2>. QED
    BY <1>1, <2>2, <2>3 DEF BackupTypes
<1>6. SnapshotInHand'
  BY <1>1, <1>5, ManifestsStay
<1>7. NobodyOnATornStore'
  BY <1>1, <1>2, <1>3 DEF NobodyOnATornStore, BackupTypes
<1>8. held'["bifrost"] # "torn" /\ (job'.at = "start" => held'[job.store] # "torn")
  <2>1. held["bifrost"] # "torn" /\ Content \in {"good", "mess", "rotten"} /\ held \in [Stores -> {"good", "torn", "mess"}]
    BY <1>1 DEF SoundSource, BackupTypes
  <2>2. CASE BeginReplace
    <3>1. job.store # "bifrost" /\ held' = [held EXCEPT ![job.store] = "torn"] /\ job' = [job EXCEPT !.at = "fill"]
      BY <2>2 DEF BeginReplace, Swapped, GoesOn
    <3>2. job'.at = "fill"
      BY <1>1, <3>1 DEF RestoreJobs
    <3>. QED
      BY <2>1, <3>1, <3>2
  <2>3. CASE EndReplace /\ Content # "rotten" /\ held' = [held EXCEPT ![job.store] = PutBack(Content)]
    BY <1>1, <2>1, <2>3 DEF PutBack
  <2>4. CASE EndReplace /\ UNCHANGED held /\ job' = IF job.store \in Swapped THEN [job EXCEPT !.at = "start"] ELSE NoJob
    BY <2>1, <2>4, NoJobFacts DEF Swapped
  <2>. QED
    BY <2>2, <2>3, <2>4 DEF EndReplace, AfterFailedFill
<1>9. ASSUME NEW at \in {"fill", "start"}, job' = [job EXCEPT !.at = at]
      PROVE  /\ job'.at = at /\ job'.store = job.store /\ job'.from = job.from
             /\ job'.todo = job.todo /\ job'.listed = job.listed
             /\ at = "fill" => job.store \notin Swapped
  <2>1. /\ job'.at = at /\ job'.store = job.store /\ job'.from = job.from
        /\ job'.todo = job.todo /\ job'.listed = job.listed
    BY <1>1, <1>9 DEF RestoreJobs
  <2>2. ASSUME EndReplace PROVE job'.at = "start" \/ job' = NoJob
    BY <1>1, <2>2 DEF EndReplace, GoesOn, AfterFailedFill, RestoreJobs
  <2>3. at = "fill" => BeginReplace
    BY <2>1, <2>2, NoJobFacts
  <2>. QED
    BY <2>1, <2>3 DEF BeginReplace
<1>10. SoundSource'
  BY <1>1, <1>4, <1>8, <1>9, NoJobFacts DEF SoundSource, Content
<1>11. RestoreIsGuarded'
  BY <1>1, <1>2, <1>4, <1>8, <1>9, NoJobFacts DEF RestoreIsGuarded
<1>. QED
  BY <1>5, <1>6, <1>7, <1>10, <1>11

(* Those that were stopped come back, to a store that is whole. *)
LEMMA ServicesStart ==
  ASSUME BackupsInv, StartServices
  PROVE  BackupsInv'
<1> USE DEF BackupsInv
<1>1. /\ job.at = "start" /\ UNCHANGED <<held, snapshots, strays, taken, restored, meddled, succeeded>>
      /\ job \in RestoreJobs /\ job \notin BackupJobs /\ job.store \in Stores
      /\ job.todo \subseteq UsedBy[job.store] /\ held[job.store] # "torn"
  <2>1. job.at = "start" /\ UNCHANGED <<held, snapshots, strays, taken, restored, meddled, succeeded>>
    BY DEF StartServices, counts
  <2>2. job \in RestoreJobs /\ job \notin BackupJobs /\ job.store \in Stores
    BY <2>1, RestoreJobFields DEF RestoreStages
  <2>. QED
    BY <2>1, <2>2 DEF RestoreIsGuarded
<1>2. broken' \in Nat
  <2>1. broken' = broken \/ broken' = broken + 1
    BY DEF StartServices, GoesOn, GivesUp, StepFails
  <2>. QED
    BY <2>1 DEF BackupTypes
<1>3. CASE job' = NoJob /\ UNCHANGED runs
  <2>1. BackupTypes'
    BY <1>1, <1>2, <1>3 DEF BackupTypes
  <2>2. SnapshotInHand'
    BY <1>1, <1>3, <2>1, NoJobFacts, ManifestsStay
  <2>. QED
    BY <1>1, <1>3, <2>1, <2>2, NoJobFacts DEF SoundSource, NobodyOnATornStore, RestoreIsGuarded
<1>4. ASSUME NEW x \in job.todo, runs' = runs \cup {x}, job' = [job EXCEPT !.todo = job.todo \ {x}]
      PROVE  BackupsInv'
  <2>1. /\ job' \in RestoreJobs /\ job'.at = "start" /\ job'.todo = job.todo \ {x} /\ job'.listed = job.listed
        /\ job'.store = job.store /\ job'.from = job.from
    BY <1>1, <1>4 DEF RestoreJobs
  <2>2. job' \notin BackupJobs /\ x \in UsedBy[job.store] /\ x \in Services
    BY <1>1, <2>1, StoreFacts DEF BackupJobs
  <2>3. BackupTypes'
    BY <1>1, <1>2, <1>4, <2>1, <2>2 DEF BackupTypes
  <2>4. SnapshotInHand'
    BY <1>1, <2>2, <2>3, ManifestsStay
  <2>5. SoundSource'
    BY <1>1, <2>1 DEF SoundSource, Content
  <2>6. NobodyOnATornStore'
    <3>1. ASSUME NEW s \in Stores, held[s] = "torn" PROVE x \notin UsedBy[s]
      BY <1>1, <2>2, <3>1, StoreFacts
    <3>. QED
      BY <1>1, <1>4, <3>1 DEF NobodyOnATornStore
  <2>7. RestoreIsGuarded'
    BY <1>1, <2>1 DEF RestoreIsGuarded
  <2>. QED
    BY <2>3, <2>4, <2>5, <2>6, <2>7
<1>. QED
  BY <1>3, <1>4 DEF StartServices, GoesOn, GivesUp

(* Whoever is started by somebody else on a store that is torn, or during *)
(* its restore, is a stray.                                               *)
LEMMA OthersMeddle ==
  ASSUME BackupsInv, NEW x \in Services, StartsElsewhere(x) \/ StopsElsewhere(x)
  PROVE  BackupsInv'
<1> USE DEF BackupsInv
<1>1. UNCHANGED <<held, snapshots, job, taken, restored, broken, succeeded>> /\ meddled' = meddled + 1
  BY DEF StartsElsewhere, StopsElsewhere
<1>2. BackupTypes'
  <2>1. runs' \subseteq Services /\ strays' \subseteq Services
    BY DEF StartsElsewhere, StopsElsewhere, BackupTypes
  <2>2. {restored, meddled, broken}' \subseteq Nat
    BY <1>1 DEF BackupTypes
  <2>. QED
    BY <1>1, <2>1, <2>2 DEF BackupTypes
<1>3. SnapshotInHand'
  BY <1>1, <1>2, ManifestsStay
<1>4. SoundSource'
  BY <1>1 DEF SoundSource, Content
<1>5. CASE StopsElsewhere(x)
  <2>1. runs' = runs \ {x} /\ strays' = strays \ {x}
    BY <1>5 DEF StopsElsewhere
  <2>2. NobodyOnATornStore' /\ RestoreIsGuarded'
    BY <1>1, <2>1 DEF NobodyOnATornStore, RestoreIsGuarded
  <2>. QED
    BY <1>2, <1>3, <1>4, <2>2
<1>6. CASE StartsElsewhere(x)
  <2>1. /\ runs' = runs \cup {x} /\ strays \subseteq strays'
        /\ Restoring(StoreOf(x)) \/ held[StoreOf(x)] = "torn" => x \in strays'
    BY <1>6 DEF StartsElsewhere
  <2>2. ASSUME NEW s \in Stores, x \in UsedBy[s] PROVE s = StoreOf(x)
    BY <2>2, StoreOfService, StoreFacts
  <2>3. NobodyOnATornStore'
    BY <1>1, <2>1, <2>2 DEF NobodyOnATornStore
  <2>4. RestoreIsGuarded'
    <3>1. ASSUME job \in RestoreJobs, x \in UsedBy[job.store] PROVE x \in strays'
      <4>1. Restoring(job.store) /\ job.store \in Stores
        BY <3>1 DEF Restoring, RestoreJobs, RestoreStages
      <4>. QED
        BY <2>1, <2>2, <3>1, <4>1
    <3>. QED
      BY <1>1, <2>1, <3>1 DEF RestoreIsGuarded
  <2>. QED
    BY <1>2, <1>3, <1>4, <2>3, <2>4
<1>. QED
  BY <1>5, <1>6

LEMMA FilesRot ==
  ASSUME BackupsInv, NEW k \in 1..taken, NEW s \in Stores, Rots(k, s)
  PROVE  BackupsInv'
<1> USE DEF BackupsInv
<1>1. /\ UNCHANGED <<held, runs, strays, job, taken, restored, meddled, succeeded>> /\ broken' = broken + 1
      /\ snapshots' = [snapshots EXCEPT ![k].files[s] = "rotten"]
  BY DEF Rots, StepFails, stores, counts
<1>2. k \in 1..MaxBackups /\ snapshots \in [1..MaxBackups -> Snapshot]
  BY BoundsAreNatural DEF BackupTypes
<1>3. /\ snapshots' \in [1..MaxBackups -> Snapshot]
      /\ \A j \in 1..MaxBackups :
           /\ snapshots'[j].manifest = snapshots[j].manifest
           /\ \A t \in Stores : snapshots'[j].files[t] \in {snapshots[j].files[t], "rotten"}
  BY <1>1, <1>2 DEF Snapshot, Contained
<1>4. BackupTypes'
  BY <1>1, <1>3 DEF BackupTypes
<1>5. SnapshotInHand'
  BY <1>1, <1>3, <1>4, ManifestsStay
<1>6. SoundSource'
  <2>1. ASSUME job \in RestoreJobs PROVE job.from \in 1..MaxBackups /\ job.store \in Stores
    BY <2>1 DEF RestoreJobs
  <2>. QED
    BY <1>1, <1>3, <2>1 DEF SoundSource, Content
<1>7. NobodyOnATornStore' /\ RestoreIsGuarded'
  BY <1>1 DEF NobodyOnATornStore, RestoreIsGuarded
<1>. QED
  BY <1>4, <1>5, <1>6, <1>7

LEMMA BackupsInvInit ==
  ASSUME BackupsInit
  PROVE  BackupsInv
<1>1. /\ job = NoJob /\ taken = 0 /\ succeeded = FALSE /\ strays = {}
      /\ held = [s \in Stores |-> "good"] /\ runs \subseteq Services
      /\ restored = 0 /\ meddled = 0 /\ broken = 0
      /\ snapshots = [k \in 1..MaxBackups |-> Empty]
  BY StoreFacts DEF BackupsInit, Stores
<1>2. Empty \in Snapshot
  BY DEF Empty, NoFiles, Snapshot, Contained
<1>3. BackupTypes
  <2>1. held \in [Stores -> {"good", "torn", "mess"}] /\ snapshots \in [1..MaxBackups -> Snapshot]
    BY <1>1, <1>2
  <2>2. restored \in Nat /\ meddled \in Nat /\ broken \in Nat /\ taken \in 0..MaxBackups
    BY <1>1, BoundsAreNatural
  <2>3. succeeded \in BOOLEAN
    BY <1>1
  <2>. QED
    BY <1>1, <2>1, <2>2, <2>3 DEF BackupTypes
<1>. QED
  BY <1>1, <1>3, NoJobFacts, StoreFacts
  DEF BackupsInv, SoundSource, NobodyOnATornStore, RestoreIsGuarded, SnapshotInHand

LEMMA BackupsInvNext ==
  ASSUME BackupsInv, [BackupsNext]_backupVars
  PROVE  BackupsInv'
<1>1. CASE UNCHANGED backupVars
  BY <1>1 DEF backupVars, BackupsInv, BackupTypes, SoundSource, Content, NobodyOnATornStore,
              RestoreIsGuarded, SnapshotInHand, Whole
<1>. QED
  BY <1>1, BackupsStart, BackupsGoOn, RestoresStart, ServicesStop, StoreIsReplaced, ServicesStart,
     OthersMeddle, FilesRot DEF BackupsNext

(* No service runs on a store that was left half replaced, unless somebody *)
(* else started it, and once a backup has succeeded there is one to        *)
(* restore from (backup/backup.sh, backup/restore.sh).                     *)
THEOREM BackupsAlwaysHold == BackupsSpec => []BackupsHold
<1>1. BackupsInv => BackupsHold
  BY DEF BackupsInv, BackupsHold, SnapshotInHand, ASnapshotRemains, Whole
<1>. QED
  BY <1>1, BackupsInvInit, BackupsInvNext, PTL DEF BackupsSpec

-------------------------------------------------------------------------------
(***************************************************************************)
(* What a role may do: the caches that decide, and the seeding of the      *)
(* system roles.                                                           *)
(***************************************************************************)
Permissions == UNION (Contents \cup UNION {{Seeds[v][r] : r \in DOMAIN Seeds[v]} : v \in Versions})
Rows == [id : Nat, here : BOOLEAN, system : BOOLEAN, may : SUBSET Permissions]

Marks == Deciders \cup {"answered", "other"}
Views == [of : [RoleNames -> SUBSET Permissions], missed : SUBSET Marks]

Boots == [at : {"off", "seed", "on", "prune", "delete", "stamp"}, todo : SUBSET SystemRoles,
          gone : SUBSET Permissions, mixed : SUBSET RoleNames]
Inserts == [at : {"insert"}, role : SystemRoles, todo : SUBSET SystemRoles,
            gone : SUBSET Permissions, mixed : SUBSET RoleNames]

Edits == {"create", "update", "delete"}
Deciding == [at : {"decide"}, stack : Stacks, actor : Actors, op : Edits \cup {"read"},
             role : RoleNames, body : SUBSET Permissions]
Looking == [at : {"lookup"}, stack : Stacks, actor : Actors, op : Edits,
            role : RoleNames, body : SUBSET Permissions]
Editing == [at : {"delete", "commit"}, stack : Stacks, actor : Actors, op : Edits,
            role : RoleNames, body : SUBSET Permissions, id : Nat, gone : SUBSET Permissions]
Answering == [at : {"invalidate"}, stack : Stacks]

TableTypes == table \in [RoleNames -> Rows]
CacheTypes ==
  /\ cache \in [Stacks -> [fresh : BOOLEAN, view : Views]]
  /\ locked \in [Stacks -> [by : Deciders \cup {Nobody}, view : Views]]
AskTypes == asked \in [Deciders -> {NoAsk} \cup Deciding \cup Looking \cup Editing \cup Answering]
StartTypes ==
  /\ start \in [Stacks -> Boots \cup Inserts]
  /\ images \in Releases /\ stored \in Nat /\ best \in Nat
  /\ intact \subseteq RoleNames /\ orderly \in BOOLEAN
RoleTypes == TableTypes /\ CacheTypes /\ AskTypes /\ StartTypes

(* A view that missed nothing is what the tables hold; nobody is answered   *)
(* while somebody refreshes.                                               *)
ViewIsTrue(view) == "answered" \notin view.missed /\ (view.missed = {} => view.of = Permitted)
Coherent ==
  \A s \in Stacks :
    /\ cache[s].fresh => ViewIsTrue(cache[s].view)
    /\ IF locked[s].by = Nobody THEN locked[s].view.missed = {} ELSE ViewIsTrue(locked[s].view)

(* A boot that seeds alone: the version it writes is none older than the   *)
(* one that is stored, and what it has written is there, but for the roles *)
(* that administrators edited beside it.                                   *)
Mine(s) == Seeds[images[s].seed]
Writing == {"delete", "insert", "stamp"}
Left(s) == start[s].todo \cup (IF start[s].at = "insert" THEN {start[s].role} ELSE {})
BootsKnowTheirRoles ==
  \A s \in Stacks : start[s].at \in Writing =>
    /\ Left(s) \subseteq DOMAIN Mine(s)
    /\ start[s].at = "stamp" => start[s].todo = {}
BootsInOrder ==
  orderly =>
    /\ \A s, o \in Seeding : s = o
    /\ best = stored /\ \A s \in Seeding : stored <= images[s].seed
    /\ \A s \in Stacks : start[s].at \in Writing =>
         /\ intact = {}
         /\ \A r \in DOMAIN Mine(s) \ (Left(s) \cup start[s].mixed) : table[r].may = Mine(s)[r]
         /\ start[s].at = "insert" /\ start[s].role \notin start[s].mixed =>
              table[start[s].role].may = start[s].gone

RolesInv == RoleTypes /\ Coherent /\ BootsKnowTheirRoles /\ BootsInOrder /\ SeedsNeverGoBack

-------------------------------------------------------------------------------
LEMMA SeedFacts ==
  ASSUME NEW v \in Versions, NEW r \in DOMAIN Seeds[v]
  PROVE  Seeds[v][r] \in SUBSET Permissions /\ r \in SystemRoles /\ r \in RoleNames
BY DEF Permissions, SystemRoles, RoleNames

LEMMA BodyFacts ==
  ASSUME NEW body \in Contents
  PROVE  body \in SUBSET Permissions
BY DEF Permissions

LEMMA ImageFacts ==
  ASSUME StartTypes, NEW s \in Stacks
  PROVE  images[s].seed \in Versions /\ images[s].seed \in Nat /\ images[s].seed > 0
<1>1. images[s].seed \in Versions
  BY RolesAssumption DEF StartTypes
<1>2. Versions \subseteq Nat \ {0}
  BY RolesAssumption
<1>3. \A v \in Versions : v \in Nat /\ v # 0
  BY <1>2
<1>4. images[s].seed \in Nat /\ images[s].seed # 0
  BY <1>1, <1>3
<1>. QED
  BY <1>1, <1>4

LEMMA DeciderFacts ==
  ASSUME NEW d \in Deciders
  PROVE  d # Nobody /\ d # "answered" /\ d # "other" /\ d \in Marks
BY RolesAssumption DEF Nobody, Marks

LEMMA BootFacts ==
  ASSUME StartTypes, NEW s \in Stacks
  PROVE  /\ start[s].at # "insert" => start[s] \in Boots
         /\ start[s].at = "insert" => start[s] \in Inserts
BY DEF StartTypes, Boots, Inserts

LEMMA AskFacts ==
  ASSUME AskTypes, NEW d \in Deciders
  PROVE  /\ asked[d].at = "decide" => asked[d] \in Deciding
         /\ asked[d].at = "lookup" => asked[d] \in Looking
         /\ asked[d].at \in {"delete", "commit"} => asked[d] \in Editing
         /\ asked[d].at = "invalidate" => asked[d] \in Answering
BY DEF AskTypes, Deciding, Looking, Editing, Answering, NoAsk

(* A request becomes another one. *)
LEMMA AskBecomes ==
  ASSUME AskTypes, NEW d \in Deciders, NEW a \in {NoAsk} \cup Deciding \cup Looking \cup Editing \cup Answering,
         asked' = [asked EXCEPT ![d] = a]
  PROVE  AskTypes'
BY DEF AskTypes

LEMMA JudgedIsTyped ==
  ASSUME AskTypes, NEW d \in Deciders, NEW may, asked[d] \in Deciding, asked' = Judged(d, may)
  PROVE  AskTypes'
<1> DEFINE a == [asked[d] EXCEPT !.at = "lookup"]
<1>1. asked[d].op # "read" => a \in Looking
  BY DEF Deciding, Looking
<1>2. asked' = [asked EXCEPT ![d] = NoAsk] \/ (asked[d].op # "read" /\ asked' = [asked EXCEPT ![d] = a])
  BY DEF Judged
<1>. HIDE DEF a
<1>. QED
  BY <1>1, <1>2, AskBecomes

LEMMA NothingFacts ==
  /\ Nothing \in Views /\ Nothing.missed = {}
  /\ Stale.fresh = FALSE /\ Stale.view = Nothing /\ Unlocked.by = Nobody /\ Unlocked.view = Nothing
  /\ Stale \in [fresh : BOOLEAN, view : Views]
  /\ Unlocked \in [by : Deciders \cup {Nobody}, view : Views]
BY DEF Nothing, Views, Stale, Unlocked

(* A commit is noted in every view that is held, which is then excused. *)
LEMMA CommitIsNoted ==
  ASSUME CacheTypes, Coherent, NEW s, NEW what \in Marks \ {"answered"}, Missed(s, what)
  PROVE  CacheTypes' /\ Coherent'
<1> DEFINE mark(o) == IF o = s THEN what ELSE "other"
<1>1. ASSUME NEW o \in Stacks
      PROVE  /\ cache'[o] = IF cache[o].fresh
                              THEN [cache[o] EXCEPT !.view = Miss(cache[o].view, mark(o))] ELSE cache[o]
             /\ locked'[o] = IF locked[o].by # Nobody
                               THEN [locked[o] EXCEPT !.view = Miss(locked[o].view, mark(o))] ELSE locked[o]
  BY DEF Missed
<1>2. ASSUME NEW v \in Views, NEW m \in Marks \ {"answered"}
      PROVE  /\ Miss(v, m) \in Views /\ Miss(v, m).missed = v.missed \cup {m}
  BY DEF Miss, Views
<1>3. \A o \in Stacks : mark(o) \in Marks \ {"answered"}
  BY DEF Marks
<1>. HIDE DEF mark
<1>4. ASSUME NEW o \in Stacks
      PROVE  /\ cache'[o] \in [fresh : BOOLEAN, view : Views]
             /\ locked'[o] \in [by : Deciders \cup {Nobody}, view : Views]
             /\ cache'[o].fresh => "answered" \notin cache'[o].view.missed /\ cache'[o].view.missed # {}
             /\ locked'[o].by = locked[o].by
             /\ locked'[o].by = Nobody => locked'[o].view.missed = {}
             /\ locked'[o].by # Nobody => "answered" \notin locked'[o].view.missed /\ locked'[o].view.missed # {}
  <2>1. cache[o] \in [fresh : BOOLEAN, view : Views] /\ locked[o] \in [by : Deciders \cup {Nobody}, view : Views]
    BY DEF CacheTypes
  <2>2. /\ Miss(cache[o].view, mark(o)) \in Views /\ Miss(locked[o].view, mark(o)) \in Views
        /\ Miss(cache[o].view, mark(o)).missed = cache[o].view.missed \cup {mark(o)}
        /\ Miss(locked[o].view, mark(o)).missed = locked[o].view.missed \cup {mark(o)}
    BY <1>2, <1>3, <2>1
  <2>3. ASSUME cache[o].fresh
        PROVE  /\ cache'[o] \in [fresh : BOOLEAN, view : Views]
               /\ "answered" \notin cache'[o].view.missed /\ cache'[o].view.missed # {}
    <3>1. /\ cache'[o] \in [fresh : BOOLEAN, view : Views]
          /\ cache'[o].view.missed = cache[o].view.missed \cup {mark(o)}
      BY <1>1, <2>1, <2>2, <2>3
    <3>2. "answered" \notin cache[o].view.missed
      BY <2>3 DEF Coherent, ViewIsTrue
    <3>. QED
      BY <3>1, <3>2, <1>3
  <2>4. /\ locked'[o] \in [by : Deciders \cup {Nobody}, view : Views]
        /\ locked'[o].by = locked[o].by
        /\ locked'[o].by = Nobody => locked'[o].view.missed = {}
        /\ locked'[o].by # Nobody => "answered" \notin locked'[o].view.missed /\ locked'[o].view.missed # {}
    <3>1. CASE locked[o].by = Nobody
      BY <1>1, <2>1, <3>1 DEF Coherent
    <3>2. CASE locked[o].by # Nobody
      <4>1. "answered" \notin locked[o].view.missed
        BY <3>2 DEF Coherent, ViewIsTrue
      <4>2. /\ locked'[o] \in [by : Deciders \cup {Nobody}, view : Views] /\ locked'[o].by = locked[o].by
            /\ locked'[o].view.missed = locked[o].view.missed \cup {mark(o)}
        BY <1>1, <2>1, <2>2, <3>2
      <4>. QED
        BY <1>3, <3>2, <4>1, <4>2
    <3>. QED
      BY <3>1, <3>2
  <2>5. CASE ~cache[o].fresh
    BY <1>1, <2>1, <2>4, <2>5
  <2>. QED
    BY <2>3, <2>4, <2>5
<1>5. CacheTypes'
  <2>1. cache' = [o \in Stacks |-> cache'[o]] /\ locked' = [o \in Stacks |-> locked'[o]]
    BY DEF Missed
  <2>. QED
    BY <1>4, <2>1 DEF CacheTypes
<1>6. Coherent'
  BY <1>4 DEF Coherent, ViewIsTrue
<1>. QED
  BY <1>5, <1>6

(* A request that commits nothing. *)
LEMMA TablesStay ==
  ASSUME RolesInv, UNCHANGED <<images, table, stored, best, intact, orderly, start>>,
         CacheTypes', AskTypes', Coherent'
  PROVE  RolesInv'
<1>1. TableTypes' /\ StartTypes'
  BY DEF RolesInv, RoleTypes, TableTypes, StartTypes
<1>2. BootsKnowTheirRoles' /\ BootsInOrder' /\ SeedsNeverGoBack'
  BY DEF RolesInv, BootsKnowTheirRoles, BootsInOrder, SeedsNeverGoBack, Mine, Left, Seeding
<1>. QED
  BY <1>1, <1>2 DEF RolesInv, RoleTypes

LEMMA SameViews ==
  ASSUME CacheTypes, Coherent, UNCHANGED <<table, cache, locked>>
  PROVE  CacheTypes' /\ Coherent'
BY DEF CacheTypes, Coherent, ViewIsTrue, Permitted

(* What a request does but for its commit. *)
LEMMA RequestsGoOn ==
  ASSUME RolesInv, NEW d \in Deciders,
         \/ \E s \in Stacks, actor \in Actors :
              \/ Ask(d, s, actor, "read", actor, {}) \/ \E r \in RoleNames : Ask(d, s, actor, "delete", r, {})
              \/ \E r \in RoleNames, op \in {"create", "update"}, body \in Contents : Ask(d, s, actor, op, r, body)
         \/ Decide(d) \/ Lookup(d) \/ DeleteOld(d)
  PROVE  RolesInv'
<1> USE DEF RolesInv, RoleTypes
<1>1. UNCHANGED <<images, table, stored, best, intact, orderly, start, cache, locked>>
  BY DEF Ask, Decide, Lookup, DeleteOld, tables, processes
<1>2. CacheTypes' /\ Coherent'
  BY <1>1, SameViews
<1>3. AskTypes'
  <2>1. ASSUME NEW s \in Stacks, NEW actor \in Actors, NEW op \in Edits \cup {"read"}, NEW r \in RoleNames,
               NEW body \in SUBSET Permissions, Ask(d, s, actor, op, r, body)
        PROVE  AskTypes'
    <3>1. [at |-> "decide", stack |-> s, actor |-> actor, op |-> op, role |-> r, body |-> body] \in Deciding
      BY DEF Deciding
    <3>. QED
      BY <2>1, <3>1, AskBecomes DEF Ask
  <2>2. ASSUME Decide(d) PROVE AskTypes'
    <3>1. asked[d] \in Deciding
      BY <2>2, AskFacts DEF Decide
    <3>2. asked' = Judged(d, cache[asked[d].stack].view.of[asked[d].actor])
      BY <2>2 DEF Decide
    <3>. QED
      BY <3>1, <3>2, JudgedIsTyped
  <2>3. ASSUME Lookup(d) PROVE AskTypes'
    <3>1. asked[d] \in Looking
      BY <2>3, AskFacts DEF Lookup
    <3>2. table[asked[d].role].id \in Nat
      BY <3>1 DEF TableTypes, Rows, Looking
    <3>3. ASSUME NEW at \in {"delete", "commit"}
          PROVE  [at |-> at, stack |-> asked[d].stack, actor |-> asked[d].actor, op |-> asked[d].op,
                  role |-> asked[d].role, body |-> asked[d].body, id |-> table[asked[d].role].id,
                  gone |-> {}] \in Editing
      BY <3>1, <3>2 DEF Editing, Looking
    <3>4. \/ asked' = [asked EXCEPT ![d] = NoAsk]
          \/ \E at \in {"delete", "commit"} :
               asked' = [asked EXCEPT ![d] =
                 [at |-> at, stack |-> asked[d].stack, actor |-> asked[d].actor, op |-> asked[d].op,
                  role |-> asked[d].role, body |-> asked[d].body, id |-> table[asked[d].role].id, gone |-> {}]]
      BY <2>3 DEF Lookup, Refuse
    <3>. QED
      BY <3>3, <3>4, AskBecomes
  <2>4. ASSUME DeleteOld(d) PROVE AskTypes'
    <3>1. asked[d] \in Editing
      BY <2>4, AskFacts DEF DeleteOld
    <3>2. PICK gone \in {table[asked[d].role].may, {}} :
            asked' = [asked EXCEPT ![d].at = "commit", ![d].gone = gone]
      BY <2>4 DEF DeleteOld
    <3>3. gone \in SUBSET Permissions
      BY <3>1, <3>2 DEF TableTypes, Rows, Editing
    <3>4. DEFINE half == [asked EXCEPT ![d].at = "commit"]
    <3>5. half \in [Deciders -> {NoAsk} \cup Deciding \cup Looking \cup Editing \cup Answering] /\ half[d] \in Editing
      BY <3>1 DEF AskTypes, Editing
    <3>6. asked' = [half EXCEPT ![d].gone = gone]
      BY <3>2
    <3>. HIDE DEF half
    <3>. QED
      BY <3>3, <3>5, <3>6 DEF AskTypes, Editing
  <2>5. ASSUME NEW actor \in Actors PROVE actor \in RoleNames
    BY RolesAssumption DEF RoleNames
  <2>. QED
    BY <2>1, <2>2, <2>3, <2>4, <2>5, BodyFacts DEF Edits
<1>. QED
  BY <1>1, <1>2, <1>3, TablesStay

(* A refresh, or the end of a cache: only who refreshes holds a view beside *)
(* the caches, and nobody answers while it does.                           *)
LEMMA CachesGoOn ==
  ASSUME RolesInv, NEW d \in Deciders,
         \/ Refresh(d) \/ (\E ok \in BOOLEAN : Refreshed(d, ok)) \/ Invalidate(d)
  PROVE  RolesInv'
<1> USE DEF RolesInv, RoleTypes
<1>1. UNCHANGED <<images, table, stored, best, intact, orderly, start>>
  BY DEF Refresh, Refreshed, Invalidate, tables
<1>2. ASSUME NEW o \in Stacks
      PROVE  /\ cache[o] \in [fresh : BOOLEAN, view : Views]
             /\ locked[o] \in [by : Deciders \cup {Nobody}, view : Views]
             /\ cache[o].fresh => ViewIsTrue(cache[o].view)
             /\ locked[o].by = Nobody => locked[o].view.missed = {}
             /\ locked[o].by # Nobody => ViewIsTrue(locked[o].view)
  BY DEF CacheTypes, Coherent
<1>3. \A view : ViewIsTrue(view)' <=> ViewIsTrue(view)
  BY <1>1 DEF ViewIsTrue, Permitted
<1>4. CASE Refresh(d)
  <2> DEFINE new == [of |-> Permitted, missed |-> {}]
  <2>1. new \in Views /\ ViewIsTrue(new)
    <3>1. Permitted \in [RoleNames -> SUBSET Permissions]
      BY DEF Permitted, TableTypes, Rows
    <3>. QED
      BY <3>1 DEF Views, ViewIsTrue
  <2>2. /\ locked' = [locked EXCEPT ![asked[d].stack] = [by |-> d, view |-> new]]
        /\ UNCHANGED <<cache, asked>>
    BY <1>4 DEF Refresh
  <2>. HIDE DEF new
  <2>3. CacheTypes' /\ AskTypes'
    BY <2>1, <2>2 DEF CacheTypes, AskTypes
  <2>4. Coherent'
    BY <1>2, <1>3, <2>1, <2>2, DeciderFacts DEF Coherent, CacheTypes
  <2>. QED
    BY <1>1, <2>3, <2>4, TablesStay
<1>5. ASSUME NEW ok \in BOOLEAN, Refreshed(d, ok) PROVE RolesInv'
  <2> DEFINE o == asked[d].stack
  <2>1. asked[d] \in Deciding /\ o \in Stacks
    BY <1>5, AskFacts DEF Refreshed, Deciding
  <2>2. /\ locked[o].by = d /\ locked' = [locked EXCEPT ![o] = Unlocked]
        /\ cache' = cache \/ cache' = [cache EXCEPT ![o] = [fresh |-> TRUE, view |-> locked[o].view]]
        /\ asked' = Judged(d, locked[o].view.of[asked[d].actor]) \/ asked' = [asked EXCEPT ![d] = NoAsk]
    BY <1>5 DEF Refreshed
  <2>4. AskTypes'
    BY <2>1, <2>2, AskBecomes, JudgedIsTyped
  <2>. HIDE DEF o
  <2>5. locked[o].view \in Views /\ ViewIsTrue(locked[o].view)
    BY <1>2, <2>1, <2>2, DeciderFacts
  <2>6. CacheTypes'
    <3>1. locked' \in [Stacks -> [by : Deciders \cup {Nobody}, view : Views]]
      BY <2>2, NothingFacts DEF CacheTypes
    <3>2. [fresh |-> TRUE, view |-> locked[o].view] \in [fresh : BOOLEAN, view : Views]
      BY <2>5
    <3>3. cache' \in [Stacks -> [fresh : BOOLEAN, view : Views]]
      BY <2>2, <3>2 DEF CacheTypes
    <3>. QED
      BY <3>1, <3>3 DEF CacheTypes
  <2>7. Coherent'
    BY <1>2, <1>3, <2>2, <2>5, NothingFacts DEF Coherent, CacheTypes
  <2>. QED
    BY <1>1, <2>4, <2>6, <2>7, TablesStay
<1>6. CASE Invalidate(d)
  <2> DEFINE o == asked[d].stack
  <2>1. o \in Stacks
    BY <1>6, AskFacts DEF Invalidate, Answering
  <2>2. /\ locked[o].by = Nobody /\ cache' = [cache EXCEPT ![o] = Stale]
        /\ asked' = [asked EXCEPT ![d] = NoAsk]
        /\ locked' = [locked EXCEPT ![o].view.missed =
                         IF d \in locked[o].view.missed THEN (locked[o].view.missed \ {d}) \cup {"answered"}
                                                        ELSE locked[o].view.missed]
    BY <1>6 DEF Invalidate, MayInvalidate, Refuse
  <2>. HIDE DEF o
  <2>3. locked' = locked
    <3>1. locked[o].view.missed = {} /\ locked[o] \in [by : Deciders \cup {Nobody}, view : Views]
      BY <1>2, <2>1, <2>2
    <3>2. locked' = [locked EXCEPT ![o].view.missed = locked[o].view.missed]
      BY <2>2, <3>1
    <3>3. [locked[o] EXCEPT !.view.missed = locked[o].view.missed] = locked[o]
      BY <3>1 DEF Views
    <3>. QED
      BY <2>1, <3>2, <3>3 DEF CacheTypes
  <2>4. CacheTypes'
    BY <2>2, <2>3, NothingFacts DEF CacheTypes
  <2>5. AskTypes'
    BY <2>2, AskBecomes
  <2>6. Coherent'
    BY <1>2, <1>3, <2>2, <2>3, NothingFacts DEF Coherent, CacheTypes
  <2>. QED
    BY <1>1, <2>4, <2>5, <2>6, TablesStay
<1>. QED
  BY <1>4, <1>5, <1>6

LEMMA CacheEnds ==
  ASSUME RolesInv, NEW s \in Stacks, CacheExpires(s)
  PROVE  RolesInv'
<1> USE DEF RolesInv, RoleTypes
<1>1. /\ cache' = [cache EXCEPT ![s] = Stale]
      /\ UNCHANGED <<images, table, stored, best, intact, orderly, start, locked, asked>>
  BY DEF CacheExpires, tables
<1>2. CacheTypes' /\ AskTypes'
  BY <1>1, NothingFacts DEF CacheTypes, AskTypes
<1>3. Coherent'
  BY <1>1, NothingFacts DEF Coherent, CacheTypes, ViewIsTrue, Permitted
<1>. QED
  BY <1>1, <1>2, <1>3, TablesStay

(* What a boot reaches when it writes nothing. *)
LEMMA BootBecomes ==
  ASSUME RolesInv, NEW s \in Stacks, NEW b \in Boots \cup Inserts,
         start' = [start EXCEPT ![s] = b], UNCHANGED images
  PROVE  /\ start' \in [Stacks -> Boots \cup Inserts] /\ images' \in Releases
         /\ start'[s] = b /\ \A o \in Stacks : o # s => start'[o] = start[o]
BY DEF RolesInv, RoleTypes, StartTypes

LEMMA BootsGoOn ==
  ASSUME RolesInv, NEW s \in Stacks, StartUp(s) \/ ReadSeedVersion(s) \/ Stamp(s)
  PROVE  RolesInv'
<1> USE DEF RolesInv, RoleTypes
<1>1. /\ UNCHANGED <<images, table, cache, locked, asked>>
      /\ start[s].at \in {"off", "seed", "stamp"}
  BY DEF StartUp, ReadSeedVersion, Stamp
<1>2. TableTypes' /\ CacheTypes' /\ AskTypes' /\ Coherent'
  BY <1>1, SameViews DEF TableTypes, AskTypes
<1>3. start[s] \in Boots /\ Off \in Boots
  BY <1>1, BootFacts DEF Off, Boots
<1>4. CASE StartUp(s)
  <2>1. PICK at \in {"on", "seed"} : start' = [start EXCEPT ![s].at = at]
    BY <1>4 DEF StartUp
  <2>2. UNCHANGED <<stored, best, intact, orderly>> /\ start[s].at = "off"
    BY <1>4 DEF StartUp
  <2> DEFINE b == [start[s] EXCEPT !.at = at]
  <2>3. b \in Boots /\ b.at = at
    BY <1>3 DEF Boots
  <2>4. start' = [start EXCEPT ![s] = b]
    BY <2>1
  <2>. HIDE DEF b
  <2>5. /\ StartTypes'
        /\ \A o \in Stacks : start'[o].at \in Writing \/ o \in Seeding' =>
              start'[o] = start[o] /\ (o \in Seeding' => o \in Seeding)
    BY <1>1, <2>2, <2>3, <2>4, BootBecomes DEF StartTypes, Writing, Seeding
  <2>6. BootsKnowTheirRoles'
    BY <1>1, <2>5 DEF BootsKnowTheirRoles, Left, Mine
  <2>7. BootsInOrder' /\ SeedsNeverGoBack'
    BY <1>1, <2>2, <2>5 DEF BootsInOrder, SeedsNeverGoBack, Left, Mine, Seeding
  <2>. QED
    BY <1>2, <2>5, <2>6, <2>7
<1>5. CASE ReadSeedVersion(s)
  <2>1. PICK at \in {"on", "prune"} :
          /\ start' = [start EXCEPT ![s] = [Off EXCEPT !.at = at]]
          /\ at = "on" <=> SeededByNewer(s)
    BY <1>5 DEF ReadSeedVersion
  <2>2. /\ UNCHANGED <<stored, best, intact>> /\ start[s].at = "seed"
        /\ orderly' = (orderly /\ (SeededByNewer(s) \/ Seeding = {}))
    BY <1>5 DEF ReadSeedVersion
  <2> DEFINE b == [Off EXCEPT !.at = at]
  <2>3. b \in Boots /\ b.at = at
    BY <1>3 DEF Boots
  <2>4. start' = [start EXCEPT ![s] = b]
    BY <2>1
  <2>. HIDE DEF b
  <2>5. orderly' \in BOOLEAN /\ (orderly' => orderly)
    BY <2>2
  <2>6. /\ StartTypes'
        /\ \A o \in Stacks : start'[o].at \in Writing => start'[o] = start[o]
        /\ Seeding' \subseteq Seeding \cup (IF at = "prune" THEN {s} ELSE {})
    BY <1>1, <2>2, <2>3, <2>4, <2>5, BootBecomes DEF StartTypes, Writing, Seeding
  <2>7. BootsKnowTheirRoles'
    BY <1>1, <2>6 DEF BootsKnowTheirRoles, Left, Mine
  <2>8. at = "prune" => stored <= images[s].seed
    BY <2>1, ImageFacts DEF SeededByNewer, StartTypes
  <2>9. orderly' /\ at = "prune" => Seeding = {}
    BY <2>1, <2>2
  <2>10. BootsInOrder' /\ SeedsNeverGoBack'
    BY <1>1, <2>2, <2>5, <2>6, <2>8, <2>9 DEF BootsInOrder, SeedsNeverGoBack, Left, Mine
  <2>. QED
    BY <1>2, <2>6, <2>7, <2>10
<1>6. CASE Stamp(s)
  <2>1. /\ start[s].at = "stamp" /\ UNCHANGED orderly
        /\ stored' = images[s].seed
        /\ best' = IF best < images[s].seed THEN images[s].seed ELSE best
        /\ intact' = DOMAIN Mine(s) \ start[s].mixed
        /\ start' = [start EXCEPT ![s] = [Off EXCEPT !.at = "on"]]
    BY <1>6 DEF Stamp, Mine
  <2>2. [Off EXCEPT !.at = "on"] \in Boots /\ [Off EXCEPT !.at = "on"].at = "on"
    BY <1>3 DEF Boots
  <2>3. /\ images[s].seed \in Versions /\ images[s].seed \in Nat /\ images[s].seed > 0
    BY ImageFacts
  <2>4. intact' \subseteq RoleNames
    BY <2>1, <2>3, SeedFacts DEF Mine
  <2>5. StartTypes'
    BY <1>1, <2>1, <2>2, <2>3, <2>4, BootBecomes DEF StartTypes
  <2>6. start'[s].at = "on" /\ \A o \in Stacks : o # s => start'[o] = start[o]
    BY <2>1, <2>2 DEF StartTypes
  <2>7. BootsKnowTheirRoles'
    BY <1>1, <2>6 DEF BootsKnowTheirRoles, Left, Mine, Writing
  <2>8. ASSUME orderly
        PROVE  /\ best' = images[s].seed /\ \A o \in Stacks : o # s => start[o].at \notin Writing /\ o \notin Seeding
               /\ \A r \in intact' : table[r].may = Mine(s)[r]
    <3>1. s \in Seeding /\ best <= images[s].seed /\ best \in Nat
      BY <2>1, <2>8 DEF Seeding, BootsInOrder, StartTypes
    <3>2. Left(s) = {}
      BY <2>1 DEF Left, BootsKnowTheirRoles, Writing
    <3>3. \A r \in intact' : table[r].may = Mine(s)[r]
      BY <2>1, <2>8, <3>2 DEF BootsInOrder, Writing
    <3>4. \A o \in Seeding : o = s
      BY <2>8, <3>1 DEF BootsInOrder
    <3>5. \A o \in Stacks : start[o].at \in Writing => o \in Seeding
      BY DEF Writing, Seeding
    <3>. QED
      BY <2>1, <2>3, <3>1, <3>3, <3>4, <3>5
  <2>9. BootsInOrder'
    <3>1. Seeding' \subseteq Seeding \ {s}
      BY <2>6 DEF Seeding
    <3>2. orderly => Seeding' = {} /\ \A o \in Stacks : start'[o].at \notin Writing
      BY <2>6, <2>8, <3>1 DEF Writing, Seeding
    <3>. QED
      BY <2>1, <2>8, <3>2 DEF BootsInOrder
  <2>10. SeedsNeverGoBack'
    BY <1>1, <2>1, <2>3, <2>8 DEF SeedsNeverGoBack, Mine
  <2>. QED
    BY <1>2, <2>5, <2>7, <2>9, <2>10
<1>. QED
  BY <1>4, <1>5, <1>6

LEMMA ProcessEnds ==
  ASSUME RolesInv, NEW s \in Stacks, Crash(s)
  PROVE  RolesInv'
<1> USE DEF RolesInv, RoleTypes
<1>1. /\ UNCHANGED <<images, table, stored, best, intact, orderly>>
      /\ start' = [start EXCEPT ![s] = Off]
      /\ cache' = [cache EXCEPT ![s] = Stale] /\ locked' = [locked EXCEPT ![s] = Unlocked]
      /\ asked' = [d \in Deciders |-> IF asked[d].at # "free" /\ asked[d].stack = s THEN NoAsk ELSE asked[d]]
  BY DEF Crash, tables
<1>2. TableTypes' /\ CacheTypes' /\ AskTypes'
  BY <1>1, NothingFacts DEF TableTypes, CacheTypes, AskTypes
<1>3. Coherent'
  BY <1>1, NothingFacts DEF Coherent, CacheTypes, ViewIsTrue, Permitted
<1>4. Off \in Boots /\ Off.at = "off"
  BY DEF Off, Boots
<1>5. StartTypes' /\ start'[s].at = "off" /\ \A o \in Stacks : o # s => start'[o] = start[o]
  BY <1>1, <1>4, BootBecomes DEF StartTypes
<1>6. BootsKnowTheirRoles'
  BY <1>1, <1>5 DEF BootsKnowTheirRoles, Left, Mine, Writing
<1>7. BootsInOrder' /\ SeedsNeverGoBack'
  <2>1. Seeding' \subseteq Seeding /\ \A o \in Stacks : start'[o].at \in Writing => start'[o] = start[o]
    BY <1>5 DEF Seeding, Writing
  <2>. QED
    BY <1>1, <2>1 DEF BootsInOrder, SeedsNeverGoBack, Left, Mine
<1>. QED
  BY <1>2, <1>3, <1>5, <1>6, <1>7

LEMMA SystemRolesArePruned ==
  ASSUME RolesInv, NEW s \in Stacks, Prune(s)
  PROVE  RolesInv'
<1> USE DEF RolesInv, RoleTypes
<1>1. /\ UNCHANGED <<images, stored, best, orderly, asked>> /\ start[s].at = "prune" /\ intact' = {}
      /\ table' = [r \in RoleNames |-> IF table[r].system /\ r \notin DOMAIN Mine(s) THEN Gone(table[r]) ELSE table[r]]
      /\ start' = [start EXCEPT ![s].at = "delete", ![s].todo = DOMAIN Mine(s)]
      /\ Missed(s, "other")
  BY DEF Prune, Mine
<1>2. CacheTypes' /\ Coherent' /\ AskTypes'
  BY <1>1, CommitIsNoted DEF Marks, AskTypes
<1>3. TableTypes'
  <2>1. ASSUME NEW r \in RoleNames PROVE table[r] \in Rows /\ Gone(table[r]) \in Rows
    BY DEF TableTypes, Rows, Gone
  <2>. QED
    BY <1>1, <2>1 DEF TableTypes
<1>4. start[s] \in Boots /\ DOMAIN Mine(s) \subseteq SystemRoles
  BY <1>1, BootFacts, ImageFacts, SeedFacts DEF Mine
<1> DEFINE b == [start[s] EXCEPT !.at = "delete", !.todo = DOMAIN Mine(s)]
<1>5. b \in Boots /\ b.at = "delete" /\ b.todo = DOMAIN Mine(s)
  BY <1>4 DEF Boots
<1>6. start' = [start EXCEPT ![s] = b]
  BY <1>1
<1>. HIDE DEF b
<1>7. StartTypes' /\ start'[s] = b /\ \A o \in Stacks : o # s => start'[o] = start[o]
  BY <1>1, <1>5, <1>6, BootBecomes DEF StartTypes
<1>8. BootsKnowTheirRoles'
  BY <1>1, <1>5, <1>7 DEF BootsKnowTheirRoles, Left, Mine, Writing
<1>9. BootsInOrder'
  <2>1. Seeding' = Seeding /\ s \in Seeding
    BY <1>1, <1>5, <1>7 DEF Seeding
  <2>2. ASSUME orderly, NEW o \in Stacks, start'[o].at \in Writing PROVE o = s
    <3>1. o \in Seeding'
      BY <2>2 DEF Seeding, Writing
    <3>. QED
      BY <2>1, <2>2, <3>1 DEF BootsInOrder
  <2>. QED
    BY <1>1, <1>5, <1>7, <2>1, <2>2 DEF BootsInOrder, Left, Mine
<1>10. SeedsNeverGoBack'
  BY <1>1 DEF SeedsNeverGoBack
<1>. QED
  BY <1>2, <1>3, <1>7, <1>8, <1>9, <1>10

LEMMA SeedDeletesRows ==
  ASSUME RolesInv, NEW s \in Stacks, NEW r \in SystemRoles, SeedDeletes(s, r)
  PROVE  RolesInv'
<1> USE DEF RolesInv, RoleTypes
<1>1. /\ UNCHANGED <<images, table, stored, best, intact, orderly, cache, locked, asked>>
      /\ start[s].at = "delete" /\ r \in start[s].todo
      /\ start' = [start EXCEPT ![s] = [at |-> "insert", role |-> r, todo |-> start[s].todo \ {r},
                                        gone |-> table[r].may, mixed |-> start[s].mixed]]
  BY DEF SeedDeletes, tables
<1>2. CacheTypes' /\ Coherent' /\ AskTypes' /\ TableTypes'
  BY <1>1, SameViews DEF AskTypes, TableTypes
<1> DEFINE b == [at |-> "insert", role |-> r, todo |-> start[s].todo \ {r},
                 gone |-> table[r].may, mixed |-> start[s].mixed]
<1>3. b \in Inserts
  <2>1. start[s] \in Boots /\ r \in RoleNames
    BY <1>1, BootFacts DEF RoleNames
  <2>2. table[r].may \in SUBSET Permissions
    BY <2>1 DEF TableTypes, Rows
  <2>. QED
    BY <2>1, <2>2 DEF Inserts, Boots
<1>4. /\ b.at = "insert" /\ b.role = r /\ b.todo = start[s].todo \ {r} /\ b.gone = table[r].may
      /\ b.mixed = start[s].mixed /\ start' = [start EXCEPT ![s] = b]
  BY <1>1
<1>. HIDE DEF b
<1>5. StartTypes' /\ start'[s] = b /\ \A o \in Stacks : o # s => start'[o] = start[o]
  BY <1>1, <1>3, <1>4, BootBecomes DEF StartTypes
<1>6. Left(s)' = Left(s) /\ Left(s) \subseteq DOMAIN Mine(s)
  <2>1. Left(s) = start[s].todo /\ Left(s) \subseteq DOMAIN Mine(s)
    BY <1>1 DEF Left, BootsKnowTheirRoles, Writing
  <2>2. Left(s)' = (start[s].todo \ {r}) \cup {r}
    BY <1>4, <1>5 DEF Left
  <2>. QED
    BY <1>1, <2>1, <2>2
<1>7. BootsKnowTheirRoles'
  <2>1. ASSUME NEW o \in Stacks, o # s PROVE Left(o)' = Left(o) /\ start'[o] = start[o]
    BY <1>5, <2>1 DEF Left
  <2>. QED
    BY <1>1, <1>4, <1>5, <1>6, <2>1 DEF BootsKnowTheirRoles, Mine
<1>8. BootsInOrder' /\ SeedsNeverGoBack'
  <2>1. Seeding' = Seeding /\ s \in Seeding /\ start[s].at \in Writing
    BY <1>1, <1>4, <1>5 DEF Seeding, Writing
  <2>2. ASSUME NEW o \in Stacks, o # s PROVE Left(o)' = Left(o) /\ start'[o] = start[o]
    BY <1>5, <2>2 DEF Left
  <2>. QED
    BY <1>1, <1>4, <1>5, <1>6, <2>1, <2>2 DEF BootsInOrder, SeedsNeverGoBack, Mine
<1>. QED
  BY <1>2, <1>5, <1>7, <1>8

(* A transaction of a boot: what it writes are its own definitions, unless *)
(* an administrator touched the role since its rows were deleted.          *)
LEMMA SeedWritesRows ==
  ASSUME RolesInv, NEW s \in Stacks, SeedCommits(s)
  PROVE  RolesInv'
<1> USE DEF RolesInv, RoleTypes
<1> DEFINE r == start[s].role
           body == Mine(s)[r]
           left == start[s].todo
           b == [at |-> IF left = {} THEN "stamp" ELSE "delete", todo |-> left, gone |-> {}, mixed |-> start[s].mixed]
           row == IF table[r].here THEN [table[r] EXCEPT !.may = Replaced(r, start[s].gone, body)]
                                   ELSE Added(table[r], TRUE, body)
<1>1. /\ start[s].at = "insert" /\ start[s] \in Inserts
      /\ UNCHANGED <<images, stored, best, intact, orderly, asked>>
  BY BootFacts DEF SeedCommits
<1>2. r \in DOMAIN Mine(s) /\ r \in RoleNames /\ body \in SUBSET Permissions /\ left \subseteq DOMAIN Mine(s)
  <2>1. r \in DOMAIN Mine(s) /\ left \subseteq DOMAIN Mine(s)
    BY <1>1 DEF BootsKnowTheirRoles, Left, Writing
  <2>. QED
    BY <2>1, ImageFacts, SeedFacts DEF Mine
<1>3. CASE start' = [start EXCEPT ![s] = Off] /\ UNCHANGED <<table, cache, locked>>
  <2>1. CacheTypes' /\ Coherent' /\ AskTypes' /\ TableTypes'
    BY <1>1, <1>3, SameViews DEF AskTypes, TableTypes
  <2>2. Off \in Boots /\ Off.at = "off"
    BY DEF Off, Boots
  <2>3. StartTypes' /\ start'[s].at = "off" /\ \A o \in Stacks : o # s => start'[o] = start[o]
    BY <1>1, <1>3, <2>2, BootBecomes DEF StartTypes
  <2>4. BootsKnowTheirRoles'
    BY <1>1, <2>3 DEF BootsKnowTheirRoles, Left, Mine, Writing
  <2>5. Seeding' \subseteq Seeding /\ \A o \in Stacks : start'[o].at \in Writing => start'[o] = start[o]
    BY <2>3 DEF Seeding, Writing
  <2>6. BootsInOrder' /\ SeedsNeverGoBack'
    BY <1>1, <1>3, <2>5 DEF BootsInOrder, SeedsNeverGoBack, Left, Mine
  <2>. QED
    BY <2>1, <2>3, <2>4, <2>6
<1>4. CASE table' = [table EXCEPT ![r] = row] /\ Missed(s, "other") /\ start' = [start EXCEPT ![s] = b]
  <2>1. CacheTypes' /\ Coherent' /\ AskTypes'
    BY <1>1, <1>4, CommitIsNoted DEF Marks, AskTypes
  <2>2. row \in Rows /\ row.may = IF table[r].here THEN (table[r].may \ start[s].gone) \cup body ELSE body
    <3>1. table[r] \in Rows
      BY <1>2 DEF TableTypes
    <3>2. Added(table[r], TRUE, body) \in Rows /\ Added(table[r], TRUE, body).may = body
      BY <1>2, <3>1 DEF Added, Rows
    <3>3. Replaced(r, start[s].gone, body) = (table[r].may \ start[s].gone) \cup body
      BY DEF Replaced
    <3>4. (table[r].may \ start[s].gone) \cup body \in SUBSET Permissions
      BY <1>2, <3>1 DEF Rows
    <3>. HIDE DEF body, r
    <3>5. ASSUME NEW may \in SUBSET Permissions
          PROVE  [table[r] EXCEPT !.may = may] \in Rows /\ [table[r] EXCEPT !.may = may].may = may
      BY <3>1 DEF Rows
    <3>. QED
      BY <3>2, <3>3, <3>4, <3>5
  <2>3. b \in Boots /\ b.at = (IF left = {} THEN "stamp" ELSE "delete") /\ b.todo = left /\ b.mixed = start[s].mixed
    BY <1>1 DEF Boots, Inserts
  <2>. HIDE DEF row, b
  <2>4. TableTypes' /\ table'[r] = row /\ \A q \in RoleNames : q # r => table'[q] = table[q]
    BY <1>2, <1>4, <2>2 DEF TableTypes
  <2>5. StartTypes' /\ start'[s] = b /\ \A o \in Stacks : o # s => start'[o] = start[o]
    BY <1>1, <1>4, <2>3, BootBecomes DEF StartTypes
  <2>6. Left(s)' = left
    BY <2>3, <2>5 DEF Left
  <2>7. BootsKnowTheirRoles'
    <3>1. ASSUME NEW o \in Stacks, o # s PROVE Left(o)' = Left(o) /\ start'[o] = start[o]
      BY <2>5, <3>1 DEF Left
    <3>. QED
      BY <1>1, <1>2, <2>3, <2>5, <2>6, <3>1 DEF BootsKnowTheirRoles, Mine
  <2>8. ASSUME orderly
        PROVE  /\ intact = {} /\ \A o \in Stacks : o # s => start'[o].at \notin Writing
               /\ \A q \in DOMAIN Mine(s) \ (left \cup start[s].mixed) : table'[q].may = Mine(s)[q]
    <3>1. s \in Seeding /\ start[s].at \in Writing
      BY <1>1 DEF Seeding, Writing
    <3>2. \A o \in Stacks : o # s => start'[o].at \notin Writing
      BY <2>5, <2>8, <3>1 DEF BootsInOrder, Seeding, Writing
    <3>3. intact = {} /\ (r \notin start[s].mixed => table[r].may = start[s].gone)
      BY <1>1, <2>8, <3>1 DEF BootsInOrder
    <3>4. r \notin start[s].mixed => row.may = body
      BY <2>2, <3>3
    <3>5. ASSUME NEW q \in DOMAIN Mine(s) \ (left \cup start[s].mixed), q # r
          PROVE  table'[q].may = Mine(s)[q]
      <4>1. q \notin Left(s) /\ q \in RoleNames
        BY <1>1, <3>5, ImageFacts, SeedFacts DEF Left, Mine
      <4>. QED
        BY <2>4, <2>8, <3>1, <3>5, <4>1 DEF BootsInOrder
    <3>. QED
      BY <2>4, <3>2, <3>3, <3>4, <3>5
  <2>9. BootsInOrder' /\ SeedsNeverGoBack'
    <3>1. Seeding' = Seeding /\ s \in Seeding
      BY <1>1, <2>3, <2>5 DEF Seeding
    <3>. QED
      BY <1>1, <2>3, <2>5, <2>6, <2>8, <3>1 DEF BootsInOrder, SeedsNeverGoBack, Mine
  <2>. QED
    BY <2>1, <2>4, <2>5, <2>7, <2>9
<1>. QED
  BY <1>3, <1>4 DEF SeedCommits, Mine

(* The commit of an administrator. *)
LEMMA EditsCommit ==
  ASSUME RolesInv, NEW d \in Deciders, CommitEdit(d)
  PROVE  RolesInv'
<1> USE DEF RolesInv, RoleTypes
<1> DEFINE q == asked[d]
<1>1. q \in Editing /\ q.role \in RoleNames /\ q.stack \in Stacks /\ q.op \in Edits
      /\ q.body \in SUBSET Permissions
  <2>1. q \in Editing
    BY AskFacts DEF CommitEdit
  <2>. QED
    BY <2>1 DEF Editing
<1>2. UNCHANGED <<images, stored, best, orderly>>
  BY DEF CommitEdit
<1>3. CASE asked' = [asked EXCEPT ![d] = NoAsk] /\ UNCHANGED <<table, intact, start, cache, locked>>
  <2>1. AskTypes' /\ CacheTypes' /\ Coherent'
    BY <1>3, AskBecomes, SameViews
  <2>. QED
    BY <1>2, <1>3, <2>1, TablesStay
<1>4. CASE /\ table' = [table EXCEPT ![q.role] = Written(q)] /\ Touches(q.role) /\ Missed(q.stack, d)
           /\ asked' = [asked EXCEPT ![d] = [at |-> "invalidate", stack |-> q.stack]]
  <2>1. CacheTypes' /\ Coherent'
    BY <1>4, DeciderFacts, CommitIsNoted
  <2>2. AskTypes'
    <3>1. [at |-> "invalidate", stack |-> q.stack] \in Answering
      BY <1>1 DEF Answering
    <3>. QED
      BY <1>4, <3>1, AskBecomes
  <2>3. Written(q) \in Rows
    <3>1. table[q.role] \in Rows
      BY <1>1 DEF TableTypes
    <3>2. Added(table[q.role], FALSE, q.body) \in Rows /\ Gone(table[q.role]) \in Rows
      BY <1>1, <3>1 DEF Added, Gone, Rows
    <3>3. [table[q.role] EXCEPT !.may = Replaced(q.role, q.gone, q.body)] \in Rows
      BY <1>1, <3>1 DEF Replaced, Rows
    <3>. QED
      BY <1>1, <3>2, <3>3 DEF Written, Edits
  <2>. HIDE DEF q
  <2>4. TableTypes' /\ \A r \in RoleNames : r # q.role => table'[r] = table[r]
    BY <1>1, <1>4, <2>3 DEF TableTypes
  <2>5. /\ intact' = intact \ {q.role}
        /\ start' = [s \in Stacks |-> IF s \in Seeding
                       THEN [start[s] EXCEPT !.mixed = start[s].mixed \cup {q.role}] ELSE start[s]]
    BY <1>4 DEF Touches
  <2>6. ASSUME NEW s \in Stacks
        PROVE  /\ start'[s] \in Boots \cup Inserts /\ start'[s].at = start[s].at /\ start'[s].todo = start[s].todo
               /\ start[s].at = "insert" => start'[s].role = start[s].role /\ start'[s].gone = start[s].gone
               /\ s \in Seeding => start'[s].mixed = start[s].mixed \cup {q.role}
    <3>1. start[s] \in Boots \cup Inserts
      BY DEF StartTypes
    <3>2. CASE start[s] \in Boots
      BY <1>1, <2>5, <3>2 DEF Boots
    <3>3. CASE start[s] \in Inserts
      BY <1>1, <2>5, <3>3 DEF Inserts
    <3>. QED
      BY <3>1, <3>2, <3>3
  <2>7. StartTypes'
    <3>1. start' \in [Stacks -> Boots \cup Inserts]
      BY <2>5, <2>6
    <3>. QED
      BY <1>2, <2>5, <3>1 DEF StartTypes
  <2>8. ASSUME NEW s \in Stacks
        PROVE  Left(s)' = Left(s) /\ (start[s].at \in Writing => s \in Seeding)
    BY <2>6 DEF Left, Writing, Seeding
  <2>9. BootsKnowTheirRoles'
    BY <1>2, <2>6, <2>8 DEF BootsKnowTheirRoles, Mine
  <2>10. Seeding' = Seeding
    BY <2>6 DEF Seeding
  <2>11. BootsInOrder'
    <3>1. ASSUME orderly, NEW s \in Stacks, start[s].at \in Writing
          PROVE  /\ intact' = {}
                 /\ \A r \in DOMAIN Mine(s) \ (Left(s) \cup start'[s].mixed) : table'[r].may = Mine(s)[r]
                 /\ start[s].at = "insert" /\ start[s].role \notin start'[s].mixed =>
                      table'[start[s].role].may = start[s].gone
      <4>1. start'[s].mixed = start[s].mixed \cup {q.role}
        BY <2>6, <2>8, <3>1
      <4>2. \A r \in DOMAIN Mine(s) : r \in RoleNames
        BY ImageFacts, SeedFacts DEF Mine
      <4>3. start[s].at = "insert" => start[s].role \in RoleNames
        BY BootFacts DEF Inserts, RoleNames
      <4>. QED
        BY <2>4, <2>5, <3>1, <4>1, <4>2, <4>3 DEF BootsInOrder
    <3>. QED
      BY <1>2, <2>6, <2>8, <2>10, <3>1 DEF BootsInOrder, Mine
  <2>12. SeedsNeverGoBack'
    BY <1>2, <2>4, <2>5 DEF SeedsNeverGoBack, StartTypes
  <2>. QED
    BY <2>1, <2>2, <2>4, <2>7, <2>9, <2>11, <2>12
<1>. QED
  BY <1>3, <1>4 DEF CommitEdit, Refuse

LEMMA RolesInvInit ==
  ASSUME RolesInit
  PROVE  RolesInv
<1>1. PICK v \in FirstSeeds :
       /\ table = [r \in RoleNames |-> IF v # 0 /\ r \in DOMAIN Seeds[v] THEN Added(Never, TRUE, Seeds[v][r])
                                                                      ELSE Never]
       /\ stored = v /\ best = v
       /\ intact = IF v = 0 THEN {} ELSE DOMAIN Seeds[v]
  BY DEF RolesInit
<1>2. images \in Releases /\ orderly = TRUE /\ start = [s \in Stacks |-> Off]
      /\ cache = [s \in Stacks |-> Stale] /\ locked = [s \in Stacks |-> Unlocked]
      /\ asked = [d \in Deciders |-> NoAsk]
  BY DEF RolesInit
<1>3. v = 0 \/ v \in Versions
  <2>1. v # 0 => \E s \in Stacks : images[s].seed = v
    BY <1>2, RolesAssumption
  <2>. QED
    BY <1>2, <2>1, RolesAssumption
<1>4. v \in Nat /\ (v # 0 => v > 0)
  <2>1. \A w \in Versions : w \in Nat
    BY RolesAssumption
  <2>. QED
    BY <1>3, <2>1
<1>5. \A r \in RoleNames : Never \in Rows /\ (v # 0 /\ r \in DOMAIN Seeds[v] =>
        Added(Never, TRUE, Seeds[v][r]) \in Rows /\ Added(Never, TRUE, Seeds[v][r]).may = Seeds[v][r])
  BY <1>3, SeedFacts DEF Never, Added, Rows
<1>6. TableTypes
  BY <1>1, <1>5 DEF TableTypes
<1>7. CacheTypes /\ Coherent
  BY <1>2, NothingFacts DEF CacheTypes, Coherent
<1>8. AskTypes
  BY <1>2 DEF AskTypes
<1>9. Off \in Boots /\ Off.at = "off"
  BY DEF Off, Boots
<1>10. intact \subseteq RoleNames
  BY <1>1, <1>3, SeedFacts
<1>11. StartTypes
  BY <1>1, <1>2, <1>4, <1>9, <1>10 DEF StartTypes
<1>12. BootsKnowTheirRoles
  BY <1>2, <1>9 DEF BootsKnowTheirRoles, Writing
<1>13. BootsInOrder
  BY <1>1, <1>2, <1>9 DEF BootsInOrder, Seeding, Writing
<1>14. SeedsNeverGoBack
  BY <1>1, <1>4, <1>5, <1>10 DEF SeedsNeverGoBack
<1>. QED
  BY <1>6, <1>7, <1>8, <1>11, <1>12, <1>13, <1>14 DEF RolesInv, RoleTypes

LEMMA RolesInvNext ==
  ASSUME RolesInv, [RolesNext]_roleVars
  PROVE  RolesInv'
<1>1. CASE UNCHANGED roleVars
  <2>1. CacheTypes' /\ AskTypes' /\ Coherent'
    BY <1>1, SameViews DEF roleVars, RolesInv, RoleTypes, AskTypes
  <2>. QED
    BY <1>1, <2>1, TablesStay DEF roleVars
<1>2. ASSUME NEW s \in Stacks,
             \/ StartUp(s) \/ ReadSeedVersion(s) \/ Prune(s) \/ SeedCommits(s) \/ Stamp(s)
             \/ Crash(s) \/ CacheExpires(s) \/ \E r \in SystemRoles : SeedDeletes(s, r)
      PROVE  RolesInv'
  BY <1>2, BootsGoOn, SystemRolesArePruned, SeedWritesRows, SeedDeletesRows, ProcessEnds, CacheEnds
<1>3. ASSUME NEW d \in Deciders,
             \/ \E s \in Stacks, actor \in Actors :
                  \/ Ask(d, s, actor, "read", actor, {}) \/ \E r \in RoleNames : Ask(d, s, actor, "delete", r, {})
                  \/ \E r \in RoleNames, op \in {"create", "update"}, body \in Contents : Ask(d, s, actor, op, r, body)
             \/ Decide(d) \/ Lookup(d) \/ DeleteOld(d)
      PROVE  RolesInv'
  BY <1>3, RequestsGoOn
<1>4. ASSUME NEW d \in Deciders,
             \/ Refresh(d) \/ (\E ok \in BOOLEAN : Refreshed(d, ok)) \/ Invalidate(d) \/ CommitEdit(d)
      PROVE  RolesInv'
  BY <1>4, CachesGoOn, EditsCommit
<1>. QED
  BY <1>1, <1>2, <1>3, <1>4 DEF RolesNext

(* A process that has answered an edit decides by it from then on: the     *)
(* commit waits for no refresh, but the answer does (auth.py _cache_lock,  *)
(* invalidate_permission_cache).                                           *)
THEOREM DecisionsAlwaysFollowEdits == RolesSpec => []DecisionsFollowEdits
<1>1. RolesInv => DecisionsFollowEdits
  BY DEF RolesInv, Coherent, ViewIsTrue, DecisionsFollowEdits
<1>. QED
  BY <1>1, RolesInvInit, RolesInvNext, PTL DEF RolesSpec

(* An older image never takes a permission away again, however the boots   *)
(* of the two colors follow each other (database.py _seed_roles).          *)
THEOREM SeedsStayTheNewest == RolesSpec => []SeedsNeverGoBack
<1>1. RolesInv => SeedsNeverGoBack
  BY DEF RolesInv
<1>. QED
  BY <1>1, RolesInvInit, RolesInvNext, PTL DEF RolesSpec

-------------------------------------------------------------------------------
(***************************************************************************)
(* The users and their roles.                                              *)
(***************************************************************************)
Accounts == [id : 0..ids, enabled : BOOLEAN, roles : SUBSET AppRoles]
Posts == [at : {"post"}, id : {0}, name : Usernames, role : AppRoles]
Firsts == [at : {"assign", "undo"}, id : 1..ids, role : AppRoles]
Changes == [at : {"change", "view", "remove", "reply"}, id : 1..ids, role : AppRoles, todo : SUBSET AppRoles]
Looks == [at : {"enable", "disable", "delete"}, id : 1..ids]
Dos == [at : {"do"}, id : 1..ids, what : {"enable", "disable", "delete"}]
Chores == {NoChore} \cup Posts \cup Firsts \cup Changes \cup Looks \cup Dos

UserTypes ==
  /\ ids \in Nat
  /\ account \in [Usernames -> Accounts]
  /\ chore \in [Managers -> Chores]
  /\ bare \subseteq 1..ids /\ contested \subseteq 1..ids

IdsDiffer == \A u, v \in Usernames : account[u].id = account[v].id /\ account[u].id # 0 => u = v

(* Two requests about the role of one user contest it. *)
About(m, id) == chore[m].at \in ForARole /\ chore[m].id = id
OneAtATime ==
  \A id \in 1..ids : id \notin contested => \A m, o \in Managers : About(m, id) /\ About(o, id) => m = o

(* How far a change of role is, and what the user has by then. *)
Suits(c, roles) ==
  /\ c.at \in {"view", "remove", "reply"} => c.role \in roles
  /\ c.at = "remove" => c.role \notin c.todo /\ roles \subseteq c.todo \cup {c.role}
  /\ c.at = "reply" => roles = {c.role}
AtRest(id) == id # 0 /\ id \notin bare \cup contested
InHand(u) ==
  AtRest(account[u].id) =>
    /\ BeingMade(account[u].id) \/ account[u].roles # {}
    /\ \A m \in Managers : chore[m].id = account[u].id => Suits(chore[m], account[u].roles)
RolesInHand == \A u \in Usernames : InHand(u)

UsersInv == UserTypes /\ IdsDiffer /\ OneAtATime /\ RolesInHand

-------------------------------------------------------------------------------
LEMMA ChoreFacts ==
  ASSUME UserTypes, NEW m \in Managers
  PROVE  /\ chore[m] \in Chores /\ NoChore \in Chores
         /\ chore[m].at = "free" => chore[m] = NoChore
         /\ chore[m].at = "post" => chore[m] \in Posts
         /\ chore[m].at \in {"assign", "undo"} => chore[m] \in Firsts
         /\ chore[m].at \in {"change", "view", "remove", "reply"} => chore[m] \in Changes
         /\ chore[m].at \in {"enable", "disable", "delete"} => chore[m] \in Looks
         /\ chore[m].at = "do" => chore[m] \in Dos
         /\ chore[m].at \in ForARole => chore[m].id \in 1..ids
BY DEF UserTypes, Chores, NoChore, Posts, Firsts, Changes, Looks, Dos, ForARole

LEMMA NameFacts ==
  ASSUME UserTypes, IdsDiffer, NEW id \in 1..ids, Exists(id)
  PROVE  /\ NameOf(id) \in Usernames /\ account[NameOf(id)].id = id
         /\ \A u \in Usernames : account[u].id = id => u = NameOf(id)
         /\ Assigned(id) = account[NameOf(id)].roles
<1>1. PICK u \in Usernames : account[u].id = id
  BY DEF Exists
<1>2. NameOf(id) \in Usernames /\ account[NameOf(id)].id = id
  BY <1>1 DEF NameOf
<1>3. id # 0
  BY DEF UserTypes
<1>. QED
  BY <1>2, <1>3 DEF IdsDiffer, Assigned

LEMMA NoChoreFacts ==
  NoChore.at = "free" /\ NoChore.id = 0 /\ \A roles : Suits(NoChore, roles)
BY DEF NoChore, Suits

(* One request goes on: a role changes for who is about it, alone; it is   *)
(* about a user already, or contests it, or is the first.                  *)
LEMMA RequestGoesOn ==
  ASSUME UsersInv, NEW m \in Managers, NEW c \in Chores,
         chore' = [chore EXCEPT ![m] = c], ids' = ids,
         bare \subseteq bare', bare' \subseteq 1..ids, contested \subseteq contested', contested' \subseteq 1..ids,
         account' \in [Usernames -> Accounts],
         c.at \in ForARole => \/ About(m, c.id) \/ c.id \in contested'
                             \/ \A o \in Managers \ {m} : ~About(o, c.id),
         c.at \in {"assign", "undo"} \/ chore[m].at \notin {"assign", "undo"} \/ chore[m].id \in bare'
           \/ \A u \in Usernames : account'[u].id = chore[m].id => account'[u].roles # {} \/ account'[u].id = 0,
         chore[m].at \in {"assign", "undo"} /\ c.at \in {"assign", "undo"} => c.id = chore[m].id,
         \A u \in Usernames : account'[u].id # 0 =>
           /\ account'[u].id = account[u].id
           /\ account'[u].roles = account[u].roles \/ About(m, account[u].id)
           /\ account'[u].id \notin bare' \cup contested' =>
                /\ c.id = account[u].id => Suits(c, account'[u].roles)
                /\ account[u].roles # {} => account'[u].roles # {}
  PROVE  UsersInv'
<1> USE DEF UsersInv
<1>1. UserTypes'
  BY DEF UserTypes, Accounts, Chores, Posts, Firsts, Changes, Looks, Dos
<1>2. IdsDiffer'
  BY DEF IdsDiffer
<1>3. chore'[m] = c /\ \A o \in Managers : o # m => chore'[o] = chore[o]
  BY DEF UserTypes
<1>4. OneAtATime'
  <2>1. ASSUME NEW id \in 1..ids, id \notin contested', NEW o \in Managers, About(o, id)', o # m
        PROVE  About(o, id) /\ ~About(m, id)'
    <3>1. About(o, id)
      BY <1>3, <2>1 DEF About
    <3>2. ~About(m, id)
      BY <2>1, <3>1 DEF OneAtATime
    <3>. QED
      BY <1>3, <2>1, <3>1, <3>2 DEF About
  <2>2. ASSUME NEW id \in 1..ids, id \notin contested', NEW o \in Managers, NEW q \in Managers,
               About(o, id)', About(q, id)'
        PROVE  o = q
    <3>1. CASE o = m \/ q = m
      BY <2>1, <2>2, <3>1
    <3>2. CASE o # m /\ q # m
      <4>1. About(o, id) /\ About(q, id)
        BY <2>1, <2>2, <3>2
      <4>. QED
        BY <2>2, <4>1 DEF OneAtATime
    <3>. QED
      BY <3>1, <3>2
  <2>. QED
    BY <2>2 DEF OneAtATime
<1>5. ASSUME NEW u \in Usernames, AtRest(account[u].id)' PROVE InHand(u)'
  <2>1. PICK id : id = account[u].id
    OBVIOUS
  <2>2. account'[u].id = id /\ id # 0 /\ id \notin bare' \cup contested' /\ id \notin bare \cup contested
        /\ InHand(u) /\ id \in 1..ids
    BY <1>5, <2>1 DEF RolesInHand, AtRest, UserTypes, Accounts
  <2>3. BeingMade(id)' \/ account'[u].roles # {}
    <3>1. CASE account[u].roles # {}
      BY <2>1, <2>2, <3>1
    <3>2. CASE BeingMade(id)
      <4>1. PICK o \in Managers : chore[o].at \in {"assign", "undo"} /\ chore[o].id = id
        BY <3>2 DEF BeingMade
      <4>2. CASE o # m
        BY <1>3, <4>1, <4>2 DEF BeingMade
      <4>3. CASE o = m /\ c.at \in {"assign", "undo"}
        BY <1>3, <4>1, <4>3 DEF BeingMade
      <4>4. CASE o = m /\ c.at \notin {"assign", "undo"}
        BY <2>2, <4>1, <4>4
      <4>. QED
        BY <4>2, <4>3, <4>4
    <3>. QED
      BY <2>1, <2>2, <3>1, <3>2 DEF InHand, AtRest
  <2>4. ASSUME NEW o \in Managers, chore'[o].id = id PROVE Suits(chore'[o], account'[u].roles)
    <3>1. CASE o = m
      BY <1>3, <2>1, <2>2, <2>4, <3>1
    <3>2. CASE o # m
      <4>1. chore'[o] = chore[o] /\ Suits(chore[o], account[u].roles)
        BY <1>3, <2>1, <2>2, <2>4, <3>2 DEF InHand, AtRest
      <4>2. CASE account'[u].roles = account[u].roles
        BY <4>1, <4>2
      <4>3. CASE About(m, id)
        <5>1. ~About(o, id)
          BY <2>2, <3>2, <4>3 DEF OneAtATime
        <5>. QED
          BY <2>4, <4>1, <5>1 DEF About, ForARole, Suits
      <4>. QED
        BY <2>1, <2>2, <4>2, <4>3
    <3>. QED
      BY <3>1, <3>2
  <2>. QED
    BY <2>2, <2>3, <2>4 DEF InHand
<1>6. RolesInHand'
  BY <1>5 DEF RolesInHand, InHand
<1>. QED
  BY <1>1, <1>2, <1>4, <1>6

LEMMA SuitsAtOnce ==
  ASSUME NEW c, c.at \notin {"view", "remove", "reply"}
  PROVE  \A roles : Suits(c, roles)
BY DEF Suits

(* A request ends, or goes to a stage that needs nothing of the roles. *)
LEMMA RequestsStart ==
  ASSUME UsersInv, NEW m \in Managers, CreateUser(m) \/ ChangeRole(m) \/ ToggleOrDelete(m)
  PROVE  UsersInv'
<1> USE DEF UsersInv
<1>1. /\ chore[m].at = "free" /\ UNCHANGED <<account, ids, bare>>
      /\ contested \subseteq contested' /\ contested' \subseteq 1..ids
  <2>1. chore[m].at = "free" /\ UNCHANGED <<account, ids, bare>>
    BY DEF CreateUser, ChangeRole, ToggleOrDelete, Starts
  <2>2. contested' = contested \/ \E id \in 1..ids : contested' = contested \cup (IF Contested(m, id) THEN {id} ELSE {})
    BY DEF CreateUser, ChangeRole, ToggleOrDelete
  <2>3. contested \subseteq 1..ids
    BY DEF UserTypes
  <2>. QED
    BY <2>1, <2>2, <2>3
<1>2. bare \subseteq 1..ids /\ account' \in [Usernames -> Accounts]
  BY <1>1 DEF UserTypes
<1>3. ASSUME NEW c \in Chores, chore' = [chore EXCEPT ![m] = c],
             c.at \notin {"view", "remove", "reply", "assign", "undo"},
             c.at \in ForARole => c.id \in contested' \/ \A o \in Managers \ {m} : ~About(o, c.id)
      PROVE  UsersInv'
  BY <1>1, <1>2, <1>3, SuitsAtOnce, RequestGoesOn
<1>4. CASE CreateUser(m)
  <2>1. PICK c \in [at : {"post"}, id : {0}, name : Usernames, role : AppRoles] : chore' = [chore EXCEPT ![m] = c]
    BY <1>4 DEF CreateUser, Starts, Becomes
  <2>2. c \in Chores /\ c.at = "post"
    BY DEF Chores, Posts
  <2>. QED
    BY <1>3, <2>1, <2>2 DEF ForARole
<1>5. CASE ChangeRole(m)
  <2>1. PICK id \in 1..ids, c \in [at : {"change"}, id : 1..ids, role : AppRoles, todo : {{}}] :
          /\ chore' = [chore EXCEPT ![m] = c] /\ c.id = id
          /\ contested' = contested \cup (IF Contested(m, id) THEN {id} ELSE {})
    BY <1>5 DEF ChangeRole, Starts, Becomes
  <2>2. c \in Chores /\ c.at = "change" /\ c.id = id
    <3>1. c.todo = {}
      OBVIOUS
    <3>2. c \in Changes
      BY <3>1 DEF Changes
    <3>. QED
      BY <2>1, <3>2 DEF Chores
  <2>3. id \in contested' \/ \A o \in Managers \ {m} : ~About(o, id)
    BY <2>1 DEF Contested, About
  <2>. QED
    BY <1>3, <2>1, <2>2, <2>3
<1>6. CASE ToggleOrDelete(m)
  <2>1. PICK c \in [at : {"enable", "disable", "delete"}, id : 1..ids] : chore' = [chore EXCEPT ![m] = c]
    BY <1>6 DEF ToggleOrDelete, Starts, Becomes
  <2>2. c \in Chores /\ c.at \in {"enable", "disable", "delete"}
    BY DEF Chores, Looks
  <2>. QED
    BY <1>3, <2>1, <2>2 DEF ForARole
<1>. QED
  BY <1>4, <1>5, <1>6

(* The end of a request that leaves the accounts. *)
LEMMA RequestEnds ==
  ASSUME UsersInv, NEW m \in Managers, Ends(m), UNCHANGED <<account, ids, contested>>,
         bare \subseteq bare', bare' \subseteq 1..ids,
         chore[m].at \in {"assign", "undo"} => chore[m].id \in bare'
  PROVE  UsersInv'
<1>1. chore' = [chore EXCEPT ![m] = NoChore] /\ NoChore \in Chores /\ NoChore.at = "free" /\ NoChore.id = 0
  BY ChoreFacts, NoChoreFacts DEF Ends, Becomes, UsersInv
<1>2. account' \in [Usernames -> Accounts] /\ contested \subseteq 1..ids
  BY DEF UsersInv, UserTypes
<1>. QED
  BY <1>1, <1>2, NoChoreFacts, RequestGoesOn DEF ForARole

(* What assigning a role does to the user it is about. *)
LEMMA AssignFacts ==
  ASSUME UsersInv, NEW m \in Managers, NEW reply \in Replies, Assigns(m, reply),
         chore[m].at \in {"assign", "change"}
  PROVE  /\ account' \in [Usernames -> Accounts]
         /\ \A u \in Usernames :
              /\ account'[u].id = account[u].id
              /\ account[u].roles \subseteq account'[u].roles
              /\ account[u].id # chore[m].id => account'[u].roles = account[u].roles
              /\ Well(m, reply) /\ account[u].id = chore[m].id => chore[m].role \in account'[u].roles
<1> USE DEF UsersInv
<1>1. chore[m].id \in 1..ids /\ chore[m].role \in AppRoles
  BY ChoreFacts DEF Firsts, Changes
<1>2. CASE Took(m, reply)
  <2> DEFINE n == NameOf(chore[m].id)
             a == [account[n] EXCEPT !.roles = account[n].roles \cup {chore[m].role}]
  <2>1. /\ n \in Usernames /\ account[n].id = chore[m].id
        /\ \A u \in Usernames : account[u].id = chore[m].id => u = n
    BY <1>1, <1>2, NameFacts DEF Took
  <2>2. account' = [account EXCEPT ![n] = a]
    BY <1>2 DEF Assigns, Edited
  <2>3. account[n] \in Accounts
    BY <2>1 DEF UserTypes
  <2>4. a \in Accounts /\ a.id = account[n].id /\ a.roles = account[n].roles \cup {chore[m].role}
    BY <1>1, <2>3 DEF Accounts
  <2>. HIDE DEF n, a
  <2>. QED
    BY <2>1, <2>2, <2>4 DEF UserTypes
<1>3. CASE ~Took(m, reply)
  <2>1. account' = account
    BY <1>3 DEF Assigns
  <2>2. ~Well(m, reply)
    BY <1>3 DEF Well, Took
  <2>. QED
    BY <2>1, <2>2 DEF UserTypes
<1>. QED
  BY <1>2, <1>3

LEMMA FirstRoleIsAssigned ==
  ASSUME UsersInv, NEW m \in Managers, NEW reply \in Replies, AssignFirst(m, reply)
  PROVE  UsersInv'
<1> USE DEF UsersInv
<1>1. /\ chore[m].at = "assign" /\ Assigns(m, reply) /\ UNCHANGED <<ids, bare, contested>>
      /\ chore[m] \in Firsts /\ chore[m].id \in 1..ids /\ About(m, chore[m].id)
      /\ bare \subseteq 1..ids /\ contested \subseteq 1..ids
  BY ChoreFacts DEF AssignFirst, UserTypes, About, ForARole
<1>2. /\ account' \in [Usernames -> Accounts]
      /\ \A u \in Usernames :
           /\ account'[u].id = account[u].id
           /\ account[u].roles \subseteq account'[u].roles
           /\ account[u].id # chore[m].id => account'[u].roles = account[u].roles
           /\ Well(m, reply) /\ account[u].id = chore[m].id => chore[m].role \in account'[u].roles
  BY <1>1, AssignFacts
<1>3. CASE Well(m, reply)
  <2>1. chore' = [chore EXCEPT ![m] = NoChore]
    BY <1>3 DEF AssignFirst, Ends, Becomes
  <2>2. NoChore \in Chores /\ NoChore.at = "free" /\ \A roles : Suits(NoChore, roles)
    BY ChoreFacts, NoChoreFacts
  <2>3. \A u \in Usernames : account'[u].id = chore[m].id => account'[u].roles # {}
    BY <1>2, <1>3
  <2>9. \A u \in Usernames : account'[u].id # 0 =>
          /\ account'[u].id = account[u].id
          /\ account'[u].roles = account[u].roles \/ About(m, account[u].id)
          /\ account'[u].id \notin bare' \cup contested' =>
               /\ NoChore.id = account[u].id => Suits(NoChore, account'[u].roles)
               /\ account[u].roles # {} => account'[u].roles # {}
    BY <1>1, <1>2, <2>2 DEF About
  <2>. QED
    BY <1>1, <1>2, <2>1, <2>2, <2>3, <2>9, RequestGoesOn DEF ForARole
<1>4. CASE ~Well(m, reply)
  <2> DEFINE c == [chore[m] EXCEPT !.at = "undo"]
  <2>1. c \in Chores /\ c.at = "undo" /\ c.id = chore[m].id
    BY <1>1 DEF Chores, Firsts
  <2>2. chore' = [chore EXCEPT ![m] = c]
    BY <1>4 DEF AssignFirst, Goes, Becomes
  <2>. HIDE DEF c
  <2>3. \A roles : Suits(c, roles)
    BY <2>1, SuitsAtOnce
  <2>9. \A u \in Usernames : account'[u].id # 0 =>
          /\ account'[u].id = account[u].id
          /\ account'[u].roles = account[u].roles \/ About(m, account[u].id)
          /\ account'[u].id \notin bare' \cup contested' =>
               /\ c.id = account[u].id => Suits(c, account'[u].roles)
               /\ account[u].roles # {} => account'[u].roles # {}
    BY <1>1, <1>2, <2>3 DEF About
  <2>. QED
    BY <1>1, <1>2, <2>1, <2>2, <2>9, RequestGoesOn
<1>. QED
  BY <1>3, <1>4

(* A user goes. *)
LEMMA AccountGoes ==
  ASSUME UserTypes, IdsDiffer, NEW id \in 1..ids, Exists(id),
         account' = [account EXCEPT ![NameOf(id)] = NoAccount]
  PROVE  /\ account' \in [Usernames -> Accounts]
         /\ \A u \in Usernames : account'[u].id # 0 => account'[u] = account[u] /\ account[u].id # id
<1>1. NoAccount \in Accounts /\ NoAccount.id = 0
  BY DEF NoAccount, Accounts, UserTypes
<1>. QED
  BY <1>1, NameFacts DEF UserTypes

LEMMA UserIsUndone ==
  ASSUME UsersInv, NEW m \in Managers, NEW reply \in Replies, UndoUser(m, reply)
  PROVE  UsersInv'
<1> USE DEF UsersInv
<1>1. /\ chore[m].at = "undo" /\ Ends(m) /\ UNCHANGED <<ids, contested>>
      /\ chore[m].id \in 1..ids /\ bare \subseteq 1..ids /\ contested \subseteq 1..ids
  BY ChoreFacts DEF UndoUser, UserTypes, Firsts
<1>2. chore' = [chore EXCEPT ![m] = NoChore] /\ NoChore \in Chores /\ NoChore.at = "free"
      /\ \A roles : Suits(NoChore, roles)
  BY <1>1, ChoreFacts, NoChoreFacts DEF Ends, Becomes
<1>3. CASE Took(m, reply)
  <2>1. /\ account' \in [Usernames -> Accounts]
        /\ \A u \in Usernames : account'[u].id # 0 => account'[u] = account[u] /\ account[u].id # chore[m].id
    BY <1>1, <1>3, AccountGoes DEF UndoUser, Took
  <2>2. bare' = bare
    BY <1>3 DEF UndoUser
  <2>. QED
    BY <1>1, <1>2, <2>1, <2>2, RequestGoesOn DEF ForARole
<1>4. CASE ~Took(m, reply)
  <2>1. account' = account /\ bare' = bare \cup {chore[m].id}
    BY <1>4 DEF UndoUser
  <2>. QED
    BY <1>1, <2>1, RequestEnds
<1>. QED
  BY <1>3, <1>4

LEMMA NewRoleIsAssigned ==
  ASSUME UsersInv, NEW m \in Managers, NEW reply \in Replies, AssignNew(m, reply)
  PROVE  UsersInv'
<1> USE DEF UsersInv
<1>1. /\ chore[m].at = "change" /\ Assigns(m, reply) /\ UNCHANGED <<ids, bare, contested>>
      /\ chore[m] \in Changes /\ chore[m].id \in 1..ids /\ About(m, chore[m].id)
      /\ bare \subseteq 1..ids /\ contested \subseteq 1..ids
  BY ChoreFacts DEF AssignNew, UserTypes, About, ForARole
<1>2. /\ account' \in [Usernames -> Accounts]
      /\ \A u \in Usernames :
           /\ account'[u].id = account[u].id
           /\ account[u].roles \subseteq account'[u].roles
           /\ account[u].id # chore[m].id => account'[u].roles = account[u].roles
           /\ Well(m, reply) /\ account[u].id = chore[m].id => chore[m].role \in account'[u].roles
  BY <1>1, AssignFacts
<1>3. CASE Well(m, reply)
  <2> DEFINE c == [chore[m] EXCEPT !.at = "view"]
  <2>1. c \in Chores /\ c.at = "view" /\ c.id = chore[m].id /\ c.role = chore[m].role
    BY <1>1 DEF Chores, Changes
  <2>2. chore' = [chore EXCEPT ![m] = c]
    BY <1>3 DEF AssignNew, Goes, Becomes
  <2>. HIDE DEF c
  <2>3. \A u \in Usernames : c.id = account[u].id => Suits(c, account'[u].roles)
    BY <1>2, <1>3, <2>1 DEF Suits
  <2>9. \A u \in Usernames : account'[u].id # 0 =>
          /\ account'[u].id = account[u].id
          /\ account'[u].roles = account[u].roles \/ About(m, account[u].id)
          /\ account'[u].id \notin bare' \cup contested' =>
               /\ c.id = account[u].id => Suits(c, account'[u].roles)
               /\ account[u].roles # {} => account'[u].roles # {}
    BY <1>1, <1>2, <2>3 DEF About
  <2>. QED
    BY <1>1, <1>2, <2>1, <2>2, <2>9, RequestGoesOn
<1>4. CASE ~Well(m, reply)
  <2>1. chore' = [chore EXCEPT ![m] = NoChore]
    BY <1>4 DEF AssignNew, Ends, Becomes
  <2>2. NoChore \in Chores /\ NoChore.at = "free" /\ \A roles : Suits(NoChore, roles)
    BY ChoreFacts, NoChoreFacts
  <2>9. \A u \in Usernames : account'[u].id # 0 =>
          /\ account'[u].id = account[u].id
          /\ account'[u].roles = account[u].roles \/ About(m, account[u].id)
          /\ account'[u].id \notin bare' \cup contested' =>
               /\ NoChore.id = account[u].id => Suits(NoChore, account'[u].roles)
               /\ account[u].roles # {} => account'[u].roles # {}
    BY <1>1, <1>2, <2>2 DEF About
  <2>. QED
    BY <1>1, <1>2, <2>1, <2>2, <2>9, RequestGoesOn DEF ForARole
<1>. QED
  BY <1>3, <1>4

(* The roles that are to go are those the user has beside the new one. *)
LEMMA RolesAreViewed ==
  ASSUME UsersInv, NEW m \in Managers, NEW reply \in Replies, ViewRoles(m, reply)
  PROVE  UsersInv'
<1> USE DEF UsersInv
<1>1. /\ chore[m].at = "view" /\ UNCHANGED <<account, ids, bare, contested>>
      /\ chore[m] \in Changes /\ chore[m].id \in 1..ids /\ chore[m].id # 0 /\ About(m, chore[m].id)
      /\ bare \subseteq 1..ids /\ contested \subseteq 1..ids /\ account' \in [Usernames -> Accounts]
  BY ChoreFacts DEF ViewRoles, UserTypes, About, ForARole
<1>2. CASE Well(m, reply)
  <2> DEFINE old == Assigned(chore[m].id) \ {chore[m].role}
             c == [chore[m] EXCEPT !.at = IF old = {} THEN "reply" ELSE "remove", !.todo = old]
  <2>1. \A u \in Usernames : account[u].id = chore[m].id => account[u].roles = Assigned(chore[m].id)
    BY <1>1, <1>2, NameFacts DEF Well
  <2>2. Assigned(chore[m].id) \subseteq AppRoles
    BY <1>1, <1>2, NameFacts DEF Well, UserTypes, Accounts
  <2>3. /\ c \in Chores /\ c.at = (IF old = {} THEN "reply" ELSE "remove") /\ c.id = chore[m].id
        /\ c.role = chore[m].role /\ c.todo = old
    BY <1>1, <2>2 DEF Chores, Changes
  <2>4. chore' = [chore EXCEPT ![m] = c]
    BY <1>2 DEF ViewRoles, Becomes
  <2>. HIDE DEF c
  <2>5. ASSUME NEW u \in Usernames, c.id = account[u].id, account[u].id \notin bare \cup contested
        PROVE  Suits(c, account[u].roles)
    <3>1. chore[m].role \in account[u].roles
      BY <1>1, <2>3, <2>5 DEF RolesInHand, InHand, AtRest, Suits
    <3>2. account[u].roles = old \cup {chore[m].role}
      BY <2>1, <2>3, <2>5, <3>1
    <3>. QED
      BY <2>3, <3>1, <3>2 DEF Suits
  <2>. QED
    BY <1>1, <2>3, <2>4, <2>5, RequestGoesOn DEF About
<1>3. CASE ~Well(m, reply)
  <2>1. Ends(m)
    BY <1>3 DEF ViewRoles
  <2>. QED
    BY <1>1, <2>1, RequestEnds
<1>. QED
  BY <1>2, <1>3

LEMMA OldRoleGoes ==
  ASSUME UsersInv, NEW m \in Managers, NEW r \in AppRoles, NEW reply \in Replies, RemoveOld(m, r, reply)
  PROVE  UsersInv'
<1> USE DEF UsersInv
<1>1. /\ chore[m].at = "remove" /\ r \in chore[m].todo /\ UNCHANGED <<ids, bare, contested>>
      /\ chore[m] \in Changes /\ chore[m].id \in 1..ids /\ chore[m].id # 0 /\ About(m, chore[m].id)
      /\ bare \subseteq 1..ids /\ contested \subseteq 1..ids
  BY ChoreFacts DEF RemoveOld, UserTypes, About, ForARole
<1>2. ASSUME NEW u \in Usernames, account[u].id = chore[m].id, account[u].id \notin bare \cup contested
      PROVE  /\ chore[m].role \in account[u].roles \ {r}
             /\ account[u].roles \ {r} \subseteq (chore[m].todo \ {r}) \cup {chore[m].role}
  BY <1>1, <1>2 DEF RolesInHand, InHand, AtRest, Suits
<1>3. /\ account' \in [Usernames -> Accounts]
      /\ \A u \in Usernames :
           /\ account'[u].id = account[u].id
           /\ account[u].id # chore[m].id => account'[u].roles = account[u].roles
           /\ account[u].id = chore[m].id => account'[u].roles \in {account[u].roles, account[u].roles \ {r}}
           /\ account[u].id = chore[m].id /\ Well(m, reply) => account'[u].roles = account[u].roles \ {r}
  <2>1. CASE Took(m, reply)
    <3> DEFINE n == NameOf(chore[m].id)
               a == [account[n] EXCEPT !.roles = account[n].roles \ {r}]
    <3>1. /\ n \in Usernames /\ account[n].id = chore[m].id
          /\ \A u \in Usernames : account[u].id = chore[m].id => u = n
      BY <1>1, <2>1, NameFacts DEF Took
    <3>2. account' = [account EXCEPT ![n] = a]
      BY <2>1 DEF RemoveOld, Edited
    <3>3. account[n] \in Accounts
      BY <3>1 DEF UserTypes
    <3>4. a \in Accounts /\ a.id = account[n].id /\ a.roles = account[n].roles \ {r}
      BY <3>3 DEF Accounts
    <3>. HIDE DEF n, a
    <3>. QED
      BY <3>1, <3>2, <3>4 DEF UserTypes
  <2>2. CASE ~Took(m, reply)
    <3>1. account' = account /\ ~Well(m, reply)
      BY <2>2 DEF RemoveOld, Took, Well
    <3>. QED
      BY <3>1 DEF UserTypes
  <2>. QED
    BY <2>1, <2>2
<1>4. CASE Well(m, reply)
  <2> DEFINE left == chore[m].todo \ {r}
             c == [chore[m] EXCEPT !.at = IF left = {} THEN "reply" ELSE "remove", !.todo = left]
  <2>1. /\ c \in Chores /\ c.at = (IF left = {} THEN "reply" ELSE "remove") /\ c.id = chore[m].id
        /\ c.role = chore[m].role /\ c.todo = left
    BY <1>1 DEF Chores, Changes
  <2>2. chore' = [chore EXCEPT ![m] = c]
    BY <1>4 DEF RemoveOld, Becomes
  <2>. HIDE DEF c
  <2>3. ASSUME NEW u \in Usernames, account[u].id \notin bare \cup contested
        PROVE  /\ c.id = account[u].id => Suits(c, account'[u].roles)
               /\ account[u].roles # {} => account'[u].roles # {}
    <3>1. CASE account[u].id # chore[m].id
      BY <1>3, <2>1, <3>1
    <3>2. CASE account[u].id = chore[m].id
      <4>1. /\ chore[m].role \in account'[u].roles /\ account'[u].roles \subseteq left \cup {chore[m].role}
            /\ account'[u].roles = account[u].roles \ {r}
        BY <1>2, <1>3, <1>4, <2>3, <3>2
      <4>2. chore[m].role \notin left
        BY <1>1, <2>3, <3>2 DEF RolesInHand, InHand, AtRest, Suits
      <4>3. account'[u].roles = {chore[m].role} \/ left # {}
        BY <4>1
      <4>4. /\ c.role \in account'[u].roles /\ c.role \notin c.todo
            /\ account'[u].roles \subseteq c.todo \cup {c.role}
            /\ c.at = "reply" => account'[u].roles = {c.role}
        BY <2>1, <4>1, <4>2, <4>3
      <4>5. Suits(c, account'[u].roles)
        <5>. DEFINE roles == account'[u].roles
        <5>1. c.role \in roles /\ c.role \notin c.todo /\ roles \subseteq c.todo \cup {c.role}
              /\ (c.at = "reply" => roles = {c.role})
          BY <4>4
        <5>. HIDE DEF roles
        <5>2. Suits(c, roles)
          BY <5>1 DEF Suits
        <5>. QED
          BY <5>2 DEF roles
      <4>6. account'[u].roles # {}
        BY <4>1
      <4>. QED
        BY <4>5, <4>6
    <3>. QED
      BY <3>1, <3>2
  <2>8. About(m, c.id)
    BY <1>1, <2>1
  <2>9. \A u \in Usernames : account'[u].id # 0 =>
          /\ account'[u].id = account[u].id
          /\ account'[u].roles = account[u].roles \/ About(m, account[u].id)
          /\ account'[u].id \notin bare' \cup contested' =>
               /\ c.id = account[u].id => Suits(c, account'[u].roles)
               /\ account[u].roles # {} => account'[u].roles # {}
    BY <1>1, <1>3, <2>3 DEF About
  <2>. HIDE DEF left
  <2>10. chore[m].at \notin {"assign", "undo"} /\ c.at \notin {"assign", "undo"}
    BY <1>1, <2>1
  <2>. QED
    BY <1>1, <1>3, <2>1, <2>2, <2>8, <2>9, <2>10, RequestGoesOn
<1>5. CASE ~Well(m, reply)
  <2>1. chore' = [chore EXCEPT ![m] = NoChore]
    BY <1>5 DEF RemoveOld, Ends, Becomes
  <2>2. NoChore \in Chores /\ NoChore.at = "free" /\ \A roles : Suits(NoChore, roles)
    BY ChoreFacts, NoChoreFacts
  <2>3. ASSUME NEW u \in Usernames, account[u].id \notin bare \cup contested, account[u].roles # {}
        PROVE  account'[u].roles # {}
    BY <1>2, <1>3, <2>3
  <2>9. \A u \in Usernames : account'[u].id # 0 =>
          /\ account'[u].id = account[u].id
          /\ account'[u].roles = account[u].roles \/ About(m, account[u].id)
          /\ account'[u].id \notin bare' \cup contested' =>
               /\ NoChore.id = account[u].id => Suits(NoChore, account'[u].roles)
               /\ account[u].roles # {} => account'[u].roles # {}
    BY <1>1, <1>3, <2>2, <2>3 DEF About
  <2>. QED
    BY <1>1, <1>3, <2>1, <2>2, <2>9, RequestGoesOn DEF ForARole
<1>. QED
  BY <1>4, <1>5

LEMMA OtherRequestsGoOn ==
  ASSUME UsersInv, NEW m \in Managers, NEW reply \in Replies,
         RoleAnswered(m, reply) \/ (\E itself \in BOOLEAN : LookUp(m, itself, reply)) \/ Do(m, reply)
  PROVE  UsersInv'
<1> USE DEF UsersInv
<1>1. bare \subseteq 1..ids /\ contested \subseteq 1..ids /\ account \in [Usernames -> Accounts]
  BY DEF UserTypes
<1>2. CASE RoleAnswered(m, reply)
  BY <1>1, <1>2, RequestEnds DEF RoleAnswered
<1>3. ASSUME NEW itself \in BOOLEAN, LookUp(m, itself, reply) PROVE UsersInv'
  <2>1. chore[m].at \in {"enable", "disable", "delete"} /\ UNCHANGED <<account, ids, bare, contested>>
    BY <1>3 DEF LookUp
  <2>2. CASE Ends(m)
    BY <1>1, <2>1, <2>2, RequestEnds
  <2> DEFINE c == [at |-> "do", id |-> chore[m].id, what |-> chore[m].at]
  <2>3. CASE chore' = [chore EXCEPT ![m] = c]
    <3>1. c \in Chores /\ c.at = "do"
      BY <2>1, ChoreFacts DEF Chores, Looks, Dos
    <3>. HIDE DEF c
    <3>. QED
      BY <1>1, <2>1, <2>3, <3>1, SuitsAtOnce, RequestGoesOn DEF ForARole
  <2>. QED
    BY <1>3, <2>2, <2>3 DEF LookUp, Becomes
<1>4. CASE Do(m, reply)
  <2>1. /\ chore[m].at = "do" /\ chore[m] \in Dos /\ chore[m].id \in 1..ids /\ Ends(m)
        /\ UNCHANGED <<ids, bare, contested>>
    BY <1>4, ChoreFacts DEF Do, Dos
  <2>2. chore' = [chore EXCEPT ![m] = NoChore] /\ NoChore \in Chores /\ NoChore.at = "free"
        /\ \A roles : Suits(NoChore, roles)
    BY <2>1, ChoreFacts, NoChoreFacts DEF Ends, Becomes
  <2>3. /\ account' \in [Usernames -> Accounts]
        /\ \A u \in Usernames : account'[u].id # 0 =>
             account'[u].id = account[u].id /\ account'[u].roles = account[u].roles
    <3>1. CASE ~Took(m, reply)
      BY <1>1, <1>4, <3>1 DEF Do
    <3>2. CASE Took(m, reply) /\ chore[m].what = "delete"
      BY <1>4, <2>1, <3>2, AccountGoes DEF Do, Took, Edited
    <3>3. CASE Took(m, reply) /\ chore[m].what # "delete"
      <4> DEFINE n == NameOf(chore[m].id)
                 on == (chore[m].what = "enable")
                 a == [account[n] EXCEPT !.enabled = on]
      <4>1. n \in Usernames /\ account[n] \in Accounts
        BY <2>1, <3>3, NameFacts DEF Took, UserTypes
      <4>2. on \in BOOLEAN
        OBVIOUS
      <4>3. account' = [account EXCEPT ![n] = a]
        BY <1>4, <3>3 DEF Do, Edited
      <4>. HIDE DEF n, on
      <4>4. a \in Accounts /\ a.id = account[n].id /\ a.roles = account[n].roles
        BY <4>1, <4>2 DEF Accounts
      <4>. HIDE DEF a
      <4>. QED
        BY <1>1, <4>1, <4>3, <4>4
    <3>. QED
      BY <3>1, <3>2, <3>3
  <2>. QED
    BY <1>1, <2>1, <2>2, <2>3, RequestGoesOn DEF ForARole
<1>. QED
  BY <1>2, <1>3, <1>4

(* A user is created: nobody is about its id, and no other name has it.    *)
LEMMA UserIsPosted ==
  ASSUME UsersInv, NEW m \in Managers, NEW reply \in Replies, PostUser(m, reply)
  PROVE  UsersInv'
<1> USE DEF UsersInv
<1> DEFINE u == chore[m].name  new == ids + 1
<1>1. /\ chore[m].at = "post" /\ contested' = contested /\ chore[m] \in Posts /\ u \in Usernames
      /\ ids \in Nat /\ bare \subseteq 1..ids /\ contested \subseteq 1..ids
  BY ChoreFacts DEF PostUser, UserTypes, Posts
<1>2. CASE reply = "failed" \/ account[u] # NoAccount
  <2>1. Ends(m) /\ UNCHANGED <<account, ids, bare>>
    BY <1>2 DEF PostUser
  <2>. QED
    BY <1>1, <2>1, RequestEnds
<1>3. CASE reply # "failed" /\ account[u] = NoAccount
  <2> DEFINE a == [id |-> new, enabled |-> TRUE, roles |-> {}]
             c == IF reply = "ok" THEN [at |-> "assign", id |-> new, role |-> chore[m].role] ELSE NoChore
  <2>1. /\ account' = [account EXCEPT ![u] = a] /\ ids' = new /\ chore' = [chore EXCEPT ![m] = c]
        /\ bare' = (IF reply = "ok" THEN bare ELSE bare \cup {new})
    BY <1>3 DEF PostUser, Becomes, Ends
  <2>2. 1..ids \subseteq 1..ids' /\ 0..ids \subseteq 0..ids' /\ ids' \in Nat /\ new \in 1..ids' /\ new \notin 0..ids
        /\ bare' \subseteq 1..ids' /\ contested' \subseteq 1..ids'
    BY <1>1, <2>1
  <2>3. a \in Accounts' /\ a.id = new
    BY <2>2 DEF Accounts
  <2>4. \A x \in Accounts : x \in Accounts' /\ x.id # new
    BY <2>2 DEF Accounts
  <2>5. /\ c \in Chores' /\ c.at \in {"assign", "free"} /\ (c.at = "assign" <=> reply = "ok")
        /\ c.at = "assign" => c.id = new
    <3>1. CASE reply = "ok"
      <4>1. c \in Firsts'
        BY <1>1, <2>2, <3>1 DEF Firsts, Posts
      <4>. QED
        BY <3>1, <4>1 DEF Chores
    <3>2. CASE reply # "ok"
      BY <3>2 DEF Chores, NoChore
    <3>. QED
      BY <3>1, <3>2
  <2>6. \A x \in Chores : x \in Chores' /\ (x.at \in ForARole => x.id # new) /\ x.id # new
    <3>1. \A i \in 0..ids : i # new
      BY <2>2
    <3>2. \A x \in Chores : x.id \in 0..ids
      BY <1>1 DEF Chores, NoChore, Posts, Firsts, Changes, Looks, Dos
    <3>3. \A x \in Chores : x \in Chores'
      BY <2>2 DEF Chores, NoChore, Posts, Firsts, Changes, Looks, Dos
    <3>. QED
      BY <3>1, <3>2, <3>3
  <2>. HIDE DEF a, c, u, new
  <2>7. /\ account'[u] = a /\ \A v \in Usernames \ {u} : account'[v] = account[v] /\ account[v] \in Accounts
        /\ chore'[m] = c /\ \A o \in Managers \ {m} : chore'[o] = chore[o] /\ chore[o] \in Chores
    BY <1>1, <2>1 DEF UserTypes
  <2>8. UserTypes'
    <3>1. account' \in [Usernames -> Accounts']
      BY <2>1, <2>3, <2>4 DEF UserTypes
    <3>2. chore' \in [Managers -> Chores']
      BY <2>1, <2>5, <2>6 DEF UserTypes
    <3>. QED
      BY <2>2, <3>1, <3>2 DEF UserTypes
  <2>9. IdsDiffer'
    BY <2>3, <2>4, <2>7 DEF IdsDiffer
  <2>10. OneAtATime'
    <3>1. ASSUME NEW id \in 1..ids', id \notin contested', NEW o \in Managers, NEW q \in Managers,
                 About(o, id)', About(q, id)'
          PROVE  o = q
      <4>1. CASE id = new
        BY <2>6, <2>7, <3>1, <4>1 DEF About
      <4>2. CASE id # new
        <5>1. id \in 1..ids
          BY <1>1, <2>1, <3>1, <4>2 DEF new
        <5>2. o # m /\ q # m
          BY <2>5, <2>7, <3>1, <4>2 DEF About, ForARole
        <5>3. About(o, id) /\ About(q, id)
          BY <2>7, <3>1, <5>2 DEF About
        <5>. QED
          BY <1>1, <3>1, <5>1, <5>3 DEF OneAtATime
      <4>. QED
        BY <4>1, <4>2
    <3>. QED
      BY <3>1 DEF OneAtATime
  <2>11. ASSUME NEW v \in Usernames PROVE InHand(v)'
    <3>1. CASE v = u
      <4>1. CASE reply = "ok"
        <5>0. account'[v].id = new /\ c.id = new /\ c.at = "assign"
          BY <2>3, <2>5, <2>7, <3>1, <4>1
        <5>1. BeingMade(account[v].id)'
          BY <2>7, <5>0 DEF BeingMade
        <5>2. ASSUME NEW o \in Managers, chore'[o].id = new PROVE Suits(chore'[o], account'[v].roles)
          <6>1. o = m
            BY <2>6, <2>7, <5>2
          <6>2. chore'[o].at = "assign"
            BY <2>5, <2>7, <4>1, <6>1
          <6>. QED
            BY <6>2 DEF Suits
        <5>. QED
          BY <5>0, <5>1, <5>2 DEF InHand
      <4>2. CASE reply # "ok"
        <5>1. new \in bare'
          BY <2>1, <4>2
        <5>. QED
          BY <2>3, <2>7, <3>1, <5>1 DEF InHand, AtRest
      <4>. QED
        BY <4>1, <4>2
    <3>2. CASE v # u
      <4> DEFINE id == account[v].id
      <4>1. account'[v] = account[v] /\ id # new /\ InHand(v)
        BY <2>4, <2>7, <3>2 DEF RolesInHand
      <4>2. SUFFICES ASSUME AtRest(account[v].id)' PROVE /\ BeingMade(id)' \/ account'[v].roles # {}
                                           /\ \A o \in Managers : chore'[o].id = id => Suits(chore'[o], account'[v].roles)
        BY <4>1, <4>2 DEF InHand
      <4>3. AtRest(id)
        BY <1>1, <2>1, <4>1, <4>2 DEF AtRest
      <4>4. BeingMade(id) => BeingMade(id)'
        <5>1. ASSUME NEW o \in Managers, chore[o].at \in {"assign", "undo"}, chore[o].id = id
              PROVE  chore'[o] = chore[o]
          BY <1>1, <2>7, <5>1
        <5>. QED
          BY <4>1, <5>1 DEF BeingMade
      <4>5. ASSUME NEW o \in Managers, chore'[o].id = id PROVE Suits(chore'[o], account'[v].roles)
        <5>1. CASE o = m
          BY <2>5, <2>7, <5>1 DEF Suits
        <5>2. CASE o # m
          BY <2>7, <4>1, <4>3, <4>5, <5>2 DEF InHand
        <5>. QED
          BY <5>1, <5>2
      <4>. QED
        BY <4>1, <4>3, <4>4, <4>5 DEF InHand
    <3>. QED
      BY <3>1, <3>2
  <2>. QED
    BY <2>8, <2>9, <2>10, <2>11 DEF RolesInHand
<1>. QED
  BY <1>2, <1>3

LEMMA UsersInvInit == UsersInit => UsersInv
<1>. SUFFICES ASSUME UsersInit PROVE UsersInv
  OBVIOUS
<1>1. \A u \in Usernames : account[u].id = 0
  BY DEF UsersInit, NoAccount
<1>2. \A m \in Managers : chore[m].at = "free"
  BY DEF UsersInit, NoChore
<1>3. UserTypes
  BY DEF UsersInit, UserTypes, NoAccount, NoChore, Accounts, Chores
<1>. QED
  BY <1>1, <1>2, <1>3 DEF UsersInv, IdsDiffer, OneAtATime, About, ForARole, RolesInHand, InHand, AtRest

LEMMA UsersInvNext == UsersInv /\ [UsersNext]_userVars => UsersInv'
<1>. SUFFICES ASSUME UsersInv, [UsersNext]_userVars PROVE UsersInv'
  OBVIOUS
<1>1. CASE UNCHANGED userVars
  BY <1>1 DEF userVars, UsersInv, UserTypes, IdsDiffer, OneAtATime, RolesInHand, InHand, AtRest, About,
              BeingMade, Accounts, Chores, Posts, Firsts, Changes, Looks, Dos
<1>2. ASSUME NEW m \in Managers, CreateUser(m) \/ ChangeRole(m) \/ ToggleOrDelete(m) PROVE UsersInv'
  BY <1>2, RequestsStart
<1>3. ASSUME NEW m \in Managers, NEW reply \in Replies,
             \/ PostUser(m, reply) \/ AssignFirst(m, reply) \/ UndoUser(m, reply)
             \/ AssignNew(m, reply) \/ ViewRoles(m, reply) \/ (\E r \in AppRoles : RemoveOld(m, r, reply))
             \/ RoleAnswered(m, reply) \/ Do(m, reply) \/ \E itself \in BOOLEAN : LookUp(m, itself, reply)
      PROVE  UsersInv'
  BY <1>3, UserIsPosted, FirstRoleIsAssigned, UserIsUndone, NewRoleIsAssigned, RolesAreViewed, OldRoleGoes,
     OtherRequestsGoOn
<1>. QED
  BY <1>1, <1>2, <1>3 DEF UsersNext

LEMMA InHandIsKept == UsersInv => UsersKeepARole
<1>. SUFFICES ASSUME UsersInv, NEW u \in Usernames, account[u].id # 0, ~BeingMade(account[u].id),
                     account[u].id \notin bare \cup contested
              PROVE  /\ account[u].roles # {}
                     /\ \A m \in Managers : chore[m].at = "reply" /\ chore[m].id = account[u].id =>
                          account[u].roles = {chore[m].role}
  BY DEF UsersKeepARole
<1>. QED
  BY DEF UsersInv, RolesInHand, InHand, AtRest, Suits

(* Whoever is in Keycloak can sign in under some role, however many        *)
(* requests run side by side and whichever of their calls fail; a change   *)
(* nobody contested leaves exactly the role it was asked for.              *)
THEOREM UsersAlwaysKeepARole == UsersSpec => []UsersKeepARole
BY UsersInvInit, UsersInvNext, InHandIsKept, PTL DEF UsersSpec

-------------------------------------------------------------------------------
(***************************************************************************)
(* The sessions at Bifrost.                                                *)
(***************************************************************************)
Keys == {FirstKey} \cup LaterKeys
SessionRows == [token : Tokens, key : Keys, due : BOOLEAN]
Handoffs == [at : {"record", "code", "drop"}, in : Sites] \cup {Ended}

SessionTypes ==
  /\ session \in [Tokens -> {"none", "valid", "over"}]
  /\ handoff \in [Tokens -> Handoffs]
  /\ recorded \subseteq SessionRows
  /\ codes \in [Sites -> Seq(Tokens)] /\ browsers \in [Tokens -> 0..2]
  /\ purge \in [Sites -> [on : BOOLEAN, todo : SUBSET SessionRows, gone : SUBSET SessionRows]]
  /\ secret \in [Sites -> Keys]

(* A session goes one way: it is obtained, recorded, waits under one code, *)
(* and is fetched by one browser.                                          *)
Distinct(queue) == \A i, j \in 1..Len(queue) : queue[i] = queue[j] => i = j
Waiting(t) == \E c \in Sites : Contains(codes[c], t)
OneWay ==
  /\ \A c \in Sites : Distinct(codes[c])
  /\ \A t \in Tokens, c, o \in Sites : Contains(codes[c], t) /\ Contains(codes[o], t) => c = o
  /\ \A t \in Tokens :
       /\ Waiting(t) \/ handoff[t] # Ended => browsers[t] = 0 /\ session[t] # "none"
       /\ Waiting(t) => handoff[t] = Ended
       /\ browsers[t] = 1 => session[t] # "none"
       /\ browsers[t] # 2

(* What a pass is about to delete is over, or was written under another key. *)
PurgesAreSafe ==
  \A c \in Sites : \A row \in purge[c].gone : session[row.token] = "over" \/ row.key # secret[c]

OnRecord ==
  \A t \in Tokens :
    (handoff[t].at = "code" \/ Offered(t)) /\ session[t] = "valid" /\ t \notin unreadable =>
      \E row \in recorded : row.token = t

SessionsInv == SessionTypes /\ OneWay /\ PurgesAreSafe /\ OnRecord

-------------------------------------------------------------------------------
LEMMA PendingFacts == MaxPending \in Nat /\ MaxPending > 0
BY SessionsAssumption

(* A code is redeemed or expires: the others stay in their order. *)
LEMMA CodeIsSpent ==
  ASSUME NEW q \in Seq(Tokens), NEW t \in Tokens, Distinct(q), Contains(q, t)
  PROVE  /\ RemoveFirst(q, t) \in Seq(Tokens) /\ Distinct(RemoveFirst(q, t))
         /\ \A u : Contains(RemoveFirst(q, t), u) <=> Contains(q, u) /\ u # t
<1>1. PICK i \in 1..Len(q) : q[i] = t
  BY DEF Contains
<1>2. {j \in 1..Len(q) : q[j] = t} = {i}
  BY <1>1 DEF Distinct
<1>3. Min({i}) = i
  BY <1>1 DEF Min
<1>4. SelectInSeq(q, LAMBDA v : v = t) = i
  BY <1>2, <1>3 DEF SelectInSeq
<1> DEFINE a == SubSeq(q, 1, i - 1)
           b == SubSeq(q, i + 1, Len(q))
           r == a \o b
<1>5. RemoveFirst(q, t) = r
  BY <1>1, <1>4 DEF RemoveFirst, RemoveAt
<1>6. /\ a \in Seq(Tokens) /\ Len(a) = i - 1 /\ \A j \in 1..(i - 1) : a[j] = q[j]
  <2>1. \A j \in 1..(i - 1) : q[j] \in Tokens
    BY <1>1
  <2>2. a \in Seq(Tokens) /\ Len(a) = (IF 1 <= i - 1 THEN i - 1 - 1 + 1 ELSE 0)
        /\ \A j \in 1..(i - 1 - 1 + 1) : a[j] = q[1 + j - 1]
    BY <1>1, <2>1, SubSeqProperties
  <2>. QED
    BY <1>1, <2>2
<1>7. /\ b \in Seq(Tokens) /\ Len(b) = Len(q) - i /\ \A j \in 1..(Len(q) - i) : b[j] = q[i + j]
  <2>1. \A j \in (i + 1)..Len(q) : q[j] \in Tokens
    BY <1>1
  <2>2. b \in Seq(Tokens) /\ Len(b) = (IF i + 1 <= Len(q) THEN Len(q) - (i + 1) + 1 ELSE 0)
        /\ \A j \in 1..(Len(q) - (i + 1) + 1) : b[j] = q[(i + 1) + j - 1]
    BY <1>1, <2>1, SubSeqProperties
  <2>. QED
    BY <1>1, <2>2
<1>. HIDE DEF a, b
<1>8. /\ r \in Seq(Tokens) /\ Len(r) = Len(q) - 1
      /\ \A j \in 1..(Len(q) - 1) : r[j] = IF j < i THEN q[j] ELSE q[j + 1]
  <2>1. /\ r \in Seq(Tokens) /\ Len(r) = Len(a) + Len(b)
        /\ \A j \in 1..(Len(a) + Len(b)) : r[j] = IF j <= Len(a) THEN a[j] ELSE b[j - Len(a)]
    BY <1>6, <1>7, ConcatProperties
  <2>2. ASSUME NEW j \in 1..(Len(q) - 1), j >= i PROVE b[j - (i - 1)] = q[j + 1]
    BY <1>1, <1>7, <2>2
  <2>. QED
    BY <1>1, <1>6, <1>7, <2>1, <2>2
<1>. HIDE DEF r
<1>9. Distinct(r)
  BY <1>1, <1>8 DEF Distinct
<1>10. ASSUME NEW u PROVE Contains(r, u) <=> Contains(q, u) /\ u # t
  <2>1. ASSUME Contains(r, u) PROVE Contains(q, u) /\ u # t
    <3>1. PICK j \in 1..(Len(q) - 1) : r[j] = u
      BY <1>8, <2>1 DEF Contains
    <3>2. PICK k \in 1..Len(q) : k # i /\ q[k] = u
      <4>1. CASE j < i
        BY <1>1, <1>8, <3>1, <4>1
      <4>2. CASE ~(j < i)
        <5>1. j + 1 \in 1..Len(q) /\ j + 1 # i /\ q[j + 1] = u
          BY <1>1, <1>8, <3>1, <4>2
        <5>. QED
          BY <5>1
      <4>. QED
        BY <4>1, <4>2
    <3>. QED
      BY <1>1, <3>2 DEF Contains, Distinct
  <2>2. ASSUME Contains(q, u), u # t PROVE Contains(r, u)
    <3>1. PICK k \in 1..Len(q) : q[k] = u /\ k # i
      BY <1>1, <2>2 DEF Contains
    <3>2. PICK j \in 1..(Len(q) - 1) : k = (IF j < i THEN j ELSE j + 1)
      <4>1. CASE k < i
        BY <1>1, <3>1, <4>1
      <4>2. CASE k > i
        <5>1. k - 1 \in 1..(Len(q) - 1) /\ k - 1 >= i /\ (k - 1) + 1 = k
          BY <1>1, <3>1, <4>2
        <5>2. k = (IF k - 1 < i THEN k - 1 ELSE (k - 1) + 1)
          BY <1>1, <5>1
        <5>. QED
          BY <5>1, <5>2
      <4>. QED
        BY <1>1, <3>1, <4>1, <4>2
    <3>. QED
      BY <1>8, <3>1, <3>2 DEF Contains
  <2>. QED
    BY <2>1, <2>2
<1>. QED
  BY <1>5, <1>8, <1>9, <1>10

(* Room is made for a new code by dropping the oldest ones. *)
LEMMA CodeIsAdded ==
  ASSUME NEW q \in Seq(Tokens), NEW t \in Tokens, Distinct(q), ~Contains(q, t)
  PROVE  /\ Append(Room(q), t) \in Seq(Tokens) /\ Distinct(Append(Room(q), t))
         /\ \A u : Contains(Append(Room(q), t), u) => u = t \/ Contains(q, u)
<1>1. PICK skip \in Nat :
        /\ Room(q) \in Seq(Tokens) /\ Len(Room(q)) + skip <= Len(q)
        /\ \A i \in 1..Len(Room(q)) : Room(q)[i] = q[i + skip]
  <2>1. CASE Len(q) < MaxPending
    <3>1. Room(q) = q
      BY <2>1 DEF Room
    <3>2. Len(q) + 0 <= Len(q) /\ 0 \in Nat /\ \A i \in 1..Len(q) : q[i] = q[i + 0]
      OBVIOUS
    <3>. QED
      BY <3>1, <3>2
  <2>2. CASE ~(Len(q) < MaxPending)
    <3> DEFINE first == Len(q) - MaxPending + 2
    <3>1. Room(q) = SubSeq(q, first, Len(q))
      BY <2>2 DEF Room
    <3>2. first \in Int /\ first >= 2 /\ \A i \in first..Len(q) : q[i] \in Tokens
      BY <2>2, PendingFacts
    <3>. HIDE DEF first
    <3>3. /\ Room(q) \in Seq(Tokens)
          /\ Len(Room(q)) = (IF first <= Len(q) THEN Len(q) - first + 1 ELSE 0)
          /\ \A i \in 1..(Len(q) - first + 1) : Room(q)[i] = q[first + i - 1]
      BY <3>1, <3>2, SubSeqProperties
    <3>4. CASE first <= Len(q)
      <4>1. first - 1 \in Nat /\ Len(Room(q)) + (first - 1) <= Len(q)
        BY <3>2, <3>3, <3>4
      <4>2. \A i \in 1..Len(Room(q)) : Room(q)[i] = q[i + (first - 1)]
        BY <3>2, <3>3, <3>4
      <4>. QED
        BY <3>3, <4>1, <4>2
    <3>5. CASE first > Len(q)
      <4>1. Len(Room(q)) = 0 /\ 0 \in Nat
        BY <3>2, <3>3, <3>5
      <4>. QED
        BY <3>3, <4>1
    <3>. QED
      BY <3>2, <3>4, <3>5
  <2>. QED
    BY <2>1, <2>2
<1> DEFINE r == Append(Room(q), t)
<1>2. /\ r \in Seq(Tokens) /\ Len(r) = Len(Room(q)) + 1
      /\ \A i \in 1..Len(Room(q)) : r[i] = Room(q)[i]
      /\ r[Len(Room(q)) + 1] = t
  BY <1>1, AppendProperties
<1>. HIDE DEF r
<1>3. ASSUME NEW i \in 1..Len(r)
      PROVE  \/ i = Len(r) /\ r[i] = t
             \/ i < Len(r) /\ i + skip \in 1..Len(q) /\ r[i] = q[i + skip]
  BY <1>1, <1>2
<1>4. Distinct(r)
  <2>1. ASSUME NEW i \in 1..Len(r), NEW j \in 1..Len(r), r[i] = r[j] PROVE i = j
    <3>1. ASSUME NEW k \in 1..Len(r), k < Len(r) PROVE r[k] # t /\ k + skip \in 1..Len(q) /\ r[k] = q[k + skip]
      BY <1>3, <3>1 DEF Contains
    <3>2. r[Len(r)] = t
      BY <1>2
    <3>3. CASE i < Len(r) /\ j < Len(r)
      <4>1. i + skip = j + skip
        BY <2>1, <3>1, <3>3 DEF Distinct
      <4>. QED
        BY <1>1, <4>1
    <3>. QED
      BY <1>2, <2>1, <3>1, <3>2, <3>3
  <2>. QED
    BY <2>1 DEF Distinct
<1>5. \A u : Contains(r, u) => u = t \/ Contains(q, u)
  BY <1>3 DEF Contains
<1>. QED
  BY <1>2, <1>4, <1>5 DEF r

LEMMA NoCodes == <<>> \in Seq(Tokens) /\ Distinct(<<>>) /\ \A u : ~Contains(<<>>, u)
BY DEF Distinct, Contains

LEMMA HandoffFacts ==
  ASSUME SessionTypes, NEW t \in Tokens
  PROVE  /\ handoff[t] \in Handoffs /\ Ended \in Handoffs /\ Ended.at = "ended"
         /\ handoff[t].at \in {"record", "code", "drop"} => handoff[t].in \in Sites /\ handoff[t] # Ended
         /\ handoff[t].at \in {"record", "code", "drop", "ended"}
         /\ handoff[t].at = "ended" <=> handoff[t] = Ended
BY DEF SessionTypes, Handoffs, Ended

(* A session that is over stays so, and the passes go on as they were. *)
LEMMA PassesStaySafe ==
  ASSUME SessionTypes, PurgesAreSafe, UNCHANGED <<purge, secret>>,
         \A t \in Tokens : session[t] = "over" => session'[t] = "over"
  PROVE  PurgesAreSafe'
BY DEF SessionTypes, PurgesAreSafe, SessionRows

(* One token moves on, and the others keep what they have. *)
LEMMA OthersKeepTheirs ==
  ASSUME SessionsInv, NEW t \in Tokens,
         \A u \in Tokens : u # t => /\ handoff'[u] = handoff[u] /\ browsers'[u] = browsers[u]
                                   /\ session'[u] = session[u]
                                   /\ \A c \in Sites : Contains(codes'[c], u) => Contains(codes[c], u),
         \A c \in Sites : Distinct(codes'[c]),
         \A c, o \in Sites : Contains(codes'[c], t) /\ Contains(codes'[o], t) => c = o,
         Waiting(t)' \/ handoff'[t] # Ended => browsers'[t] = 0 /\ session'[t] # "none",
         Waiting(t)' => handoff'[t] = Ended,
         browsers'[t] = 1 => session'[t] # "none",
         browsers'[t] # 2
  PROVE  OneWay'
BY DEF SessionsInv, OneWay, Waiting

LEMMA RecordsStay ==
  ASSUME SessionsInv, NEW t \in Tokens,
         \A u \in Tokens : u # t => /\ handoff'[u] = handoff[u] /\ browsers'[u] = browsers[u]
                                   /\ session'[u] = session[u]
                                   /\ \A c \in Sites : Contains(codes'[c], u) => Contains(codes[c], u),
         recorded \subseteq recorded', unreadable' = unreadable,
         (handoff'[t].at = "code" \/ Offered(t)') /\ session'[t] = "valid" /\ t \notin unreadable =>
           \E row \in recorded' : row.token = t
  PROVE  OnRecord'
BY DEF SessionsInv, OnRecord, Offered

LEMMA SomebodySignsIn ==
  ASSUME SessionsInv, NEW t \in Tokens, NEW c \in Sites, NEW outcome \in Outcomes, SignIn(t, c, outcome)
  PROVE  SessionsInv'
<1> USE DEF SessionsInv
<1>1. /\ session[t] = "none" /\ session' = [session EXCEPT ![t] = "valid"]
      /\ UNCHANGED <<recorded, codes, browsers, purge, secret, unreadable>>
  BY DEF SignIn, loop
<1>2. PICK h \in {[at |-> "record", in |-> c], Ended} : handoff' = [handoff EXCEPT ![t] = h]
  BY DEF SignIn
<1>3. h \in Handoffs /\ h.at # "code"
  BY <1>2, HandoffFacts DEF Handoffs
<1>4. SessionTypes'
  BY <1>1, <1>2, <1>3 DEF SessionTypes
<1>5. ~Waiting(t) /\ browsers[t] # 1 /\ browsers[t] # 2 /\ browsers[t] \in 0..2
  BY <1>1 DEF OneWay, SessionTypes
<1>6. /\ handoff'[t] = h /\ session'[t] = "valid" /\ browsers'[t] = 0
      /\ \A u \in Tokens : u # t => handoff'[u] = handoff[u] /\ session'[u] = session[u]
  BY <1>1, <1>2, <1>5 DEF SessionTypes
<1>7. ~Waiting(t)' /\ ~Offered(t)'
  BY <1>1, <1>5, <1>6 DEF Waiting, Offered
<1>8. OneWay'
  BY <1>1, <1>6, <1>7, OthersKeepTheirs DEF OneWay, Waiting
<1>9. PurgesAreSafe'
  BY <1>1, <1>6, PassesStaySafe
<1>10. OnRecord'
  BY <1>1, <1>3, <1>6, <1>7, RecordsStay
<1>. QED
  BY <1>4, <1>8, <1>9, <1>10

(* What was recorded may be handed out. *)
LEMMA HandoffGoesOn ==
  ASSUME SessionsInv, NEW t \in Tokens, NEW outcome \in Outcomes,
         Record(t, outcome) \/ LogOutUnrecorded(t, outcome) \/ MakeCode(t)
  PROVE  SessionsInv'
<1> USE DEF SessionsInv
<1>1. /\ handoff[t].at \in {"record", "drop", "code"} /\ handoff[t].in \in Sites
      /\ UNCHANGED <<browsers, purge, secret, unreadable>>
  BY HandoffFacts DEF Record, LogOutUnrecorded, MakeCode, loop
<1>2. /\ browsers[t] = 0 /\ session[t] # "none" /\ ~Waiting(t) /\ ~Offered(t)
  BY <1>1, HandoffFacts DEF OneWay, Offered, Waiting
<1>3. CASE Record(t, outcome)
  <2>1. PICK at \in {"code", "drop"} :
          /\ handoff' = [handoff EXCEPT ![t].at = at] /\ UNCHANGED <<session, codes>>
          /\ at = "code" <=> outcome = "ok"
    BY <1>3 DEF Record, AfterRecord
  <2>2. PICK row \in SessionRows :
          /\ row.token = t
          /\ recorded' = IF outcome = "failed" THEN recorded ELSE recorded \cup {row}
    <3>1. [token |-> t, key |-> secret[handoff[t].in], due |-> FALSE] \in SessionRows
      BY <1>1 DEF SessionRows, SessionTypes
    <3>. QED
      BY <1>3, <3>1 DEF Record
  <2>3. SessionTypes' /\ handoff'[t].at = at /\ handoff'[t] # Ended
        /\ \A u \in Tokens : u # t => handoff'[u] = handoff[u]
    <3>1. handoff[t] \in [at : {"record", "code", "drop"}, in : Sites]
      BY <1>1, HandoffFacts DEF Handoffs
    <3>2. [handoff[t] EXCEPT !.at = at] \in [at : {"record", "code", "drop"}, in : Sites]
      BY <3>1
    <3>3. /\ handoff' \in [Tokens -> Handoffs] /\ handoff'[t].at = at
          /\ \A u \in Tokens : u # t => handoff'[u] = handoff[u]
      BY <2>1, <3>1, <3>2 DEF SessionTypes, Handoffs
    <3>. QED
      BY <1>1, <2>1, <2>2, <3>3 DEF SessionTypes, Ended
  <2>4. ~Waiting(t)' /\ ~Offered(t)'
    BY <1>1, <1>2, <2>1 DEF Waiting, Offered
  <2>5. OneWay'
    BY <1>1, <1>2, <2>1, <2>3, <2>4, OthersKeepTheirs DEF OneWay, Waiting
  <2>6. PurgesAreSafe'
    BY <1>1, <2>1, PassesStaySafe
  <2>7. OnRecord'
    <3>1. recorded \subseteq recorded' /\ (outcome = "ok" => row \in recorded')
      BY <2>2
    <3>. QED
      BY <1>1, <2>1, <2>2, <2>3, <2>4, <3>1, RecordsStay
  <2>. QED
    BY <2>3, <2>5, <2>6, <2>7
<1>4. CASE LogOutUnrecorded(t, outcome)
  <2>1. /\ handoff' = [handoff EXCEPT ![t] = Ended] /\ UNCHANGED <<recorded, codes>>
        /\ session' = session \/ session' = [session EXCEPT ![t] = "over"]
    BY <1>4 DEF LogOutUnrecorded
  <2>2. SessionTypes'
    BY <1>1, <2>1, HandoffFacts DEF SessionTypes
  <2>3. /\ handoff'[t] = Ended /\ session'[t] # "none"
        /\ \A u \in Tokens : u # t => handoff'[u] = handoff[u] /\ session'[u] = session[u]
        /\ \A u \in Tokens : session[u] = "over" => session'[u] = "over"
    BY <1>2, <2>1 DEF SessionTypes
  <2>4. ~Waiting(t)' /\ ~Offered(t)'
    BY <1>1, <1>2, <2>1 DEF Waiting, Offered
  <2>5. OneWay'
    BY <1>1, <1>2, <2>1, <2>3, <2>4, OthersKeepTheirs DEF OneWay, Waiting
  <2>6. PurgesAreSafe'
    BY <1>1, <2>3, PassesStaySafe
  <2>7. OnRecord'
    BY <1>1, <2>1, <2>3, <2>4, HandoffFacts, RecordsStay
  <2>. QED
    BY <2>2, <2>5, <2>6, <2>7
<1>5. CASE MakeCode(t)
  <2> DEFINE c == handoff[t].in
             queue == Append(Room(codes[c]), t)
  <2>1. /\ handoff[t].at = "code" /\ handoff' = [handoff EXCEPT ![t] = Ended]
        /\ codes' = [codes EXCEPT ![c] = queue] /\ UNCHANGED <<session, recorded>>
    BY <1>5 DEF MakeCode
  <2>2. codes[c] \in Seq(Tokens) /\ Distinct(codes[c]) /\ ~Contains(codes[c], t)
    BY <1>1, <1>2 DEF SessionTypes, OneWay, Waiting
  <2>3. queue \in Seq(Tokens) /\ Distinct(queue) /\ \A u : Contains(queue, u) => u = t \/ Contains(codes[c], u)
    BY <2>2, CodeIsAdded
  <2>4. c \in Sites
    BY <1>1
  <2>. HIDE DEF c, queue
  <2>5. SessionTypes' /\ codes'[c] = queue /\ \A o \in Sites : o # c => codes'[o] = codes[o]
    BY <1>1, <2>1, <2>3, <2>4, HandoffFacts DEF SessionTypes
  <2>6. handoff'[t] = Ended /\ \A u \in Tokens : u # t => handoff'[u] = handoff[u]
    BY <2>1 DEF SessionTypes
  <2>7. \A o \in Sites : /\ Distinct(codes'[o]) /\ (Contains(codes'[o], t) => o = c)
                         /\ \A u \in Tokens : u # t /\ Contains(codes'[o], u) => Contains(codes[o], u)
    BY <1>2, <2>3, <2>5 DEF OneWay, Waiting
  <2>8. OneWay'
    BY <1>1, <1>2, <2>1, <2>6, <2>7, OthersKeepTheirs
  <2>9. PurgesAreSafe'
    BY <1>1, <2>1, PassesStaySafe
  <2>10. session[t] = "valid" /\ t \notin unreadable => \E row \in recorded : row.token = t
    BY <2>1 DEF OnRecord
  <2>11. OnRecord'
    BY <1>1, <2>1, <2>6, <2>7, <2>10, RecordsStay
  <2>. QED
    BY <2>5, <2>8, <2>9, <2>11
<1>. QED
  BY <1>3, <1>4, <1>5

(* A code is redeemed once, or not at all. *)
LEMMA CodesGo ==
  ASSUME SessionsInv, NEW t \in Tokens, NEW c \in Sites, Redeem(t, c) \/ CodeExpires(t, c)
  PROVE  SessionsInv'
<1> USE DEF SessionsInv
<1> DEFINE queue == RemoveFirst(codes[c], t)
<1>1. /\ Contains(codes[c], t) /\ codes' = [codes EXCEPT ![c] = queue]
      /\ UNCHANGED <<session, handoff, recorded, purge, secret, unreadable>>
  BY DEF Redeem, CodeExpires, Spent, loop
<1>2. Waiting(t) /\ browsers[t] = 0 /\ handoff[t] = Ended /\ session[t] # "none"
  BY <1>1 DEF Waiting, OneWay
<1>3. browsers' = browsers \/ browsers' = [browsers EXCEPT ![t] = 1]
  BY <1>2 DEF Redeem, CodeExpires
<1>4. queue \in Seq(Tokens) /\ Distinct(queue) /\ \A u : Contains(queue, u) <=> Contains(codes[c], u) /\ u # t
  BY <1>1, CodeIsSpent DEF SessionTypes, OneWay
<1>. HIDE DEF queue
<1>5. /\ SessionTypes' /\ codes'[c] = queue /\ \A o \in Sites : o # c => codes'[o] = codes[o]
  <2>1. browsers' \in [Tokens -> 0..2]
    <3>1. browsers \in [Tokens -> 0..2] /\ 1 \in 0..2
      BY DEF SessionTypes
    <3>. QED
      BY <1>3, <3>1
  <2>2. codes' \in [Sites -> Seq(Tokens)] /\ codes'[c] = queue /\ \A o \in Sites : o # c => codes'[o] = codes[o]
    BY <1>1, <1>4 DEF SessionTypes
  <2>. QED
    BY <1>1, <2>1, <2>2 DEF SessionTypes
<1>6. /\ browsers'[t] \in {0, 1} /\ \A u \in Tokens : u # t => browsers'[u] = browsers[u]
  BY <1>2, <1>3 DEF SessionTypes
<1>7. \A o \in Sites : /\ Distinct(codes'[o]) /\ ~Contains(codes'[o], t)
                       /\ \A u \in Tokens : Contains(codes'[o], u) => Contains(codes[o], u)
  <2>1. \A o \in Sites : Contains(codes[o], t) => o = c
    BY <1>1 DEF OneWay
  <2>. QED
    BY <1>4, <1>5, <2>1 DEF OneWay
<1>8. OneWay'
  BY <1>1, <1>2, <1>6, <1>7, OthersKeepTheirs DEF Waiting
<1>9. PurgesAreSafe'
  BY <1>1, PassesStaySafe
<1>10. session[t] = "valid" /\ t \notin unreadable => \E row \in recorded : row.token = t
  BY <1>1 DEF OnRecord, Offered
<1>11. OnRecord'
  BY <1>1, <1>6, <1>7, <1>10, RecordsStay
<1>. QED
  BY <1>5, <1>8, <1>9, <1>11

(* The day of a row comes. *)
LEMMA RowsFallDue ==
  ASSUME SessionsInv, NEW row \in recorded, RowFallsDue(row)
  PROVE  SessionsInv'
<1> USE DEF SessionsInv
<1>1. /\ recorded' = (recorded \ {row}) \cup {[row EXCEPT !.due = TRUE]}
      /\ UNCHANGED <<session, handoff, codes, browsers, purge, secret, unreadable>>
  BY DEF RowFallsDue, loop
<1>2. row \in SessionRows /\ [row EXCEPT !.due = TRUE] \in SessionRows
      /\ [row EXCEPT !.due = TRUE].token = row.token
  BY DEF SessionTypes, SessionRows
<1>3. SessionTypes' /\ OneWay' /\ PurgesAreSafe'
  BY <1>1, <1>2 DEF SessionTypes, OneWay, Waiting, PurgesAreSafe
<1>4. ASSUME NEW r \in recorded PROVE \E q \in recorded' : q.token = r.token
  <2>. DEFINE later == [row EXCEPT !.due = TRUE]
  <2>1. later \in recorded' /\ later.token = row.token
    BY <1>1, <1>2
  <2>. HIDE DEF later
  <2>2. CASE r = row
    BY <2>1, <2>2
  <2>3. CASE r # row
    BY <1>1, <2>3
  <2>. QED
    BY <2>2, <2>3
<1>5. OnRecord'
  <2>1. ASSUME NEW t \in Tokens, \E r \in recorded : r.token = t PROVE \E q \in recorded' : q.token = t
    BY <1>4, <2>1
  <2>. QED
    BY <1>1, <2>1 DEF OnRecord, Offered
<1>. QED
  BY <1>3, <1>5

(* Sessions end, one by one. *)
LEMMA OverIsOver ==
  ASSUME SessionsInv, UNCHANGED <<handoff, recorded, codes, browsers, secret, unreadable>>,
         session' = session \/ \E t \in Tokens : session' = [session EXCEPT ![t] = "over"]
  PROVE  /\ session' \in [Tokens -> {"none", "valid", "over"}] /\ OneWay' /\ OnRecord'
         /\ \A t \in Tokens : session[t] = "over" => session'[t] = "over"
<1> USE DEF SessionsInv
<1>1. /\ session' \in [Tokens -> {"none", "valid", "over"}]
      /\ \A t \in Tokens :
           /\ session[t] # "none" => session'[t] # "none"
           /\ session[t] = "over" => session'[t] = "over"
           /\ session'[t] = "valid" => session[t] = "valid"
  BY DEF SessionTypes
<1>2. OneWay'
  BY <1>1 DEF OneWay, Waiting
<1>3. OnRecord'
  BY <1>1 DEF OnRecord, Offered
<1>. QED
  BY <1>1, <1>2, <1>3

LEMMA AdministratorsLogOut ==
  ASSUME SessionsInv, NEW t \in Tokens, LogsOutAlone(t)
  PROVE  SessionsInv'
<1>1. UNCHANGED <<handoff, recorded, codes, browsers, secret, purge, unreadable>>
  BY DEF LogsOutAlone, handoffs
<1>2. session' = [session EXCEPT ![t] = "over"]
  BY DEF LogsOutAlone
<1>3. /\ session' \in [Tokens -> {"none", "valid", "over"}] /\ OneWay' /\ OnRecord'
      /\ \A u \in Tokens : session[u] = "over" => session'[u] = "over"
  BY <1>1, <1>2, OverIsOver
<1>4. PurgesAreSafe'
  BY <1>1, <1>3, PassesStaySafe DEF SessionsInv
<1>. QED
  BY <1>1, <1>3, <1>4 DEF SessionsInv, SessionTypes

(* A pass deletes the rows of sessions that are over. *)
LEMMA PassesGoOn ==
  ASSUME SessionsInv, NEW c \in Sites,
         \/ StartPurge(c)
         \/ \E row \in purge[c].todo, reached \in BOOLEAN, outcome \in {"ok", "lost"} : PurgeRow(c, row, reached, outcome)
         \/ \E outcome \in Outcomes : EndPurge(c, outcome)
  PROVE  SessionsInv'
<1> USE DEF SessionsInv
<1> DEFINE Pass == [on : BOOLEAN, todo : SUBSET SessionRows, gone : SUBSET SessionRows]
<1>1. purge[c] \in Pass /\ purge[c].gone \subseteq SessionRows
  BY DEF SessionTypes
<1>2. UNCHANGED <<handoff, codes, browsers, secret>>
  BY DEF StartPurge, PurgeRow, EndPurge, handoffs
<1>3. ASSUME NEW p \in Pass, purge' = [purge EXCEPT ![c] = p]
      PROVE  /\ purge' \in [Sites -> Pass] /\ purge'[c] = p
             /\ \A o \in Sites : o # c => purge'[o] = purge[o]
  BY <1>3 DEF SessionTypes
<1>4. CASE StartPurge(c)
  <2> DEFINE p == [on |-> TRUE, gone |-> {}, todo |-> {row \in recorded : row.due}]
  <2>1. UNCHANGED <<session, recorded, unreadable>> /\ purge' = [purge EXCEPT ![c] = p]
    BY <1>4 DEF StartPurge
  <2>2. p \in Pass /\ p.gone = {}
    <3>1. {row \in recorded : row.due} \in SUBSET SessionRows
      BY DEF SessionTypes
    <3>. QED
      BY <3>1
  <2>. HIDE DEF p, Pass
  <2>3. purge' \in [Sites -> Pass] /\ purge'[c] = p /\ \A o \in Sites : o # c => purge'[o] = purge[o]
    BY <1>3, <2>1, <2>2
  <2>4. SessionTypes'
    BY <1>2, <2>1, <2>3 DEF SessionTypes, Pass
  <2>5. OneWay' /\ OnRecord'
    BY <1>2, <2>1 DEF OneWay, Waiting, OnRecord, Offered
  <2>6. PurgesAreSafe'
    BY <1>2, <2>1, <2>2, <2>3 DEF PurgesAreSafe
  <2>. QED
    BY <2>4, <2>5, <2>6
<1>5. ASSUME NEW row \in purge[c].todo, NEW reached \in BOOLEAN, NEW outcome \in {"ok", "lost"},
             PurgeRow(c, row, reached, outcome)
      PROVE  SessionsInv'
  <2>1. row \in SessionRows /\ row.token \in Tokens
    BY <1>1 DEF SessionRows
  <2>2. PICK gone \in {purge[c].gone, purge[c].gone \cup {row}} :
          /\ purge' = [purge EXCEPT ![c].todo = purge[c].todo \ {row}, ![c].gone = gone]
          /\ gone # purge[c].gone => row.key # secret[c] \/ session'[row.token] = "over"
          /\ session' = session \/ session' = [session EXCEPT ![row.token] = "over"]
    <3>1. CASE row.key # secret[c]
      <4>1. /\ purge' = [purge EXCEPT ![c].todo = purge[c].todo \ {row}, ![c].gone = purge[c].gone \cup {row}]
            /\ session' = session
        BY <1>5, <3>1 DEF PurgeRow
      <4>. QED
        BY <3>1, <4>1
    <3>2. CASE row.key = secret[c]
      <4> DEFINE over == reached \/ session[row.token] = "over"
      <4>1. /\ session' = IF over THEN [session EXCEPT ![row.token] = "over"] ELSE session
            /\ purge' = [purge EXCEPT ![c].todo = purge[c].todo \ {row},
                                     ![c].gone = IF outcome = "ok" /\ over THEN purge[c].gone \cup {row} ELSE purge[c].gone]
        BY <1>5, <3>2 DEF PurgeRow, LoggedOut
      <4>2. over => session'[row.token] = "over"
        BY <2>1, <4>1 DEF SessionTypes
      <4>. HIDE DEF over
      <4>. QED
        BY <4>1, <4>2
    <3>. QED
      BY <3>1, <3>2
  <2>3. UNCHANGED <<recorded, unreadable>>
    BY <1>5 DEF PurgeRow
  <2>4. /\ session' \in [Tokens -> {"none", "valid", "over"}] /\ OneWay' /\ OnRecord'
        /\ \A u \in Tokens : session[u] = "over" => session'[u] = "over"
    BY <1>2, <2>1, <2>2, <2>3, OverIsOver
  <2> DEFINE p == [purge[c] EXCEPT !.todo = purge[c].todo \ {row}, !.gone = gone]
  <2>5. p \in Pass /\ p.gone = gone
    BY <1>1, <2>1, <2>2
  <2>6. purge' = [purge EXCEPT ![c] = p]
    BY <2>2
  <2>. HIDE DEF p, Pass
  <2>7. purge' \in [Sites -> Pass] /\ purge'[c] = p /\ \A o \in Sites : o # c => purge'[o] = purge[o]
    BY <1>3, <2>5, <2>6
  <2>8. SessionTypes'
    BY <1>2, <2>3, <2>4, <2>7 DEF SessionTypes, Pass
  <2>9. PurgesAreSafe'
    <3>1. ASSUME NEW r \in gone PROVE session'[r.token] = "over" \/ r.key # secret[c]
      <4>1. CASE r \in purge[c].gone
        BY <1>1, <2>4, <4>1 DEF PurgesAreSafe, SessionRows
      <4>2. CASE r \notin purge[c].gone
        BY <2>2, <3>1, <4>2
      <4>. QED
        BY <4>1, <4>2
    <3>2. ASSUME NEW o \in Sites, o # c, NEW r \in purge[o].gone
          PROVE  session'[r.token] = "over" \/ r.key # secret[o]
      <4>1. r \in SessionRows
        BY DEF SessionTypes
      <4>. QED
        BY <2>4, <4>1 DEF PurgesAreSafe, SessionRows
    <3>. QED
      BY <1>2, <2>5, <2>7, <3>1, <3>2 DEF PurgesAreSafe
  <2>. QED
    BY <2>4, <2>8, <2>9
<1>6. ASSUME NEW outcome \in Outcomes, EndPurge(c, outcome) PROVE SessionsInv'
  <2>1. /\ session' = session /\ purge' = [purge EXCEPT ![c] = NoPurge]
        /\ recorded' = IF outcome = "failed" THEN recorded ELSE recorded \ purge[c].gone
        /\ unreadable' = IF outcome = "failed" THEN unreadable
                         ELSE unreadable \cup {row.token : row \in {r \in purge[c].gone : r.key # secret[c]}}
    BY <1>6 DEF EndPurge
  <2>2. NoPurge \in Pass /\ NoPurge.gone = {}
    BY DEF NoPurge
  <2>. HIDE DEF Pass
  <2>3. purge' \in [Sites -> Pass] /\ purge'[c] = NoPurge /\ \A o \in Sites : o # c => purge'[o] = purge[o]
    BY <1>3, <2>1, <2>2
  <2>4. SessionTypes'
    BY <1>2, <2>1, <2>3 DEF SessionTypes, Pass
  <2>5. OneWay'
    BY <1>2, <2>1 DEF OneWay, Waiting
  <2>6. PurgesAreSafe'
    BY <1>2, <2>1, <2>2, <2>3 DEF PurgesAreSafe
  <2>7. ASSUME NEW row \in recorded, session[row.token] = "valid", row.token \notin unreadable'
        PROVE  row \in recorded'
    <3>1. CASE row \notin purge[c].gone
      BY <2>1, <3>1
    <3>2. CASE row \in purge[c].gone
      <4>1. row.key # secret[c]
        BY <2>7, <3>2 DEF PurgesAreSafe
      <4>. QED
        BY <2>1, <2>7, <3>2, <4>1
    <3>. QED
      BY <3>1, <3>2
  <2>8. unreadable \subseteq unreadable'
    BY <2>1
  <2>9. OnRecord'
    <3>1. ASSUME NEW t \in Tokens, (handoff[t].at = "code" \/ Offered(t)), session[t] = "valid", t \notin unreadable'
          PROVE  \E row \in recorded' : row.token = t
      <4>1. PICK row \in recorded : row.token = t
        BY <2>8, <3>1 DEF OnRecord
      <4>. QED
        BY <2>7, <3>1, <4>1
    <3>2. \A t \in Tokens : Offered(t)' <=> Offered(t)
      BY <1>2 DEF Offered
    <3>. QED
      BY <1>2, <2>1, <3>1, <3>2 DEF OnRecord
  <2>. QED
    BY <2>4, <2>5, <2>6, <2>9
<1>. QED
  BY <1>4, <1>5, <1>6

(* Whatever a process had in its memory is gone. *)
LEMMA SiteRestarts ==
  ASSUME SessionsInv, NEW c \in Sites, NEW key \in {secret[c]} \cup LaterKeys, RestartSite(c, key)
  PROVE  SessionsInv'
<1> USE DEF SessionsInv
<1>1. /\ secret' = [secret EXCEPT ![c] = key] /\ codes' = [codes EXCEPT ![c] = <<>>]
      /\ purge' = [purge EXCEPT ![c] = NoPurge]
      /\ handoff' = [t \in Tokens |-> IF handoff[t].at # "ended" /\ handoff[t].in = c THEN Ended ELSE handoff[t]]
      /\ UNCHANGED <<session, recorded, browsers, unreadable>>
  BY DEF RestartSite
<1>2. key \in Keys /\ NoPurge \in [on : BOOLEAN, todo : SUBSET SessionRows, gone : SUBSET SessionRows] /\ NoPurge.gone = {}
  BY DEF SessionTypes, Keys, NoPurge
<1>3. \A t \in Tokens : handoff'[t] \in Handoffs /\ (handoff'[t] = handoff[t] \/ handoff'[t] = Ended)
  BY <1>1, HandoffFacts
<1>4. SessionTypes'
  <2>1. handoff' \in [Tokens -> Handoffs]
    BY <1>1, <1>3
  <2>2. codes' \in [Sites -> Seq(Tokens)]
    BY <1>1, NoCodes DEF SessionTypes
  <2>. QED
    BY <1>1, <1>2, <2>1, <2>2 DEF SessionTypes
<1>5. \A o \in Sites : Distinct(codes'[o]) /\ \A t : Contains(codes'[o], t) => Contains(codes[o], t)
  BY <1>1, NoCodes DEF SessionTypes, OneWay
<1>6. OneWay'
  <2>1. \A t \in Tokens : Waiting(t)' => Waiting(t)
    BY <1>5 DEF Waiting
  <2>. QED
    BY <1>1, <1>3, <1>5, <2>1 DEF OneWay
<1>7. PurgesAreSafe'
  BY <1>1, <1>2 DEF PurgesAreSafe, SessionTypes
<1>8. OnRecord'
  BY <1>1, <1>3, <1>5, HandoffFacts DEF OnRecord, Offered
<1>. QED
  BY <1>4, <1>6, <1>7, <1>8

LEMMA SessionsInvInit ==
  ASSUME SessionsInit
  PROVE  SessionsInv
<1>1. SessionTypes
  <2>1. /\ session = [t \in Tokens |-> "none"] /\ handoff = [t \in Tokens |-> Ended] /\ recorded = {}
        /\ browsers = [t \in Tokens |-> 0] /\ codes = [c \in Sites |-> <<>>]
        /\ purge = [c \in Sites |-> NoPurge] /\ secret = [c \in Sites |-> FirstKey]
    BY DEF SessionsInit
  <2>2. NoPurge \in [on : BOOLEAN, todo : SUBSET SessionRows, gone : SUBSET SessionRows]
    BY DEF NoPurge
  <2>. QED
    BY <2>1, <2>2, NoCodes DEF SessionTypes, Handoffs, Keys
<1>2. OneWay /\ OnRecord
  BY NoCodes DEF SessionsInit, OneWay, Waiting, OnRecord, Offered, Ended
<1>3. PurgesAreSafe
  BY DEF SessionsInit, PurgesAreSafe, NoPurge
<1>. QED
  BY <1>1, <1>2, <1>3 DEF SessionsInv

LEMMA SessionsInvNext ==
  ASSUME SessionsInv, [SessionsNext]_sessionVars
  PROVE  SessionsInv'
<1>1. CASE UNCHANGED sessionVars
  BY <1>1 DEF sessionVars, SessionsInv, SessionTypes, OneWay, Waiting, PurgesAreSafe, OnRecord, Offered
<1>2. CASE SessionsNext
  <2>1. ASSUME NEW t \in Tokens, NEW c \in Sites,
               (\E outcome \in Outcomes : SignIn(t, c, outcome)) \/ Redeem(t, c) \/ CodeExpires(t, c)
        PROVE  SessionsInv'
    BY <2>1, SomebodySignsIn, CodesGo
  <2>2. ASSUME NEW t \in Tokens,
               \/ MakeCode(t) \/ LogsOutAlone(t)
               \/ \E outcome \in Outcomes : Record(t, outcome) \/ LogOutUnrecorded(t, outcome)
        PROVE  SessionsInv'
    BY <2>2, HandoffGoesOn, AdministratorsLogOut DEF Outcomes
  <2>3. ASSUME NEW row \in recorded, RowFallsDue(row) PROVE SessionsInv'
    BY <2>3, RowsFallDue
  <2>4. ASSUME NEW c \in Sites,
               \/ StartPurge(c) \/ (\E outcome \in Outcomes : EndPurge(c, outcome))
               \/ \E row \in purge[c].todo, reached \in BOOLEAN, outcome \in {"ok", "lost"} :
                    PurgeRow(c, row, reached, outcome)
               \/ \E key \in {secret[c]} \cup LaterKeys : RestartSite(c, key)
        PROVE  SessionsInv'
    BY <2>4, PassesGoOn, SiteRestarts
  <2>. QED
    BY <1>2, <2>1, <2>2, <2>3, <2>4 DEF SessionsNext
<1>. QED
  BY <1>1, <1>2

(* Whatever calls fail and whichever process dies on the way, a session    *)
(* that a browser holds or may still fetch is on record for as long as     *)
(* Bifrost accepts it, and one browser at most was given it                *)
(* (bifrost_sso.py, services/bifrost_sessions.py).                         *)
THEOREM HandedOutStaysRecorded == SessionsSpec => []HandedOutIsRecorded
<1>1. SessionsInv => HandedOutIsRecorded
  <2>1. SessionsInv => \A t \in Tokens : browsers[t] \in 0..2 /\ browsers[t] # 2
    BY DEF SessionsInv, SessionTypes, OneWay
  <2>. QED
    BY <2>1 DEF SessionsInv, OnRecord, HandedOutIsRecorded
<1>. QED
  BY <1>1, SessionsInvInit, SessionsInvNext, PTL DEF SessionsSpec

-------------------------------------------------------------------------------
(***************************************************************************)
(* The routing of the two colors.                                          *)
(***************************************************************************)
Containers == [life : Life, armed : BOOLEAN, pin : Maybe]
Scripts == [step : Step, deploys : BOOLEAN, target : Colors, old : Maybe, to : Maybe,
            back : Maybe, restoring : BOOLEAN]

DeploymentTypeOK ==
  /\ {svc, conv, edge, live, backup, state} \subseteq Maybe
  /\ routes \in BOOLEAN /\ torn \subseteq Cause
  /\ box \in [Colors -> Containers] /\ script \in Scripts
  /\ used \in [commands : Nat, faults : Nat, mishaps : Nat]

Forth == ~script.restoring
Disturbed == torn \cap {"raced", "meddled"} # {}
Claims(lives, node) == \A c \in Colors : box[c].life \in lives => box[c].pin = node

(* What a command carries, and what it has written so far. *)
ScriptOK ==
  /\ ~At("idle") /\ Forth => script.to = script.target /\ script.back = script.old
  /\ ~At("idle") /\ ~Forth =>
       /\ script.step \in {"svc", "conv", "revert"} /\ script.to = script.old /\ script.back = script.target
       /\ script.old \notin {None, script.target}
  /\ script.step \notin {"idle", "retire"} => state = script.old
  /\ At("retire") => state = script.target /\ script.old \notin {None, script.target}
  /\ At("revert") => script.back # None /\ (Forth \/ torn # {})
  /\ script.step \in {"reload", "commit"} => live = script.target
  /\ At("commit") => edge = script.target

(* What a command has moved stays moved, unless somebody meddles. *)
MovedStays ==
  ~Disturbed =>
    /\ At("conv") /\ Forth => svc = script.target /\ Claims({"putSvc"}, script.target)
    /\ script.step \in {"install", "reload", "restore", "commit"} =>
         /\ svc = script.target /\ conv = script.target
         /\ Claims({"putSvc", "putConv"}, script.target)

(* There is a way back to where the command began. *)
WayBack ==
  torn = {} /\ state # None =>
    /\ script.step \in {"idle", "compose", "wait", "prepare", "retire"} \/ (At("svc") /\ Forth) =>
         /\ svc = state /\ conv = state /\ edge = state /\ live = state
         /\ Claims({"putSvc", "putConv"}, state)
    /\ (At("conv") /\ Forth) \/ At("revert") =>
         conv = state /\ edge = state /\ live = state /\ Claims({"putConv"}, state)
    /\ At("install") => edge = state /\ live = state
    /\ At("reload") => edge = state
    /\ script.step \in {"reload", "restore", "commit"} => backup = state
    /\ script.step \in {"svc", "conv"} /\ ~Forth => edge = state /\ live = state
    /\ At("conv") /\ ~Forth => svc = state /\ Claims({"putSvc"}, state)

(* The inductive invariant, beside the types. *)
Faithful == ScriptOK /\ MovedStays /\ WayBack

-------------------------------------------------------------------------------
(* The new step of a command is all that Goto changes. *)
LEMMA StepOfGoto ==
  ASSUME DeploymentTypeOK, NEW step \in Step, Goto(step)
  PROVE  /\ script' \in Scripts /\ script'.step = step
         /\ script'.deploys = script.deploys /\ script'.target = script.target
         /\ script'.old = script.old /\ script'.to = script.to
         /\ script'.back = script.back /\ script'.restoring = script.restoring
BY DEF DeploymentTypeOK, Scripts, Goto

LEMMA UsedStaysTyped ==
  ASSUME DeploymentTypeOK, Command \/ Fault \/ Mishap
  PROVE  used' \in [commands : Nat, faults : Nat, mishaps : Nat]
BY DEF DeploymentTypeOK, Command, Fault, Mishap

LEMMA RestoreApisixKeepsTypes ==
  ASSUME DeploymentTypeOK, RestoreApisix
  PROVE  script' \in Scripts
<1>1. CASE script.old \in {None, script.target}
  <2>1. Goto("idle") /\ "idle" \in Step
    BY <1>1 DEF RestoreApisix, Exit, Step
  <2> QED
    BY <2>1, StepOfGoto
<1>2. CASE script.old \notin {None, script.target}
  <2>1. script \in Scripts /\ "svc" \in Step /\ Colors \subseteq Maybe
    BY DEF DeploymentTypeOK, Step, Maybe
  <2>2. script.old \in Maybe /\ script.target \in Maybe
    BY <2>1 DEF Scripts
  <2> QED
    BY <1>2, <2>1, <2>2 DEF RestoreApisix, Scripts
<1> QED
  BY <1>1, <1>2

LEMMA BoxStaysTyped ==
  ASSUME DeploymentTypeOK, NEW c \in Colors, NEW l \in Life,
         box' = [box EXCEPT ![c].life = l]
  PROVE  /\ box' \in [Colors -> Containers]
         /\ \A d \in Colors : /\ box'[d].pin = box[d].pin
                              /\ box'[d].life = IF d = c THEN l ELSE box[d].life
BY DEF DeploymentTypeOK, Containers

LEMMA RecreatedStaysTyped ==
  ASSUME DeploymentTypeOK, NEW c \in Colors, NEW armed \in BOOLEAN, NEW pin \in Maybe,
         Recreate(c, armed, pin)
  PROVE  /\ box' \in [Colors -> Containers]
         /\ \A d \in Colors : IF d = c THEN box'[d].life = "boot" ELSE box'[d] = box[d]
BY DEF DeploymentTypeOK, Containers, Recreate, Life

(* A step of the containers after which nobody claims an upstream who did  *)
(* not claim it before.                                                    *)
NoNewClaim ==
  \A c \in Colors : box'[c].life \in {"putSvc", "putConv"} => box'[c] = box[c]

LEMMA RetireMakesNoClaim ==
  ASSUME DeploymentTypeOK, Retire
  PROVE  box' \in [Colors -> Containers] /\ NoNewClaim
<1>1. box \in [Colors -> Containers] /\ script.target \in Maybe
  BY DEF DeploymentTypeOK, Scripts, Maybe
<1>2. CASE script.old \notin Colors
  BY <1>1, <1>2 DEF Retire, Recreate, NoNewClaim
<1>3. CASE script.old \in Colors
  <2>1. \/ box' = [box EXCEPT ![script.old].life =
                      IF box[script.old].life \in Running THEN "stopped" ELSE box[script.old].life]
        \/ Recreate(script.old, FALSE, script.target)
        \/ box' = box
    BY DEF Retire
  <2>2. PICK old \in Colors : old = script.old
    BY <1>3
  <2>3. ASSUME box' = [box EXCEPT ![old].life = IF box[old].life \in Running THEN "stopped"
                                                ELSE box[old].life]
        PROVE  box' \in [Colors -> Containers] /\ NoNewClaim
    <3>1. PICK l \in Life : l = IF box[old].life \in Running THEN "stopped" ELSE box[old].life
      BY <1>1 DEF Containers, Life
    <3>2. box' = [box EXCEPT ![old].life = l]
      BY <2>3, <3>1
    <3>3. box' \in [Colors -> Containers]
      BY <3>2, BoxStaysTyped
    <3>4. l \notin {"putSvc", "putConv"}
      BY <3>1 DEF Running, Booting
    <3>5. ASSUME NEW c \in Colors, box'[c].life \in {"putSvc", "putConv"}
          PROVE  box'[c] = box[c]
      <4>1. box'[c].life = IF c = old THEN l ELSE box[c].life
        BY <3>2, BoxStaysTyped
      <4>2. c # old
        BY <3>4, <3>5, <4>1
      <4> QED BY <1>1, <3>2, <4>2
    <3> QED BY <3>3, <3>5 DEF NoNewClaim
  <2>4. ASSUME Recreate(old, FALSE, script.target)
        PROVE  box' \in [Colors -> Containers] /\ NoNewClaim
    BY <1>1, <2>4, RecreatedStaysTyped DEF NoNewClaim
  <2>5. ASSUME box' = box PROVE box' \in [Colors -> Containers] /\ NoNewClaim
    BY <1>1, <2>5 DEF NoNewClaim
  <2> QED BY <2>1, <2>2, <2>3, <2>4, <2>5
<1> QED BY <1>2, <1>3

LEMMA DeploymentTypesAreKept ==
  ASSUME DeploymentTypeOK, [Next]_vars
  PROVE  DeploymentTypeOK'
<1> USE DEF DeploymentTypeOK
<1>1. ASSUME NEW given \in Maybe, Deploy(given) PROVE DeploymentTypeOK'
  <2>1. used' \in [commands : Nat, faults : Nat, mishaps : Nat]
    BY <1>1, UsedStaysTyped DEF Deploy
  <2>2. script' \in Scripts
    BY <1>1, ZenonT(40) DEF Deploy, Scripts, Step, Maybe, Colors, Other
  <2>3. torn' \subseteq Cause
    BY <1>1 DEF Deploy, Settled, Cause
  <2> QED BY <1>1, <2>1, <2>2, <2>3 DEF Deploy, upstreams, host
<1>2. ASSUME NEW target \in Colors, StartPromotion(target)
      PROVE  script' \in Scripts /\ torn' \subseteq Cause
  <2>1. script' \in Scripts
    BY <1>2 DEF StartPromotion, Scripts, Step, Maybe
  <2>2. torn' \subseteq Cause
    BY <1>2 DEF StartPromotion, Settled, Cause
  <2> QED BY <2>1, <2>2
<1>3. ASSUME NEW c \in Colors, Promote(c) PROVE DeploymentTypeOK'
  BY <1>2, <1>3, UsedStaysTyped DEF Promote, upstreams, host
<1>4. CASE Rollback
  <2>1. Other(state) \in Colors
    BY DEF Other, Colors
  <2> QED BY <1>2, <1>4, <2>1, UsedStaysTyped DEF Rollback, upstreams, host
<1>5. ASSUME NEW c \in Colors, Stop(c) PROVE DeploymentTypeOK'
  BY <1>5, UsedStaysTyped, BoxStaysTyped DEF Stop, upstreams, host, Life
<1>6. ASSUME NEW c \in Colors, Boot(c) PROVE DeploymentTypeOK'
  <2>1. PICK l \in Life : box' = [box EXCEPT ![c].life = l]
    BY <1>6 DEF Boot, Life
  <2>2. box' \in [Colors -> Containers]
    BY <2>1, BoxStaysTyped
  <2>3. box[c].pin \in Maybe
    BY DEF Containers
  <2>4. {svc', conv'} \subseteq Maybe /\ routes' \in BOOLEAN
    BY <1>6, <2>3 DEF Boot, upstreams
  <2>5. torn' \subseteq Cause
    BY <1>6 DEF Boot, Meddled, Cause
  <2> QED BY <1>6, <2>2, <2>4, <2>5 DEF Boot, host
<1>7. ASSUME NEW c \in Colors, Restart(c) PROVE DeploymentTypeOK'
  BY <1>7, UsedStaysTyped, BoxStaysTyped DEF Restart, upstreams, host, Life
<1>8. CASE Compose
  <2>1. box' \in [Colors -> Containers]
    BY <1>8, RecreatedStaysTyped DEF Compose, Scripts, Maybe
  <2>2. script' \in Scripts
    BY <1>8, StepOfGoto DEF Compose, Step
  <2> QED BY <1>8, <2>1, <2>2 DEF Compose, upstreams, host
<1>9. CASE Wait \/ Prepare
  <2>1. script' \in Scripts
    BY <1>9, StepOfGoto DEF Wait, Prepare, Step, Exit
  <2> QED BY <1>9, <2>1 DEF Wait, Prepare, upstreams, host
<1>10. CASE GiveUp \/ Kill
  <2>1. script' \in Scripts
    BY <1>10, StepOfGoto DEF GiveUp, Kill, Step, Exit
  <2>2. used' \in [commands : Nat, faults : Nat, mishaps : Nat]
    BY <1>10, UsedStaysTyped DEF GiveUp, Kill
  <2>3. torn' \subseteq Cause
    BY <1>10 DEF GiveUp, Kill, Cause
  <2> QED BY <1>10, <2>1, <2>2, <2>3 DEF GiveUp, Kill, upstreams, host
<1>11. CASE PutService \/ PutConverter \/ Revert
  <2>1. script.to \in Maybe /\ script.back \in Maybe
    BY DEF Scripts
  <2>2. ASSUME NEW old \in Maybe, NEW new \in Maybe, NEW put \in PutResults(old, new), Charged(put)
        PROVE  put.now \in Maybe /\ used' \in [commands : Nat, faults : Nat, mishaps : Nat]
    <3>1. put.now \in Maybe
      BY <2>2 DEF PutResults
    <3>2. used' \in [commands : Nat, faults : Nat, mishaps : Nat]
      BY <2>2, UsedStaysTyped DEF Charged
    <3> QED BY <3>1, <3>2
  <2>3. {svc', conv'} \subseteq Maybe /\ used' \in [commands : Nat, faults : Nat, mishaps : Nat]
    BY <1>11, <2>1, <2>2 DEF PutService, PutConverter, Revert
  <2>4. script' \in Scripts
    BY <1>11, StepOfGoto DEF PutService, PutConverter, Revert, Step, Exit
  <2>5. torn' \subseteq Cause
    BY <1>11 DEF PutService, PutConverter, Revert, Unanswered, Raced, Cause
  <2> QED BY <1>11, <2>3, <2>4, <2>5 DEF PutService, PutConverter, Revert, host
<1>12. CASE Install \/ Reload \/ Restore
  <2>1. script' \in Scripts
    BY <1>12, StepOfGoto, RestoreApisixKeepsTypes DEF Install, Reload, Restore, Step
  <2>2. script.target \in Maybe
    BY DEF Scripts, Maybe
  <2>3. {edge', live', backup', state'} \subseteq Maybe
    BY <1>12, <2>2 DEF Install, Reload, Restore, Maybe
  <2>4. torn' \subseteq Cause
    BY <1>12 DEF Install, Reload, Restore, Cause
  <2>5. used' \in [commands : Nat, faults : Nat, mishaps : Nat]
    BY <1>12, UsedStaysTyped DEF Install, Reload, Restore
  <2> QED BY <1>12, <2>1, <2>3, <2>4, <2>5 DEF Install, Reload, Restore, upstreams
<1>13. CASE Commit
  <2>1. script' \in Scripts
    BY <1>13, StepOfGoto DEF Commit, Step, Exit
  <2>2. script.target \in Maybe
    BY DEF Scripts, Maybe
  <2>3. used' \in [commands : Nat, faults : Nat, mishaps : Nat]
    BY <1>13, UsedStaysTyped DEF Commit
  <2> QED BY <1>13, <2>1, <2>2, <2>3 DEF Commit, upstreams, Maybe
<1>14. CASE Retire
  <2>1. script' \in Scripts
    BY <1>14, StepOfGoto DEF Retire, Step, Exit
  <2>2. box' \in [Colors -> Containers]
    BY <1>14, RetireMakesNoClaim
  <2> QED BY <1>14, <2>1, <2>2 DEF Retire, upstreams, host
<1>15. CASE EtcdLost
  <2>1. torn' \subseteq Cause
    BY <1>15 DEF EtcdLost, Meddled, Cause
  <2> QED BY <1>15, <2>1, UsedStaysTyped DEF EtcdLost, host, Maybe
<1>16. CASE UNCHANGED vars
  BY <1>16 DEF vars
<1> QED
  BY <1>1, <1>3, <1>4, <1>5, <1>6, <1>7, <1>8, <1>9, <1>10, <1>11, <1>12, <1>13, <1>14, <1>15, <1>16
  DEF Next, Script

-------------------------------------------------------------------------------
(* Every step keeps the routing Faithful, one lemma for each kind of step. *)
LEMMA StartKeepsFaith ==
  ASSUME DeploymentTypeOK, Faithful, At("idle"),
         script'.step \in {"compose", "wait"}, ~script'.restoring,
         script'.to = script'.target, script'.old = state, script'.back = state,
         torn' = Settled, UNCHANGED <<upstreams, routes, host, box>>
  PROVE  Faithful'
<1>1. torn' = {} => torn = {}
  BY DEF Settled
<1>2. ScriptOK'
  BY DEF ScriptOK, At, Forth, host
<1>3. MovedStays'
  BY DEF MovedStays, At, Forth
<1>4. WayBack'
  BY <1>1 DEF Faithful, WayBack, At, Forth, Claims, host, upstreams
<1> QED BY <1>2, <1>3, <1>4 DEF Faithful

LEMMA NoNewClaimKeepsFaith ==
  ASSUME DeploymentTypeOK, Faithful, NoNewClaim,
         UNCHANGED <<upstreams, host, script, torn>>
  PROVE  Faithful'
<1>1. ScriptOK'
  BY DEF Faithful, ScriptOK, At, Forth, host
<1>2. MovedStays'
  BY DEF Faithful, MovedStays, At, Forth, Disturbed, Claims, upstreams, NoNewClaim
<1>3. WayBack'
  BY DEF Faithful, WayBack, At, Forth, Claims, host, upstreams, NoNewClaim
<1> QED BY <1>1, <1>2, <1>3 DEF Faithful

LEMMA BootKeepsFaith ==
  ASSUME DeploymentTypeOK, Faithful, NEW c \in Colors, Boot(c)
  PROVE  Faithful'
<1> USE DEF At, Forth, Claims
<1>1. PICK l \in Life : box' = [box EXCEPT ![c].life = l]
  BY DEF Boot, Life
<1>2. \A d \in Colors : /\ box'[d].pin = box[d].pin
                       /\ box'[d].life = IF d = c THEN l ELSE box[d].life
  BY <1>1, BoxStaysTyped
<1>3. l = box'[c].life
  BY <1>2
<1>4. ScriptOK'
  BY DEF Faithful, ScriptOK, Boot, host
<1>5. \/ box[c].life = "boot" /\ (l = "putSvc" => svc \in {None, box[c].pin})
           /\ l # "putConv" /\ UNCHANGED upstreams
      \/ box[c].life = "putSvc" /\ l = "midway" /\ svc' = box[c].pin /\ conv' = conv
      \/ box[c].life = "midway" /\ (l = "putConv" => conv \in {None, box[c].pin})
           /\ l # "putSvc" /\ UNCHANGED upstreams
      \/ box[c].life = "putConv" /\ l = "up" /\ conv' = box[c].pin /\ svc' = svc
  <2>1. l = IF box[c].life = "boot"
            THEN IF ~box[c].armed THEN "up" ELSE IF svc \in {None, box[c].pin} THEN "putSvc" ELSE "midway"
            ELSE IF box[c].life = "putSvc" THEN "midway"
            ELSE IF box[c].life = "midway"
            THEN IF conv \in {None, box[c].pin} THEN "putConv" ELSE "up"
            ELSE "up"
    BY <1>3 DEF Boot, Unclaimed, DeploymentTypeOK, Containers
  <2> QED BY <2>1 DEF Boot
<1>6. torn \subseteq torn' /\ (None \in {svc, conv} /\ upstreams' # upstreams => Meddled \subseteq torn')
  BY DEF Boot
<1>7. MovedStays'
  <2> SUFFICES ASSUME ~Disturbed' PROVE MovedStays'
    BY DEF MovedStays
  <2>1. ~Disturbed
    BY <1>6 DEF Disturbed
  <2>2. InFlight /\ None \in {svc, conv} => UNCHANGED upstreams
    BY <1>6 DEF Meddled, Disturbed
  <2>3. script' = script /\ script.target # None
    BY BlueGreenAssumption DEF Boot, DeploymentTypeOK, Scripts
  <2>4. ASSUME script.step = "conv", ~script.restoring
        PROVE  svc' = script.target
               /\ \A d \in Colors : box'[d].life = "putSvc" => box'[d].pin = script.target
    <3>1. svc = script.target /\ \A d \in Colors : box[d].life = "putSvc" => box[d].pin = script.target
      BY <2>1, <2>4 DEF Faithful, MovedStays
    <3>2. svc' = svc
      BY <1>5, <3>1 DEF upstreams
    <3>3. l = "putSvc" => box[c].pin = script.target
      BY <1>5, <2>3, <3>1
    <3> QED BY <1>2, <3>1, <3>2, <3>3
  <2>5. ASSUME script.step \in {"install", "reload", "restore", "commit"}
        PROVE  svc' = script.target /\ conv' = script.target
               /\ \A d \in Colors : box'[d].life \in {"putSvc", "putConv"} => box'[d].pin = script.target
    <3>1. svc = script.target /\ conv = script.target
          /\ \A d \in Colors : box[d].life \in {"putSvc", "putConv"} => box[d].pin = script.target
      BY <2>1, <2>5 DEF Faithful, MovedStays
    <3>2. svc' = svc /\ conv' = conv
      BY <1>5, <3>1 DEF upstreams
    <3>3. l \in {"putSvc", "putConv"} => box[c].pin = script.target
      BY <1>5, <2>3, <3>1
    <3> QED BY <1>2, <3>1, <3>2, <3>3
  <2> QED BY <2>3, <2>4, <2>5 DEF MovedStays
<1>8. WayBack'
  <2> SUFFICES ASSUME torn' = {}, state' # None PROVE WayBack'
    BY DEF WayBack
  <2>1. torn = {} /\ UNCHANGED <<state, edge, live, backup, script>> /\ state # None
    BY <1>6 DEF Boot, host
  <2>2. None \in {svc, conv} => UNCHANGED upstreams
    BY <1>6 DEF Meddled
  <2>3. ASSUME svc = state, conv = state,
               \A d \in Colors : box[d].life \in {"putSvc", "putConv"} => box[d].pin = state
        PROVE  svc' = state /\ conv' = state
               /\ \A d \in Colors : box'[d].life \in {"putSvc", "putConv"} => box'[d].pin = state
    BY <1>2, <1>5, <2>1, <2>3 DEF upstreams
  <2>4. ASSUME conv = state, \A d \in Colors : box[d].life \in {"putConv"} => box[d].pin = state
        PROVE  conv' = state
               /\ \A d \in Colors : box'[d].life \in {"putConv"} => box'[d].pin = state
    BY <1>2, <1>5, <2>1, <2>4 DEF upstreams
  <2>5. ASSUME svc = state, \A d \in Colors : box[d].life \in {"putSvc"} => box[d].pin = state
        PROVE  svc' = state
               /\ \A d \in Colors : box'[d].life \in {"putSvc"} => box'[d].pin = state
    BY <1>2, <1>5, <2>1, <2>5 DEF upstreams
  <2> QED BY <2>1, <2>3, <2>4, <2>5 DEF Faithful, WayBack
<1> QED BY <1>4, <1>7, <1>8 DEF Faithful

LEMMA EtcdLostKeepsFaith ==
  ASSUME DeploymentTypeOK, Faithful, EtcdLost
  PROVE  Faithful'
<1> USE DEF At, Forth, Claims
<1>1. torn \subseteq torn' /\ torn' # {} /\ (InFlight => Disturbed')
  BY DEF EtcdLost, Meddled, Disturbed
<1>2. ScriptOK'
  BY DEF Faithful, ScriptOK, EtcdLost, host
<1>3. MovedStays'
  BY <1>1 DEF MovedStays, InFlight, EtcdLost
<1>4. WayBack'
  BY <1>1 DEF WayBack
<1> QED BY <1>2, <1>3, <1>4 DEF Faithful

LEMMA QuietStepsKeepFaith ==
  ASSUME DeploymentTypeOK, Faithful, Compose \/ Wait \/ Prepare \/ GiveUp \/ Kill
  PROVE  Faithful'
<1> USE DEF At, Forth, Claims
<1>1. /\ script'.deploys = script.deploys /\ script'.target = script.target
      /\ script'.old = script.old /\ script'.to = script.to
      /\ script'.back = script.back /\ script'.restoring = script.restoring
      /\ UNCHANGED <<upstreams, host>>
  BY StepOfGoto DEF Compose, Wait, Prepare, GiveUp, Kill, Exit, Step
<1>2. \/ /\ script'.step = "idle" /\ (script.step \notin {"compose", "wait", "prepare", "retire"} => torn' # {})
      \/ /\ script.step \in {"compose", "wait", "prepare"}
         /\ script'.step \in {"wait", "prepare"} \/ (script.step = "prepare" /\ script'.step = "svc")
  BY StepOfGoto DEF Compose, Wait, Prepare, GiveUp, Kill, Exit, Step
<1>3. torn \subseteq torn'
  BY DEF Compose, Wait, Prepare, GiveUp, Kill
<1>4. NoNewClaim
  BY RecreatedStaysTyped DEF Compose, Wait, Prepare, GiveUp, Kill, NoNewClaim, Scripts, Maybe,
     DeploymentTypeOK
<1>5. script.step \in {"compose", "wait", "prepare"} => ~script.restoring
  BY DEF Faithful, ScriptOK
<1>6. ScriptOK'
  BY <1>1, <1>2, <1>5 DEF Faithful, ScriptOK, host
<1>7. MovedStays'
  BY <1>2 DEF MovedStays
<1>8. WayBack'
  BY <1>1, <1>2, <1>3, <1>4, <1>5 DEF Faithful, WayBack, NoNewClaim, upstreams, host
<1> QED BY <1>6, <1>7, <1>8 DEF Faithful

(* Nobody claims an upstream for another node when a PUT is not raced. *)
LEMMA NotRaced ==
  ASSUME NEW node, Raced(node) \subseteq torn', "raced" \notin torn'
  PROVE  Claims({"putSvc", "putConv"}, node)
BY DEF Raced, Claims, Claiming

LEMMA PutServiceKeepsFaith ==
  ASSUME DeploymentTypeOK, Faithful, PutService
  PROVE  Faithful'
<1> USE DEF At, Forth
<1>1. PICK put \in PutResults(svc, script.to) :
        /\ svc' = put.now
        /\ torn' = torn \cup Unanswered(put, svc) \cup Raced(script.to)
                        \cup (IF ~put.ok /\ script.restoring THEN {"warned"} ELSE {})
        /\ IF put.ok THEN Goto("conv") ELSE Exit
  BY DEF PutService
<1>2. UNCHANGED <<conv, edge, live, backup, state, box>> /\ script.step = "svc"
  BY DEF PutService, host
<1>3. torn \subseteq torn' /\ Raced(script.to) \subseteq torn'
  BY <1>1
<1>4. CASE put.ok
  <2>1. svc' = script.to
    BY <1>1, <1>4 DEF PutResults
  <2>2. /\ script'.step = "conv" /\ script'.target = script.target
        /\ script'.old = script.old /\ script'.to = script.to
        /\ script'.back = script.back /\ script'.restoring = script.restoring
    BY <1>1, <1>4, StepOfGoto DEF Step
  <2>3. ScriptOK'
    BY <1>2, <2>2 DEF Faithful, ScriptOK
  <2>4. MovedStays'
    <3> SUFFICES ASSUME ~Disturbed', ~script'.restoring
                 PROVE  svc' = script'.target /\ Claims({"putSvc"}, script.target)'
      BY <2>2 DEF MovedStays
    <3>1. Claims({"putSvc", "putConv"}, script.to)
      BY <1>3, NotRaced DEF Disturbed
    <3>2. script.to = script.target
      BY <1>2, <2>2 DEF Faithful, ScriptOK
    <3> QED BY <1>2, <2>1, <2>2, <3>1, <3>2 DEF Claims
  <2>5. WayBack'
    <3> SUFFICES ASSUME torn' = {}, state' # None PROVE WayBack'
      BY DEF WayBack
    <3>1. Claims({"putSvc", "putConv"}, script.to)
      BY <1>3, NotRaced
    <3>2. script.restoring => script.to = state
      BY <1>2 DEF Faithful, ScriptOK
    <3> QED BY <1>2, <1>3, <2>1, <2>2, <3>1, <3>2 DEF Faithful, WayBack, Claims
  <2> QED BY <2>3, <2>4, <2>5 DEF Faithful
<1>5. CASE ~put.ok
  <2>1. script'.step = "idle" /\ script'.restoring = script.restoring
    BY <1>1, <1>5, StepOfGoto DEF Step, Exit
  <2>2. torn' = {} => svc' = svc /\ ~script.restoring
    BY <1>1, <1>5 DEF Unanswered
  <2>3. ScriptOK' /\ MovedStays'
    BY <2>1 DEF ScriptOK, MovedStays
  <2>4. WayBack'
    BY <1>2, <1>3, <2>1, <2>2 DEF Faithful, WayBack, Claims
  <2> QED BY <2>3, <2>4 DEF Faithful
<1> QED BY <1>4, <1>5

LEMMA PutConverterKeepsFaith ==
  ASSUME DeploymentTypeOK, Faithful, PutConverter
  PROVE  Faithful'
<1> USE DEF At, Forth
<1>1. PICK put \in PutResults(conv, script.to) :
        /\ conv' = put.now
        /\ torn' = torn \cup Unanswered(put, conv) \cup Raced(script.to)
                        \cup (IF ~put.ok /\ (script.restoring \/ script.back = None)
                              THEN {"warned"} ELSE {})
        /\ IF put.ok THEN IF script.restoring THEN Exit ELSE Goto("install")
           ELSE IF script.back # None THEN Goto("revert") ELSE Exit
  BY DEF PutConverter
<1>2. UNCHANGED <<svc, edge, live, backup, state, box>> /\ script.step = "conv"
  BY DEF PutConverter, host
<1>3. torn \subseteq torn' /\ Raced(script.to) \subseteq torn'
  BY <1>1
<1>4. put.ok => conv' = script.to
  BY <1>1 DEF PutResults
<1>5. /\ script'.target = script.target
      /\ script'.old = script.old /\ script'.to = script.to
      /\ script'.back = script.back /\ script'.restoring = script.restoring
      /\ script'.step = IF put.ok THEN IF script.restoring THEN "idle" ELSE "install"
                        ELSE IF script.back # None THEN "revert" ELSE "idle"
  BY <1>1, StepOfGoto DEF Step, Exit
<1>6. ~script.restoring => script.to = script.target /\ script.back = script.old
  BY <1>2 DEF Faithful, ScriptOK
<1>7. script.restoring => script.to = script.old
  BY <1>2 DEF Faithful, ScriptOK
<1>8. state = script.old
  BY <1>2 DEF Faithful, ScriptOK
<1>9. ScriptOK'
  <2>1. ~put.ok /\ script.restoring => torn' # {}
    BY <1>1
  <2> QED BY <1>2, <1>5, <2>1 DEF Faithful, ScriptOK
<1>10. MovedStays'
  <2> SUFFICES ASSUME ~Disturbed', script'.step = "install"
               PROVE  svc' = script'.target /\ conv' = script'.target
                      /\ Claims({"putSvc", "putConv"}, script.target)'
    BY <1>5 DEF MovedStays
  <2>1. Claims({"putSvc", "putConv"}, script.to)
    BY <1>3, NotRaced DEF Disturbed
  <2>2. put.ok /\ ~script.restoring
    BY <1>5
  <2>3. ~Disturbed
    BY <1>3 DEF Disturbed
  <2>4. svc = script.target
    BY <1>2, <2>2, <2>3 DEF Faithful, MovedStays
  <2> QED BY <1>2, <1>4, <1>5, <1>6, <2>1, <2>2, <2>4 DEF Claims
<1>11. WayBack'
  <2> SUFFICES ASSUME torn' = {}, state' # None PROVE WayBack'
    BY DEF WayBack
  <2>1. torn = {} /\ Claims({"putSvc", "putConv"}, script.to)
    BY <1>3, NotRaced
  <2>2. CASE put.ok /\ script.restoring
    <3>1. script.to = state /\ svc = state /\ edge = state /\ live = state
      BY <1>2, <1>7, <1>8, <2>1, <2>2 DEF Faithful, WayBack
    <3> QED BY <1>2, <1>4, <1>5, <2>1, <2>2, <3>1 DEF WayBack, Claims
  <2>3. CASE put.ok /\ ~script.restoring
    <3>1. edge = state /\ live = state
      BY <1>2, <2>1, <2>3 DEF Faithful, WayBack
    <3> QED BY <1>2, <1>5, <2>3, <3>1 DEF WayBack
  <2>4. CASE ~put.ok
    <3>1. ~script.restoring /\ script.back # None /\ conv' = conv
      BY <1>1, <2>4 DEF Unanswered
    <3>2. conv = state /\ edge = state /\ live = state /\ Claims({"putConv"}, state)
      BY <1>2, <2>1, <3>1 DEF Faithful, WayBack
    <3> QED BY <1>2, <1>5, <2>4, <3>1, <3>2 DEF WayBack, Claims
  <2> QED BY <2>2, <2>3, <2>4
<1> QED BY <1>9, <1>10, <1>11 DEF Faithful

LEMMA RevertKeepsFaith ==
  ASSUME DeploymentTypeOK, Faithful, Revert
  PROVE  Faithful'
<1> USE DEF At, Forth
<1>1. PICK put \in PutResults(svc, script.back) :
        /\ svc' = put.now
        /\ torn' = torn \cup Raced(script.back) \cup (IF put.ok THEN {} ELSE {"warned"})
  BY DEF Revert
<1>2. UNCHANGED <<conv, edge, live, backup, state, box>> /\ script.step = "revert"
  BY DEF Revert, host
<1>3. script'.step = "idle" /\ script'.restoring = script.restoring
  BY StepOfGoto DEF Step, Exit, Revert
<1>4. ScriptOK' /\ MovedStays'
  BY <1>3 DEF ScriptOK, MovedStays
<1>5. WayBack'
  <2> SUFFICES ASSUME torn' = {}, state' # None PROVE WayBack'
    BY DEF WayBack
  <2>1. torn = {} /\ Claims({"putSvc", "putConv"}, script.back)
    BY <1>1, NotRaced
  <2>2. svc' = script.back
    BY <1>1 DEF PutResults
  <2>3. conv = state /\ edge = state /\ live = state
    BY <1>2, <2>1 DEF Faithful, WayBack
  <2>4. script.back = state
    BY <1>2, <2>1 DEF Faithful, ScriptOK
  <2> QED BY <1>2, <1>3, <2>1, <2>2, <2>3, <2>4 DEF WayBack, Claims
<1> QED BY <1>4, <1>5 DEF Faithful

LEMMA InstallKeepsFaith ==
  ASSUME DeploymentTypeOK, Faithful, Install
  PROVE  Faithful'
<1> USE DEF At, Forth
<1>1. UNCHANGED <<svc, conv, edge, state, box, torn>> /\ script.step = "install"
  BY DEF Install, upstreams
<1>2. ~script.restoring /\ state = script.old
  BY <1>1 DEF Faithful, ScriptOK
<1>3. CASE backup' = live /\ live' = script.target /\ Goto("reload")
  <2>1. /\ script'.step = "reload" /\ script'.target = script.target
        /\ script'.old = script.old /\ script'.to = script.to
        /\ script'.back = script.back /\ script'.restoring = script.restoring
    BY <1>3, StepOfGoto DEF Step
  <2>2. ScriptOK'
    BY <1>1, <1>3, <2>1 DEF Faithful, ScriptOK
  <2>3. MovedStays'
    BY <1>1, <2>1 DEF Faithful, MovedStays, Claims, Disturbed
  <2>4. WayBack'
    BY <1>1, <1>2, <1>3, <2>1 DEF Faithful, WayBack
  <2> QED BY <2>2, <2>3, <2>4 DEF Faithful
<1>4. CASE RestoreApisix /\ live' = live
  <2>1. CASE script.old \in {None, script.target}
    <3>1. script'.step = "idle" /\ script'.restoring = script.restoring
      BY <1>4, <2>1, StepOfGoto DEF RestoreApisix, Exit, Step
    <3>2. ScriptOK' /\ MovedStays'
      BY <3>1 DEF ScriptOK, MovedStays
    <3>3. torn = {} /\ state # None => svc = state /\ conv = state /\ Claims({"putSvc", "putConv"}, state)
      BY <1>1, <1>2, <2>1 DEF Faithful, MovedStays, Disturbed
    <3>4. WayBack'
      BY <1>1, <1>4, <3>1, <3>3 DEF Faithful, WayBack, Claims
    <3> QED BY <3>2, <3>4 DEF Faithful
  <2>2. CASE script.old \notin {None, script.target}
    <3>1. /\ script'.step = "svc" /\ script'.target = script.target
          /\ script'.old = script.old /\ script'.to = script.old
          /\ script'.back = script.target /\ script'.restoring
      BY <1>4, <2>2 DEF RestoreApisix, DeploymentTypeOK, Scripts
    <3>2. ScriptOK'
      BY <1>1, <1>2, <2>2, <3>1 DEF ScriptOK
    <3>3. MovedStays'
      BY <3>1 DEF MovedStays
    <3>4. WayBack'
      BY <1>1, <1>4, <3>1 DEF Faithful, WayBack
    <3> QED BY <3>2, <3>3, <3>4 DEF Faithful
  <2> QED BY <2>1, <2>2
<1> QED BY <1>3, <1>4 DEF Install

LEMMA ReloadKeepsFaith ==
  ASSUME DeploymentTypeOK, Faithful, Reload
  PROVE  Faithful'
<1> USE DEF At, Forth
<1>1. UNCHANGED <<svc, conv, live, backup, state, box, torn>> /\ script.step = "reload"
  BY DEF Reload, upstreams
<1>2. /\ (script'.step = "commit" /\ edge' = script.target) \/ script'.step = "restore"
      /\ script'.target = script.target
      /\ script'.old = script.old /\ script'.to = script.to
      /\ script'.back = script.back /\ script'.restoring = script.restoring
  BY StepOfGoto DEF Step, Reload
<1>3. ScriptOK'
  BY <1>1, <1>2 DEF Faithful, ScriptOK
<1>4. MovedStays'
  BY <1>1, <1>2 DEF Faithful, MovedStays, Claims, Disturbed
<1>5. WayBack'
  BY <1>1, <1>2 DEF Faithful, WayBack
<1> QED BY <1>3, <1>4, <1>5 DEF Faithful

LEMMA RestoreKeepsFaith ==
  ASSUME DeploymentTypeOK, Faithful, Restore
  PROVE  Faithful'
<1> USE DEF At, Forth
<1>1. UNCHANGED <<svc, conv, backup, state, box>> /\ script.step = "restore"
  BY DEF Restore, upstreams
<1>2. state = script.old /\ ~script.restoring
  BY <1>1 DEF Faithful, ScriptOK
<1>3. torn \subseteq torn' /\ (torn' = {} => live' = backup /\ edge' = backup)
  BY DEF Restore
<1>4. CASE script.old \in {None, script.target}
  <2>1. script'.step = "idle" /\ script'.restoring = script.restoring
    BY <1>4, StepOfGoto DEF Restore, RestoreApisix, Exit, Step
  <2>2. ScriptOK' /\ MovedStays'
    BY <2>1 DEF ScriptOK, MovedStays
  <2>3. torn = {} /\ state # None =>
          svc = state /\ conv = state /\ Claims({"putSvc", "putConv"}, state)
    BY <1>1, <1>2, <1>4 DEF Faithful, MovedStays, Disturbed
  <2>4. torn = {} /\ state # None => backup = state
    BY <1>1 DEF Faithful, WayBack
  <2>5. WayBack'
    BY <1>1, <1>3, <2>1, <2>3, <2>4 DEF WayBack, Claims
  <2> QED BY <2>2, <2>5 DEF Faithful
<1>5. CASE script.old \notin {None, script.target}
  <2>1. /\ script'.step = "svc" /\ script'.target = script.target
        /\ script'.old = script.old /\ script'.to = script.old
        /\ script'.back = script.target /\ script'.restoring
    BY <1>5 DEF Restore, RestoreApisix, DeploymentTypeOK, Scripts
  <2>2. ScriptOK'
    BY <1>1, <1>2, <1>5, <2>1 DEF ScriptOK
  <2>3. MovedStays'
    BY <2>1 DEF MovedStays
  <2>4. WayBack'
    BY <1>1, <1>3, <2>1 DEF Faithful, WayBack
  <2> QED BY <2>2, <2>3, <2>4 DEF Faithful
<1> QED BY <1>4, <1>5

(* A command that succeeds has moved everything. *)
LEMMA CommittedIsMoved ==
  ASSUME DeploymentTypeOK, Faithful, At("commit"), ~Disturbed
  PROVE  /\ svc = script.target /\ conv = script.target
         /\ edge = script.target /\ live = script.target
         /\ Claims({"putSvc", "putConv"}, script.target)
BY DEF Faithful, MovedStays, ScriptOK, At

LEMMA CommitKeepsFaith ==
  ASSUME DeploymentTypeOK, Faithful, Commit
  PROVE  Faithful'
<1> USE DEF At, Forth
<1>1. UNCHANGED <<svc, conv, edge, live, box>> /\ script.step = "commit"
  BY DEF Commit, upstreams
<1>2. ~script.restoring
  BY <1>1 DEF Faithful, ScriptOK
<1>3. CASE Goto("restore") /\ UNCHANGED <<state, backup, torn>>
  <2>1. /\ script'.step = "restore" /\ script'.target = script.target
        /\ script'.old = script.old /\ script'.to = script.to
        /\ script'.back = script.back /\ script'.restoring = script.restoring
    BY <1>3, StepOfGoto DEF Step
  <2>2. ScriptOK'
    BY <1>1, <1>3, <2>1 DEF Faithful, ScriptOK
  <2>3. MovedStays'
    BY <1>1, <1>3, <2>1 DEF Faithful, MovedStays, Claims, Disturbed
  <2>4. WayBack'
    BY <1>1, <1>3, <2>1 DEF Faithful, WayBack
  <2> QED BY <2>2, <2>3, <2>4 DEF Faithful
<1>4. CASE /\ state' = script.target /\ torn' = torn \cap {"raced", "meddled"}
           /\ IF script.deploys /\ script.old \notin {None, script.target}
              THEN Goto("retire") ELSE Exit
  <2>1. /\ script'.step = IF script.deploys /\ script.old \notin {None, script.target}
                         THEN "retire" ELSE "idle"
        /\ script'.target = script.target
        /\ script'.old = script.old /\ script'.to = script.to
        /\ script'.back = script.back /\ script'.restoring = script.restoring
    BY <1>4, StepOfGoto DEF Step, Exit
  <2>2. ScriptOK'
    BY <1>1, <1>2, <1>4, <2>1 DEF Faithful, ScriptOK
  <2>3. MovedStays'
    BY <2>1 DEF MovedStays
  <2>4. WayBack'
    BY <1>1, <1>4, <2>1, CommittedIsMoved DEF WayBack, Claims, Disturbed
  <2> QED BY <2>2, <2>3, <2>4 DEF Faithful
<1> QED BY <1>3, <1>4 DEF Commit

LEMMA RetireKeepsFaith ==
  ASSUME DeploymentTypeOK, Faithful, Retire
  PROVE  Faithful'
<1> USE DEF At, Forth
<1>1. NoNewClaim
  BY RetireMakesNoClaim
<1>2. UNCHANGED <<upstreams, host, torn>> /\ script.step = "retire"
  BY DEF Retire
<1>3. script'.step = "idle" /\ script'.restoring = script.restoring
  BY StepOfGoto DEF Retire, Exit, Step
<1>4. ScriptOK' /\ MovedStays'
  BY <1>3 DEF ScriptOK, MovedStays
<1>5. WayBack'
  BY <1>1, <1>2, <1>3 DEF Faithful, WayBack, Claims, NoNewClaim, upstreams, host
<1> QED BY <1>4, <1>5 DEF Faithful

-------------------------------------------------------------------------------
LEMMA FaithIsKept ==
  ASSUME DeploymentTypeOK, Faithful, [Next]_vars
  PROVE  Faithful'
<1>1. ASSUME NEW given \in Maybe, Deploy(given) PROVE Faithful'
  <2>1. /\ script'.step = "compose" /\ ~script'.restoring /\ script'.to = script'.target
        /\ script'.old = state /\ script'.back = state
    BY <1>1 DEF Deploy, DeploymentTypeOK, Scripts
  <2> QED BY <1>1, <2>1, StartKeepsFaith DEF Deploy
<1>2. ASSUME NEW target, StartPromotion(target)
      PROVE  /\ script'.step = "wait" /\ ~script'.restoring /\ script'.to = script'.target
             /\ script'.old = state /\ script'.back = state /\ torn' = Settled
  BY <1>2 DEF StartPromotion, DeploymentTypeOK, Scripts
<1>3. ASSUME NEW c \in Colors, Promote(c) PROVE Faithful'
  BY <1>2, <1>3, StartKeepsFaith DEF Promote
<1>4. CASE Rollback
  BY <1>2, <1>4, StartKeepsFaith DEF Rollback
<1>5. ASSUME NEW c \in Colors, Stop(c) \/ Restart(c) PROVE Faithful'
  <2>1. PICK l \in {"stopped", "boot"} : box' = [box EXCEPT ![c].life = l]
    BY <1>5 DEF Stop, Restart
  <2>2. NoNewClaim
    BY <2>1 DEF NoNewClaim, DeploymentTypeOK, Containers
  <2> QED BY <1>5, <2>2, NoNewClaimKeepsFaith DEF Stop, Restart
<1>6. CASE UNCHANGED vars
  <2>1. NoNewClaim /\ UNCHANGED <<upstreams, host, script, torn>>
    BY <1>6 DEF vars, NoNewClaim, upstreams, host
  <2> QED BY <2>1, NoNewClaimKeepsFaith
<1> QED
  BY <1>1, <1>3, <1>4, <1>5, <1>6, BootKeepsFaith, EtcdLostKeepsFaith, QuietStepsKeepFaith,
     PutServiceKeepsFaith, PutConverterKeepsFaith, RevertKeepsFaith, InstallKeepsFaith,
     ReloadKeepsFaith, RestoreKeepsFaith, CommitKeepsFaith, RetireKeepsFaith
  DEF Next, Script

LEMMA EmptyHostIsFine ==
  ASSUME Init
  PROVE  DeploymentTypeOK /\ Faithful
<1>1. DeploymentTypeOK
  BY DEF Init, DeploymentTypeOK, Maybe, Colors, Containers, Life, Scripts, Step
<1>2. Faithful
  BY DEF Init, Faithful, ScriptOK, MovedStays, WayBack, At
<1> QED BY <1>1, <1>2

(* Types and Faithful hold from an empty host on, through any number of     *)
(* commands, failing steps, kills, restarts of containers, losses of etcd. *)
THEOREM DeploymentsKeepTheirState == Spec => [](DeploymentTypeOK /\ Faithful)
<1>1. Init => DeploymentTypeOK /\ Faithful
  BY EmptyHostIsFine
<1>2. DeploymentTypeOK /\ Faithful /\ [Next]_vars => (DeploymentTypeOK /\ Faithful)'
  BY DeploymentTypesAreKept, FaithIsKept
<1> QED BY <1>1, <1>2, PTL DEF Spec

(* Between commands the state file, the edge, its config and both upstreams *)
(* name one color, unless something is known to be torn.                    *)
THEOREM RoutingAlwaysAgrees == Spec => []RoutingAgrees
<1>1. DeploymentTypeOK /\ Faithful => RoutingAgrees
  BY DEF Faithful, WayBack, RoutingAgrees, At
<1> QED BY <1>1, DeploymentsKeepTheirState, PTL

(* A deploy builds over nothing that serves, and retires nothing that does. *)
THEOREM ServingColorIsSafe == Spec => []ServingColorIsLeftAlone
<1>1. DeploymentTypeOK /\ Faithful => ServingColorIsLeftAlone
  <2> SUFFICES ASSUME DeploymentTypeOK, Faithful PROVE ServingColorIsLeftAlone
    OBVIOUS
  <2>1. script.target # None
    BY BlueGreenAssumption DEF DeploymentTypeOK, Scripts
  <2> QED BY <2>1 DEF Faithful, WayBack, ScriptOK, ServingColorIsLeftAlone, At
<1> QED BY <1>1, DeploymentsKeepTheirState, PTL

(* commit_active_color writes the state file when all the rest has moved:   *)
(* Commit is the only step that writes it, and CommittedIsMoved.            *)
THEOREM StateFileIsWrittenLast == Spec => StateFileIsLast
<1>1. DeploymentTypeOK /\ Faithful /\ [Next]_vars =>
        [state' # state /\ torn \cap {"raced", "meddled"} = {}
           => {svc, conv, edge, live} = {state'}]_vars
  <2> SUFFICES ASSUME DeploymentTypeOK, Faithful, Next, state' # state, ~Disturbed
               PROVE  {svc, conv, edge, live} = {state'}
    BY DEF Disturbed
  <2>1. Commit
    BY DEF Next, Script, host, upstreams, Deploy, Promote, Stop, Boot, Restart, Rollback, Kill,
       EtcdLost, Compose, Wait, Prepare, GiveUp, PutService, PutConverter, Revert, Install,
       Reload, Restore, Retire
  <2>2. At("commit") /\ state' = script.target
    BY <2>1 DEF Commit
  <2> QED BY <2>2, CommittedIsMoved
<1> QED BY <1>1, DeploymentsKeepTheirState, PTL DEF Spec, StateFileIsLast
================================================================================
