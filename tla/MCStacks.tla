------------------------------- MODULE MCStacks --------------------------------
(***************************************************************************)
(* What runs beside and around the two colors: their deployment, and what  *)
(* they share: the permissions of roles, the users, the sessions at        *)
(* Bifrost, the stores that are backed up, and the daily report.  A        *)
(* behaviour is about one of them.                                         *)
(***************************************************************************)
EXTENDS BlueGreen, Roles, UserRoles, BifrostSessions, Backups, GpuReport, TLC

(* The old image seeds two system roles, the new one one with more to it;   *)
(* it brings a migration or none.                                          *)
Image(h, v) == [head |-> h, seed |-> v]
MCReleases == {[s \in Stacks |-> IF s = "old" THEN Image(1, 1) ELSE Image(h, 2)] : h \in {1, 2}}
MCSeeds == <<"admin" :> {"w"} @@ "user" :> {"p"}, "admin" :> {"w", "p"}>>

VARIABLE focus  \* the part this behaviour is about, never changed

Topics == {"deploy", "roles", "users", "sessions", "backups", "reports"}

StacksInit ==
  /\ focus \in Topics
  /\ Init /\ RolesInit /\ UsersInit /\ SessionsInit /\ BackupsInit /\ ReportInit
  /\ (focus # "roles" => stored = 1 /\ images["new"].head = 1) /\ (focus # "backups" => runs = Services)
  /\ (focus # "reports" => serving = Blue)

Part(name, Act, others) == focus = name /\ Act /\ UNCHANGED <<focus, others>>

StacksNext ==
  \/ Part("deploy", Next, <<roleVars, userVars, sessionVars, backupVars, reportVars>>)
  \/ Part("roles", RolesNext, <<vars, userVars, sessionVars, backupVars, reportVars>>)
  \/ Part("users", UsersNext, <<vars, roleVars, sessionVars, backupVars, reportVars>>)
  \/ Part("sessions", SessionsNext, <<vars, roleVars, userVars, backupVars, reportVars>>)
  \/ Part("backups", BackupsNext, <<vars, roleVars, userVars, sessionVars, reportVars>>)
  \/ Part("reports", ReportNext, <<vars, roleVars, userVars, sessionVars, backupVars>>)

StacksSpec ==
  StacksInit
    /\ [][StacksNext]_<<focus, vars, roleVars, userVars, sessionVars, backupVars, reportVars>>

(* Requests behave alike. *)
Alike == Permutations(Deciders)
===============================================================================
