---------------------------- MODULE MCMaintenance ----------------------------
(***************************************************************************)
(* Model-checking instance of what an operator maintains: restores and     *)
(* backup sets, and plugins, that is their processes, their packages and   *)
(* their jobs.  A behaviour is about one of them, chosen at the start.     *)
(***************************************************************************)
EXTENDS MCRestore, BackupSets, PluginRuntime, PluginPackage, PluginJobs

VARIABLE subject

pluginVars == <<runtimeVars, packageVars, jobVars>>
backupsVars == <<vars, backupVars>>

\* A component with several initial states has one of them when a behaviour is
\* not about it.
MaintenanceInit ==
  /\ subject \in {"restore", "sets", "processes", "packages", "jobs"}
  /\ Init /\ BackupInit /\ RuntimeInit /\ PackageInit /\ JobsInit
  /\ subject # "restore" => plan = CHOOSE p \in Plans : TRUE
  /\ subject # "processes" => ~enabled /\ ~granted

MaintenanceNext ==
  /\ UNCHANGED subject
  /\ \/ subject = "restore" /\ Next /\ UNCHANGED <<backupVars, pluginVars>>
     \/ subject = "sets" /\ BackupNext /\ UNCHANGED <<vars, pluginVars>>
     \/ subject = "processes" /\ RuntimeNext /\ UNCHANGED <<backupsVars, packageVars, jobVars>>
     \/ subject = "packages" /\ PackageNext /\ UNCHANGED <<backupsVars, runtimeVars, jobVars>>
     \/ subject = "jobs" /\ JobsNext /\ UNCHANGED <<backupsVars, runtimeVars, packageVars>>

\* Nothing that the fairness of a component asks for is enabled in its initial
\* state, so it says nothing of a behaviour that is about another one: no
\* restore has begun, and the plugin is disabled and nobody calls.
MaintenanceSpec ==
  /\ MaintenanceInit /\ [][MaintenanceNext]_<<subject, backupsVars, pluginVars>>
  /\ WF_changing(Step) /\ WF_changing(Recover)
  /\ RuntimeFairness
=============================================================================
