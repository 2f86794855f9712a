---------------------------- MODULE PluginPackage ----------------------------
(***************************************************************************)
(* The files of one plugin (plugins/lifecycle.py): the package, its        *)
(* virtual environment and the installation record, which install, update  *)
(* and uninstall of the command line change rename by rename under the     *)
(* plugin's lifecycle lock, and from which the server starts a process     *)
(* (_start_process).  A command may fail at any step, and then undoes what *)
(* it did, and may be killed at any step, and then undoes nothing.         *)
(*                                                                         *)
(* A tree is named by the version it was made for: Absent when it is absent, *)
(* Part when its removal was cut short.                                    *)
(***************************************************************************)
EXTENDS Naturals

CONSTANTS MaxVersion, \* bound: versions of the plugin
          MaxKills    \* bound: commands that are killed

ASSUME PackageAssumption == MaxVersion \in Nat /\ MaxKills \in Nat

VARIABLES package, env, meta,  \* plugins/<id>, its venv, its record
          on, grants,          \* enabled in the state file; holds the grants
                               \* that its manifest requires
          operation,           \* the command that holds the lock
          matched,             \* an update command has verified the live package
          asked,               \* the versions whose updates have passed their
                               \* checks, and Absent for an uninstall that has
          child,               \* the trees the running process was started from
          kills,               \* commands killed so far
          cut                  \* the windows in which a kill went unnoticed

askVars     == <<matched, asked>>
packageVars == <<package, env, meta, on, grants, operation, askVars, child, kills, cut>>

Absent     == 0
Part     == MaxVersion + 1
Versions == 1..MaxVersion

NoCommand == [kind |-> "none", at |-> "end", new |-> Absent, package |-> Absent,
              env |-> Absent, meta |-> Absent, switched |-> {}]
NoChild   == [package |-> Absent, env |-> Absent]

PackageInit ==
    /\ package = Absent /\ env = Absent /\ meta = Absent
    /\ on = FALSE /\ grants = FALSE
    /\ operation = NoCommand
    /\ matched = FALSE /\ asked = {}
    /\ child = NoChild
    /\ kills = 0
    /\ cut = {}

\* Mutation: whatever lies there will do.
VerifiesAlways(p, m) == TRUE

\* verify_installed_package: without a record the package counts as unmanaged.
Verifies(p, m) == m = Absent \/ p = m

-----------------------------------------------------------------------------
(* install and update.                                                     *)

\* What update checks before it takes the lock, and never again: that the live
\* package is the recorded one and idle, and, once its bundle is unpacked, that
\* the bundle is newer.  Any number of updates may have come so far, each for
\* as long as it likes; `_pid_is_running' is the child.
UpdateVerifies ==
    /\ package # Absent /\ Verifies(package, meta)
    /\ child = NoChild
    /\ matched' = TRUE
    /\ UNCHANGED <<package, env, meta, on, grants, operation, asked, child, kills, cut>>

\* The manifest of a half removed package may still be there, of any version.
UpdateCompares(v) ==
    /\ matched
    /\ package = Part \/ package \in 1..(v - 1)
    /\ asked' = asked \cup {v}
    /\ UNCHANGED <<package, env, meta, on, grants, operation, matched, child, kills, cut>>

\* uninstall looks for the record before it takes the lock, and never again.
UninstallChecks ==
    /\ child = NoChild
    /\ meta # Absent
    /\ asked' = asked \cup {Absent}
    /\ UNCHANGED <<package, env, meta, on, grants, operation, matched, child, kills, cut>>

\* Under the lock: the plugin is idle, and an install finds no package.
MayCommit(kind, v) ==
    /\ operation = NoCommand
    /\ child = NoChild
    /\ kind = "install" => package = Absent
    /\ kind = "update"  => v \in asked

\* The environment is built beside the live trees; the rollback copies are
\* empty yet.
BeginSwitch(kind, v) ==
    /\ MayCommit(kind, v)
    /\ operation' = [NoCommand EXCEPT !.kind = kind, !.at = "package_away", !.new = v,
                                    !.meta = meta]
    /\ UNCHANGED <<package, env, meta, on, grants, askVars, child, kills, cut>>

\* The order of the switch, and of what an exception undoes.
Thereafter(at) ==
    CASE at = "package_away" -> "env_away"
      [] at = "env_away"     -> "package_in"
      [] at = "package_in"   -> "env_in"
      [] at = "env_in"       -> "record"
      [] at = "record"       -> "check"
      [] at = "check"        -> "sweep"
      [] at = "undo_env"     -> "undo_env_back"
      [] at = "undo_env_back"     -> "undo_package"
      [] at = "undo_package"      -> "undo_package_back"
      [] at = "undo_package_back" -> "undo_record"
      [] at = "undo_record"  -> "end"

MovesOn(row) == IF Thereafter(row.at) = "end" THEN NoCommand ELSE [row EXCEPT !.at = Thereafter(row.at)]

\* One rename, removal or atomic write of the switch.
Switch ==
    /\ operation.kind \in {"install", "update"}
    /\ CASE operation.at = "package_away" ->
              /\ package' = Absent
              /\ operation' = MovesOn([operation EXCEPT !.package = package])
              /\ UNCHANGED <<env, meta>>
         [] operation.at = "env_away" ->
              /\ env' = Absent
              /\ operation' = MovesOn([operation EXCEPT !.env = env])
              /\ UNCHANGED <<package, meta>>
         [] operation.at = "package_in" ->
              /\ package' = operation.new
              /\ operation' = MovesOn([operation EXCEPT !.switched = {"package"}])
              /\ UNCHANGED <<env, meta>>
         [] operation.at = "env_in" ->
              /\ env' = operation.new
              /\ operation' = MovesOn([operation EXCEPT !.switched = {"package", "env"}])
              /\ UNCHANGED <<package, meta>>
         [] operation.at = "record" ->
              meta' = package /\ operation' = MovesOn(operation) /\ UNCHANGED <<package, env>>
         [] operation.at = "check" ->
              operation' = MovesOn(operation) /\ UNCHANGED <<package, env, meta>>
         [] OTHER -> FALSE
    /\ UNCHANGED <<on, grants, askVars, child, kills, cut>>

\* The rollback copies go.  A new plugin is off; one whose new version lacks a
\* grant is switched off, and grants it no longer asks for are taken back.
Sweep(lacks) ==
    /\ operation.at = "sweep"
    /\ grants' = (grants /\ ~(operation.kind = "update" /\ lacks))
    /\ on' = (on /\ operation.kind = "update" /\ grants')
    /\ operation' = NoCommand
    /\ UNCHANGED <<package, env, meta, askVars, child, kills, cut>>

\* An exception, of the file system or of the self-check.  The next step of
\* the undoing removes the new environment.
Fails ==
    /\ operation.at \in {"package_away", "env_away", "package_in", "env_in", "record", "check"}
    /\ operation' = [operation EXCEPT !.at = "undo_env"]
    /\ UNCHANGED <<package, env, meta, on, grants, askVars, child, kills, cut>>

PutBack(old) == old

Undo ==
    /\ CASE operation.at = "undo_env" ->
              /\ env' = IF "env" \in operation.switched THEN Absent ELSE env
              /\ UNCHANGED <<package, meta>>
         [] operation.at = "undo_env_back" ->
              /\ env' = IF operation.env # Absent THEN operation.env ELSE env
              /\ UNCHANGED <<package, meta>>
         [] operation.at = "undo_package" ->
              /\ package' = IF "package" \in operation.switched THEN Absent ELSE package
              /\ UNCHANGED <<env, meta>>
         [] operation.at = "undo_package_back" ->
              /\ package' = IF operation.package # Absent THEN operation.package ELSE package
              /\ UNCHANGED <<env, meta>>
         [] operation.at = "undo_record" ->
              meta' = PutBack(operation.meta) /\ UNCHANGED <<package, env>>
         [] OTHER -> FALSE
    /\ operation' = MovesOn(operation)
    /\ UNCHANGED <<on, grants, askVars, child, kills, cut>>

-----------------------------------------------------------------------------
(* uninstall.                                                              *)

Uninstall ==
    /\ operation = NoCommand
    /\ child = NoChild
    /\ Absent \in asked
    /\ operation' = [NoCommand EXCEPT !.kind = "uninstall", !.at = "remove_package"]
    /\ UNCHANGED <<package, env, meta, on, grants, askVars, child, kills, cut>>

Remove ==
    /\ operation.kind = "uninstall"
    /\ CASE operation.at = "remove_package" ->
              /\ package' = Absent
              /\ operation' = [operation EXCEPT !.at = "remove_env"]
              /\ UNCHANGED <<env, meta, on, grants>>
         [] operation.at = "remove_env" ->
              /\ env' = Absent
              /\ operation' = [operation EXCEPT !.at = "remove_record"]
              /\ UNCHANGED <<package, meta, on, grants>>
         [] operation.at = "remove_record" ->
              /\ meta' = Absent
              /\ operation' = [operation EXCEPT !.at = "switch_off"]
              /\ UNCHANGED <<package, env, on, grants>>
         [] operation.at = "switch_off" ->
              /\ on' = FALSE /\ grants' = FALSE
              /\ operation' = NoCommand
              /\ UNCHANGED <<package, env, meta>>
    /\ UNCHANGED <<askVars, child, kills, cut>>

-----------------------------------------------------------------------------
(* Kills, and the server.                                                  *)

\* The trees a step of the command removes may be half gone.
Halved(tree, now) == IF now /\ tree # Absent THEN {tree, Part, Absent} ELSE {tree}

\* The windows that verify_installed_package cannot see.  The new package
\* stands where the live one was, but the command has not finished with it,
\* and the record does not disagree: it is missing; it was left by, or is, the
\* record of the same version; or it is written already and the command is
\* undoing what it did.
Unseen ==
    {w \in {"install", "update"} :
       /\ operation.kind = w
       /\ operation.at \in {"env_in", "record", "undo_env", "undo_env_back", "undo_package",
                         "undo_record"}
       /\ "package" \in operation.switched
       /\ package = operation.new /\ meta \in {Absent, operation.new}}

\* The process is killed; or its undoing, or an uninstall, which undoes
\* nothing, fails at a step.
Killed ==
    /\ operation # NoCommand
    /\ kills < MaxKills
    /\ kills' = kills + 1
    /\ package' \in Halved(package, \/ operation.at = "remove_package"
                                    \/ operation.at = "undo_package" /\ "package" \in operation.switched)
    /\ env' \in Halved(env, \/ operation.at = "remove_env"
                            \/ operation.at = "undo_env" /\ "env" \in operation.switched)
    /\ operation' = NoCommand
    /\ cut' = cut \cup Unseen
    /\ UNCHANGED <<meta, on, grants, askVars, child>>

\* An administrator enables or disables the plugin and grants what it asks for.
SetEnabled ==
    /\ package # Absent
    /\ on' = ~on
    /\ UNCHANGED <<package, env, meta, grants, operation, askVars, child, kills, cut>>

SetGrants ==
    /\ package # Absent
    /\ grants' = ~grants
    /\ UNCHANGED <<package, env, meta, on, operation, askVars, child, kills, cut>>

\* _start_process under the lifecycle lock.
StartProcess ==
    /\ on /\ grants
    /\ operation = NoCommand
    /\ child = NoChild
    /\ package # Absent
    /\ Verifies(package, meta)
    /\ child' = [package |-> package, env |-> env]
    /\ UNCHANGED <<package, env, meta, on, grants, operation, askVars, kills, cut>>

ProcessEnds ==
    /\ child # NoChild
    /\ child' = NoChild
    /\ UNCHANGED <<package, env, meta, on, grants, operation, askVars, kills, cut>>

PackageNext ==
    \/ UpdateVerifies \/ UninstallChecks
    \/ \E v \in Versions : UpdateCompares(v)
    \/ \E kind \in {"install", "update"}, v \in Versions : BeginSwitch(kind, v)
    \/ SetEnabled \/ SetGrants
    \/ \E lacks \in BOOLEAN : Sweep(lacks)
    \/ Switch \/ Fails \/ Undo \/ Uninstall \/ Remove \/ Killed
    \/ StartProcess \/ ProcessEnds

PackageSpec == PackageInit /\ [][PackageNext]_packageVars

-----------------------------------------------------------------------------
(* Properties.                                                             *)

\* A process is only ever started from a package and the environment that was
\* built for it, complete, and as the record says; and a command that was not
\* killed leaves all three of one version, the old or the new.  A kill may
\* leave anything, and the start then refuses, but for the windows in which
\* no record disagrees.
StartsWhole ==
    /\ child # NoChild => \/ child.package = child.env /\ child.package = meta
                          \/ cut # {}
    /\ operation = NoCommand /\ kills = 0 => package = env /\ env = meta

=============================================================================
