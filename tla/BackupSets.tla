----------------------------- MODULE BackupSets -----------------------------
(***************************************************************************)
(* The backup sets of an instance: create_backup (backups/service.py),     *)
(* pin, prune and cleanup (backups/retention.py), and the safety set that  *)
(* apply_restore makes first (backups/restore.py), while the server goes   *)
(* on storing uploads (media/service.py).                                  *)
(*                                                                         *)
(* Every command takes backup_lock, an flock that a killed process leaves  *)
(* at once, and is refused when another one has it.  What apply_restore    *)
(* does to the instance is one step here; module Restore takes it apart.   *)
(***************************************************************************)
EXTENDS Naturals, FiniteSets

CONSTANTS Media,        \* uploads
          Commands,     \* processes of the command line
          MaxBackups,   \* bound: sets that are begun
          MaxMishaps    \* bound: kills, damaged sets

ASSUME BackupAssumption == MaxBackups \in Nat /\ MaxMishaps \in Nat

VARIABLES sets,     \* the directories below instance/backups, by age
          command,  \* where each command stands
          holder,   \* the command that has backup_lock
          gate,     \* a restore is under way or was cut short: its marker
          upload,   \* where each upload stands
          row, file, temp,  \* media rows; media files; temporary files
          split,    \* uploads whose row a restore separated from its file
          begun, mishaps

instance   == <<upload, row, file, temp, split>>
backupVars == <<sets, command, holder, gate, instance, begun, mishaps>>

SetIds  == 1..MaxBackups
Parts   == {"all", "files"}     \* every component, or --component media ...
NoSet   == [state |-> "none", parts |-> "all", rows |-> {}, files |-> {}, pinned |-> FALSE]
NoWork  == [at |-> "idle", op |-> "none", id |-> 0, source |-> 0, keep |-> 0, seen |-> {}, plan |-> {}]
NoOne   == "none"

ASSUME NoOneAssumption == NoOne \notin Commands

BackupInit ==
    /\ sets    = [s \in SetIds |-> NoSet]
    /\ command = [c \in Commands |-> NoWork]
    /\ holder  = NoOne
    /\ gate    = FALSE
    /\ upload  = [m \in Media |-> "new"]
    /\ row = {} /\ file = {} /\ temp = {} /\ split = {}
    /\ begun   = 0
    /\ mishaps = 0

-----------------------------------------------------------------------------
(* Uploads: the file first, by way of a temporary one; then the row.       *)

Stands(m, at) == upload' = [upload EXCEPT ![m] = at]
SetsKept      == UNCHANGED <<sets, command, holder, gate, begun, mishaps>>

\* The maintenance gate refuses requests that begin during a restore.
UploadBegins(m) ==
    /\ upload[m] = "new" /\ ~gate
    /\ temp' = temp \cup {m}
    /\ Stands(m, "temp")
    /\ SetsKept /\ UNCHANGED <<row, file, split>>

\* os.replace; the temporary file is gone when a restore switched the directory.
UploadReplaces(m) ==
    /\ upload[m] = "temp"
    /\ IF m \in temp THEN file' = file \cup {m} /\ Stands(m, "file")
                     ELSE UNCHANGED file /\ Stands(m, "over")
    /\ temp' = temp \ {m}
    /\ SetsKept /\ UNCHANGED <<row, split>>

UploadCommits(m) ==
    /\ upload[m] = "file"
    /\ row' = row \cup {m}
    /\ split' = IF m \in file THEN split ELSE split \cup {m}
    /\ Stands(m, "over")
    /\ SetsKept /\ UNCHANGED <<file, temp>>

\* The request fails: a temporary file is removed, a file stays without a row.
UploadFails(m) ==
    /\ upload[m] \in {"temp", "file"}
    /\ temp' = temp \ {m}
    /\ Stands(m, "over")
    /\ SetsKept /\ UNCHANGED <<row, file, split>>

-----------------------------------------------------------------------------
(* Creating a set.                                                         *)

Verified == {s \in SetIds : sets[s].state = "complete"}
Free(c)  == holder = NoOne /\ command[c] = NoWork

\* Mutation: the files are read first.
StepAfterFiles(at, parts) ==
    CASE at = "start" -> "scan" [] at = "scan" -> "copy" [] at = "export" -> "publish"
      [] at = "copy"  -> IF parts = "all" THEN "export" ELSE "publish"

\* The database is exported before the files are read.
StepAfter(at, parts) ==
    CASE at = "start"  -> IF parts = "all" THEN "export" ELSE "scan"
      [] at = "export" -> "scan" [] at = "scan" -> "copy" [] at = "copy" -> "publish"

\* A directory .incomplete-* for the next backup id.
Stages(c, parts, work) ==
    /\ begun < MaxBackups
    /\ begun' = begun + 1
    /\ sets' = [sets EXCEPT ![begun + 1] = [NoSet EXCEPT !.state = "staging", !.parts = parts]]
    /\ command' = [command EXCEPT ![c] = [work EXCEPT !.at = StepAfter("start", parts),
                                                      !.id = begun + 1]]

CreateBackup(c, parts) ==
    /\ Free(c) /\ ~gate
    /\ holder' = c
    /\ Stages(c, parts, [NoWork EXCEPT !.op = "create"])
    /\ UNCHANGED <<gate, instance, mishaps>>

Works(c, work) == command' = [command EXCEPT ![c] = work]
Proceeds(c)    == Works(c, [command[c] EXCEPT !.at = StepAfter(@, sets[command[c].id].parts)])
Ends(c)        == Works(c, NoWork) /\ holder' = NoOne

\* export_database: one snapshot of the rows.
ExportDatabase(c) ==
    /\ command[c].at = "export"
    /\ sets' = [sets EXCEPT ![command[c].id].rows = row]
    /\ Proceeds(c)
    /\ UNCHANGED <<holder, gate, instance, begun, mishaps>>

\* scan_tree: every name that is there, those of temporary files included.
ScanTree(c) ==
    /\ command[c].at = "scan"
    /\ Works(c, [command[c] EXCEPT !.at = StepAfter("scan", "all"),
                                   !.seen = (file \X {"file"}) \cup (temp \X {"temp"})])
    /\ UNCHANGED <<sets, holder, gate, instance, begun, mishaps>>

\* _stable_copy: a file that was seen must still be there.
StableCopy(seen) == seen \subseteq (file \X {"file"}) \cup (temp \X {"temp"})

\* create_component_archives: every file that was seen.
CopyFiles(c) ==
    /\ command[c].at = "copy"
    /\ StableCopy(command[c].seen)
    /\ sets' = [sets EXCEPT ![command[c].id].files = {e[1] : e \in command[c].seen \cap (Media \X {"file"})}]
    /\ Proceeds(c)
    /\ UNCHANGED <<holder, gate, instance, begun, mishaps>>

\* The checksums and the manifest; the set is verified and gets its name.
Publish(c) ==
    /\ command[c].at = "publish"
    /\ sets' = [sets EXCEPT ![command[c].id].state = "complete"]
    /\ IF command[c].op = "create" THEN Ends(c)
       ELSE Works(c, [command[c] EXCEPT !.at = "mark", !.seen = {}]) /\ UNCHANGED holder
    /\ UNCHANGED <<gate, instance, begun, mishaps>>

\* Any step raises: the staging directory is removed (or, with
\* --keep-incomplete, left).
CreateFails(c) ==
    /\ command[c].at \in {"export", "scan", "copy", "publish"}
    /\ \E left \in {"none", "leftover"} :
         sets' = [sets EXCEPT ![command[c].id] = [NoSet EXCEPT !.state = left]]
    /\ Ends(c)
    /\ UNCHANGED <<gate, instance, begun, mishaps>>

-----------------------------------------------------------------------------
(* Retention.                                                              *)

\* Mutation: only keep_last, keep_days and the pins protect.
ProtectedAsAsked(kept) == {s \in Verified : s \in kept \/ sets[s].pinned}

\* The newest set that verifies is always kept.
Protected(kept) ==
    {s \in Verified : s \in kept \/ sets[s].pinned \/ \A t \in Verified : t <= s}

\* keep_last and keep_days keep the newest sets, as many as they say.
Newest(n) == {s \in Verified : Cardinality({t \in Verified : t >= s}) <= n}

\* plan_prune: only sets that verify are ever planned.
PlanPrune(n) == Verified \ Protected(Newest(n))

\* backup_prune: a dry run shows the plan ...
PruneShows(c, n) ==
    /\ Free(c) /\ PlanPrune(n) # {}
    /\ Works(c, [NoWork EXCEPT !.at = "confirm", !.op = "prune", !.keep = n, !.plan = PlanPrune(n)])
    /\ UNCHANGED <<sets, holder, gate, instance, begun, mishaps>>

PlanApplied(c) == PlanPrune(command[c].keep)

\* ... and once it is confirmed the plan is made again, under the lock.
PruneApplies(c) ==
    /\ command[c].at = "confirm" /\ holder = NoOne
    /\ holder' = c
    /\ Works(c, [command[c] EXCEPT !.at = "remove", !.plan = PlanApplied(c)])
    /\ UNCHANGED <<sets, gate, instance, begun, mishaps>>

PruneAborts(c) ==
    /\ command[c].at = "confirm"
    /\ Works(c, NoWork)
    /\ UNCHANGED <<sets, holder, gate, instance, begun, mishaps>>

\* rmtree: the set is first incomplete, then gone, and its pin file with it.
RemoveBegins(c) ==
    /\ command[c].at = "remove"
    /\ \E s \in command[c].plan :
         /\ \A t \in command[c].plan : t <= s
         /\ sets' = [sets EXCEPT ![s].state = "half"]
         /\ Works(c, [command[c] EXCEPT !.at = "removing", !.id = s, !.plan = @ \ {s}])
    /\ UNCHANGED <<holder, gate, instance, begun, mishaps>>

RemoveEnds(c) ==
    /\ command[c].at = "removing"
    /\ sets' = [sets EXCEPT ![command[c].id] = NoSet]
    /\ Works(c, [command[c] EXCEPT !.at = "remove"])
    /\ UNCHANGED <<holder, gate, instance, begun, mishaps>>

PruneEnds(c) ==
    /\ command[c].at = "remove" /\ command[c].plan = {}
    /\ Ends(c)
    /\ UNCHANGED <<sets, gate, instance, begun, mishaps>>

\* pin_backup: pin and unpin, of a set that verifies.
PinBackup(c, s) ==
    /\ Free(c) /\ s \in Verified
    /\ sets' = [sets EXCEPT ![s].pinned = ~@]
    /\ UNCHANGED <<command, holder, gate, instance, begun, mishaps>>

\* cleanup_incomplete: staging directories that are a day old.
CleanupIncomplete(c) ==
    /\ Free(c)
    /\ \E s \in SetIds : sets[s].state = "leftover" /\ sets' = [sets EXCEPT ![s] = NoSet]
    /\ UNCHANGED <<command, holder, gate, instance, begun, mishaps>>

-----------------------------------------------------------------------------
(* Restoring a set.                                                        *)

\* plan_restore verifies the set; recovery must be done first.
ApplyRestore(c, s) ==
    /\ Free(c) /\ ~gate /\ s \in Verified
    /\ holder' = c
    /\ Works(c, [NoWork EXCEPT !.at = "stage", !.op = "restore", !.source = s])
    /\ UNCHANGED <<sets, gate, instance, begun, mishaps>>

\* stage_restore verifies and extracts; then the safety set, unless it is
\* declined.
StageRestore(c) ==
    LET work == command[c] IN
    /\ work.at = "stage"
    /\ IF work.source \notin Verified THEN Ends(c) /\ UNCHANGED <<sets, begun>>
       ELSE /\ UNCHANGED holder
            /\ \/ Stages(c, "all", work)
               \/ Works(c, [work EXCEPT !.at = "mark"]) /\ UNCHANGED <<sets, begun>>
    /\ UNCHANGED <<gate, instance, mishaps>>

MarkRestore(c) ==
    /\ command[c].at = "mark"
    /\ gate' = TRUE
    /\ Works(c, [command[c] EXCEPT !.at = "switch"])
    /\ UNCHANGED <<sets, holder, instance, begun, mishaps>>

\* The instance becomes what the set holds.
Restored(s) ==
    LET rows == IF sets[s].parts = "all" THEN sets[s].rows ELSE row IN
    /\ row'   = rows
    /\ file'  = sets[s].files
    /\ temp'  = {}
    /\ split' = split \cup (IF sets[s].parts = "all" THEN {} ELSE rows \ sets[s].files)
    /\ UNCHANGED upload

SwitchEnds(c) ==
    /\ command[c].at = "switch"
    /\ gate' = FALSE
    /\ Restored(command[c].source)
    /\ Ends(c)
    /\ UNCHANGED <<sets, begun, mishaps>>

\* The switch fails and is rolled back.
SwitchUndone(c) ==
    /\ command[c].at = "switch"
    /\ gate' = FALSE
    /\ Ends(c)
    /\ UNCHANGED <<sets, instance, begun, mishaps>>

\* recover_restore takes an interrupted restore back.
RecoverRestore(c) ==
    /\ Free(c) /\ gate
    /\ gate' = FALSE
    /\ UNCHANGED <<sets, command, holder, instance, begun, mishaps>>

-----------------------------------------------------------------------------
(* Mishaps.                                                                *)

Mishap == mishaps < MaxMishaps /\ mishaps' = mishaps + 1

\* A kill: the lock is free, a staging directory, a half-removed set or the
\* marker stays behind.
CommandKilled(c) ==
    /\ command[c] # NoWork
    /\ Mishap
    /\ sets' = [s \in SetIds |-> IF s = command[c].id /\ sets[s].state = "staging"
                                 THEN [NoSet EXCEPT !.state = "leftover"] ELSE sets[s]]
    /\ Works(c, NoWork)
    /\ holder' = IF holder = c THEN NoOne ELSE holder
    /\ UNCHANGED <<gate, instance, begun>>

\* A file of a set is damaged or lost; the set no longer verifies.  (Not in
\* the midst of a prune, which has verified the set it keeps just before.)
SetDamaged(s) ==
    /\ s \in Verified
    /\ \A c \in Commands : command[c].at \notin {"remove", "removing"}
    /\ Mishap
    /\ sets' = [sets EXCEPT ![s].state = "damaged"]
    /\ UNCHANGED <<command, holder, gate, instance, begun>>

BackupNext ==
    \/ \E m \in Media : UploadBegins(m) \/ UploadReplaces(m) \/ UploadCommits(m) \/ UploadFails(m)
    \/ \E s \in SetIds : SetDamaged(s)
    \/ \E c \in Commands :
         \/ \E parts \in Parts : CreateBackup(c, parts)
         \/ ExportDatabase(c) \/ ScanTree(c) \/ CopyFiles(c) \/ Publish(c) \/ CreateFails(c)
         \/ \E n \in 0..2 : PruneShows(c, n)
         \/ PruneApplies(c) \/ PruneAborts(c) \/ RemoveBegins(c) \/ RemoveEnds(c) \/ PruneEnds(c)
         \/ \E s \in SetIds : PinBackup(c, s) \/ ApplyRestore(c, s)
         \/ CleanupIncomplete(c) \/ StageRestore(c) \/ MarkRestore(c) \/ SwitchEnds(c)
         \/ SwitchUndone(c) \/ RecoverRestore(c) \/ CommandKilled(c)

BackupSpec == BackupInit /\ [][BackupNext]_backupVars

-----------------------------------------------------------------------------
(* Properties.                                                             *)

\* A set that verifies can be put back: every upload whose row is in its
\* database has its file in its archives, although uploads go on while the
\* set is made and the files are no snapshot.  The exceptions are uploads
\* that a restore tore apart: those in flight when it switched the media
\* directory, and those older than a set without a database.
BackupConsistent ==
    \A s \in Verified : sets[s].parts = "all" => sets[s].rows \subseteq sets[s].files \cup split

\* Once there is a set that verifies there is always one, whatever is pruned,
\* pinned, killed or fails, until the last one is damaged from outside; a set
\* that is pinned stays, even when it was pinned after prune showed its plan.
BackupRemains ==
    [][/\ Verified # {} => Verified' # {} \/ \E s \in Verified : sets'[s].state = "damaged"
       /\ \A s \in Verified : sets[s].pinned => sets'[s].state \in {"complete", "damaged"}]_backupVars

=============================================================================
