------------------------------- MODULE Restore -------------------------------
(***************************************************************************)
(* Applying a backup to a live instance: apply_restore, its rollback, and  *)
(* recover_restore (backups/restore.py).                                   *)
(*                                                                         *)
(* One swap entry of the journal stands for one path that is replaced: a   *)
(* component root, a sidecar of the SQLite database, or the database file. *)
(* One action is one file-system call, one journal write or one commit of  *)
(* the server database.  The process may die between any two of them, and  *)
(* any of them may raise.  backup_lock admits one process at a time.       *)
(***************************************************************************)
EXTENDS Naturals, Sequences

CONSTANTS
  Plans,           \* the restores to choose from
  NoJournal,       \* the journal file does not exist
  MaxCrashes,      \* bound: process deaths
  MaxFaults        \* bound: calls that raise

Kinds == {"directory", "file", "sidecar"}

\* A plan says of its swap entries, 1 to Len(kind), of which kind each is;
\* which targets exist before the restore; which entry, if any, is the
\* directory that holds the file of the last one; and whether a server
\* database is restored.  plan_restore refuses a selection of nothing.
ASSUME PlansAssumption ==
  \A p \in Plans :
    /\ p.kind \in Seq(Kinds)
    /\ p.original \subseteq DOMAIN p.kind
    /\ \A i \in DOMAIN p.kind : p.kind[i] = "sidecar" => i \in p.original
    /\ p.inside \in 0..Len(p.kind)
    /\ p.inside # 0 => p.inside < Len(p.kind) /\ p.kind[Len(p.kind)] = "file"
    /\ p.server \in BOOLEAN
    /\ p.kind # <<>> \/ p.server      \* "At least one restore component ..."

\* restore-journal.json of a plan.
JournalOf(p) ==
  [listed: 0..Len(p.kind),                        \* "swaps": the entries 1..listed
   had: [1..Len(p.kind) -> BOOLEAN],              \* "had_original"
   old: [1..Len(p.kind) -> BOOLEAN],              \* "old_moved"
   new: [1..Len(p.kind) -> BOOLEAN],              \* "new_moved"
   started: BOOLEAN,                              \* "database_commit_started"
   committed: BOOLEAN,                            \* "database_committed"
   complete: BOOLEAN]                             \* "phase" = "complete"

ASSUME NoJournalAssumption == \A p \in Plans : NoJournal \notin JournalOf(p)

ASSUME BoundsAssumption == MaxCrashes \in Nat /\ MaxFaults \in Nat

VARIABLES
  plan,      \* the restore that is applied
  target,    \* what is at each live path
  rollback,  \* what is at its rollback sibling
  staged,    \* what is at its staged path
  carried,   \* the database file inside the rollback sibling of its directory
  database,  \* content of the server database
  marker,    \* restore-maintenance.json exists
  disk,      \* restore-journal.json
  mem,       \* the journal in the memory of the process
  dirty,     \* the process is about to write mem to disk
  mode,      \* apply_restore, its except branch, or recover_restore
  pc, at,    \* the step, and the entry it works on
  crashes, faults

files == <<target, rollback, staged, carried>>
process == <<mem, dirty, mode, pc, at>>
changing == <<files, database, marker, disk, process, crashes, faults>>
vars == <<plan, changing>>

N == Len(plan.kind)
Entries == 1..N
Kind == plan.kind
Original == plan.original
DatabaseInside == plan.inside
ServerDatabase == plan.server

Contents == {"old", "new", "partial", "none"}
Journal == JournalOf(plan)

None == [i \in Entries |-> FALSE]
NewJournal ==
  [listed |-> 0, had |-> None, old |-> None, new |-> None,
   started |-> FALSE, committed |-> FALSE, complete |-> FALSE]

Modes == {"none", "apply", "undo", "recover"}
Steps ==
  {"idle", "mark", "list", "moveold", "movenew", "import", "commit", "committed",
   "finish", "removenew", "restoreold", "giveup", "cleanup", "unmark", "unjournal",
   "unstage"}

\* The two contents an instance may have when it serves requests.
Before == [i \in Entries |-> IF i \in Original THEN "old" ELSE "none"]
After == [i \in Entries |-> IF Kind[i] = "sidecar" THEN "none" ELSE "new"]

-----------------------------------------------------------------------------
Init ==
  /\ plan \in Plans
  /\ target = Before
  /\ rollback = [i \in Entries |-> "none"]
  /\ staged = [i \in Entries |-> "none"]
  /\ carried = "none"
  /\ database = "old"
  /\ marker = FALSE
  /\ disk = NoJournal
  /\ mem = NewJournal
  /\ dirty = FALSE
  /\ mode = "none"
  /\ pc = "idle"
  /\ at = 0
  /\ crashes = 0
  /\ faults = 0

\* The process ends and its memory is gone.
Exit ==
  /\ pc' = "idle"
  /\ mode' = "none"
  /\ mem' = NewJournal
  /\ dirty' = FALSE
  /\ at' = 0

Goto(step, i) ==
  /\ pc' = step
  /\ at' = i
  /\ UNCHANGED mode

\* At a step of the process, with its last journal change on disk.
At(step) == pc = step /\ ~dirty

\* The step ends with _write_restore_journal of the changed journal.
Note(journal) == mem' = journal /\ dirty' = TRUE
NoNote == UNCHANGED <<mem, dirty>>

(***************************************************************************)
(* apply_restore.                                                          *)
(***************************************************************************)
RestoreMarkersPresent == marker \/ disk # NoJournal

\* Planning, verification and staging succeeded (their failure changes nothing
\* that is modelled).  Bound: an instance is restored until it has succeeded.
Begin ==
  /\ pc = "idle"
  /\ ~RestoreMarkersPresent
  /\ target = Before
  /\ database = "old"
  /\ staged' = After
  /\ Note(NewJournal)
  /\ mode' = "apply"
  /\ pc' = "mark"
  /\ at' = 1
  /\ UNCHANGED <<target, rollback, carried, database, marker, disk, crashes, faults>>

\* _write_restore_journal: atomic replacement of the file.
WriteJournal ==
  /\ dirty
  /\ disk' = mem
  /\ IF pc = "giveup" THEN Exit ELSE dirty' = FALSE /\ UNCHANGED <<mem, mode, pc, at>>
  /\ UNCHANGED <<files, database, marker, crashes, faults>>

WriteMarker ==
  /\ At("mark")
  /\ marker' = TRUE
  /\ Goto("list", at)
  /\ NoNote
  /\ UNCHANGED <<files, database, disk, crashes, faults>>

\* The entry is appended to "swaps" before anything is moved.
ListEntry ==
  /\ At("list")
  /\ at <= N
  /\ Note([mem EXCEPT !.listed = at, !.had[at] = target[at] # "none"])
  /\ Goto("moveold", at)
  /\ UNCHANGED <<files, database, marker, disk, crashes, faults>>

\* Mutant: the last entry is skipped.
AllListedEarly ==
  /\ At("list")
  /\ at >= N
  /\ Goto(IF ServerDatabase THEN "import" ELSE "finish", at)
  /\ NoNote
  /\ UNCHANGED <<files, database, marker, disk, crashes, faults>>

AllListed ==
  /\ At("list")
  /\ at > N
  /\ Goto(IF ServerDatabase THEN "import" ELSE "finish", at)
  /\ NoNote
  /\ UNCHANGED <<files, database, marker, disk, crashes, faults>>

\* A move of a directory takes the database file inside it along.
HoldsDatabase(i) == DatabaseInside # 0 /\ i = DatabaseInside

\* os.replace(target, rollback) of _switch_path or _switch_sqlite_database.
MoveOld ==
  /\ At("moveold")
  /\ IF mem.had[at]
     THEN /\ rollback' = [rollback EXCEPT ![at] = target[at]]
          /\ target' = [i \in Entries |->
               IF i = at \/ (i = N /\ HoldsDatabase(at)) THEN "none" ELSE target[i]]
          /\ carried' = IF HoldsDatabase(at) THEN target[N] ELSE carried
          /\ Note([mem EXCEPT !.old[at] = TRUE])
     ELSE NoNote /\ UNCHANGED <<target, rollback, carried>>
  /\ IF Kind[at] = "sidecar" THEN Goto("list", at + 1) ELSE Goto("movenew", at)
  /\ UNCHANGED <<staged, database, marker, disk, crashes, faults>>

\* os.replace(staged, target).
MoveNew ==
  /\ At("movenew")
  /\ target' = [target EXCEPT ![at] = staged[at]]
  /\ staged' = [staged EXCEPT ![at] = "none"]
  /\ Note([mem EXCEPT !.new[at] = TRUE])
  /\ Goto("list", at + 1)
  /\ UNCHANGED <<rollback, carried, database, marker, disk, crashes, faults>>

\* import_database_stream up to before_commit, which announces the commit.
ImportDatabase ==
  /\ At("import")
  /\ Note([mem EXCEPT !.started = TRUE])
  /\ Goto("commit", at)
  /\ UNCHANGED <<files, database, marker, disk, crashes, faults>>

CommitDatabase ==
  /\ At("commit")
  /\ database' = "new"
  /\ NoNote
  /\ Goto("committed", at)
  /\ UNCHANGED <<files, marker, disk, crashes, faults>>

NoteCommitted ==
  /\ At("committed")
  /\ Note([mem EXCEPT !.committed = TRUE])
  /\ Goto("finish", at)
  /\ UNCHANGED <<files, database, marker, disk, crashes, faults>>

\* The end checks passed.
Finish ==
  /\ At("finish")
  /\ Note([mem EXCEPT !.complete = TRUE])
  /\ Goto("cleanup", at)
  /\ UNCHANGED <<files, database, marker, disk, crashes, faults>>

(***************************************************************************)
(* _rollback_swaps, from the last listed entry to the first.               *)
(***************************************************************************)
NewMovedHasty(i) ==
  mem.new[i] \/ (Kind[i] # "sidecar" /\ staged[i] = "none" /\ target[i] # "none")

\* "new_moved", or the move happened and the journal does not know it.
NewMoved(i) ==
  \/ mem.new[i]
  \/ /\ Kind[i] # "sidecar"
     /\ staged[i] = "none"
     /\ target[i] # "none"
     /\ rollback[i] # "none" \/ ~mem.had[i]

\* shutil.rmtree of a directory is not atomic.
RemoveSome ==
  /\ At("removenew")
  /\ at > 0
  /\ NewMoved(at)
  /\ Kind[at] = "directory"
  /\ target[at] = "new"
  /\ target' = [target EXCEPT ![at] = "partial"]
  /\ NoNote
  /\ Goto("removenew", at)
  /\ UNCHANGED <<rollback, staged, carried, database, marker, disk, crashes, faults>>

RemoveNew ==
  /\ At("removenew")
  /\ at > 0
  /\ IF NewMoved(at)
     THEN /\ target' = [i \in Entries |->
               IF i = at \/ (i = N /\ HoldsDatabase(at)) THEN "none" ELSE target[i]]
          /\ Note([mem EXCEPT !.new[at] = FALSE])
     ELSE NoNote /\ UNCHANGED target
  /\ Goto("restoreold", at)
  /\ UNCHANGED <<rollback, staged, carried, database, marker, disk, crashes, faults>>

\* os.replace(rollback, target), when there is something to put back.
RestoreOld ==
  /\ At("restoreold")
  /\ \/ /\ rollback[at] # "none"
        /\ target' = [i \in Entries |->
             IF i = at THEN rollback[at]
             ELSE IF i = N /\ HoldsDatabase(at) THEN carried ELSE target[i]]
        /\ rollback' = [rollback EXCEPT ![at] = "none"]
        /\ carried' = IF HoldsDatabase(at) THEN "none" ELSE carried
        /\ Note([mem EXCEPT !.old[at] = FALSE])
     \/ /\ rollback[at] = "none"
        /\ ~mem.old[at]
        /\ NoNote
        /\ UNCHANGED <<target, rollback, carried>>
  /\ Goto("removenew", at - 1)
  /\ UNCHANGED <<staged, database, marker, disk, crashes, faults>>

\* Everything is put back: the except branch notes "rolled-back" and clears the
\* markers, recover_restore cleans up first.
RolledBack ==
  /\ At("removenew")
  /\ at = 0
  /\ IF mode = "undo"
     THEN Note(mem) /\ Goto("unmark", at)
     ELSE NoNote /\ Goto("cleanup", at)
  /\ UNCHANGED <<files, database, marker, disk, crashes, faults>>

(***************************************************************************)
(* The end of apply_restore, of its except branch and of recover_restore.  *)
(***************************************************************************)
\* _cleanup_restore_swaps removes what the rollback siblings still hold.
CleanupOne(i) ==
  /\ At("cleanup")
  /\ i <= mem.listed
  /\ rollback[i] # "none"
  /\ rollback' = [rollback EXCEPT ![i] = "none"]
  /\ carried' = IF HoldsDatabase(i) THEN "none" ELSE carried
  /\ NoNote
  /\ Goto("cleanup", at)
  /\ UNCHANGED <<target, staged, database, marker, disk, crashes, faults>>

CleanupDone ==
  /\ At("cleanup")
  /\ \A i \in Entries : i <= mem.listed => rollback[i] = "none"
  /\ NoNote
  /\ Goto(IF mode = "apply" THEN "unmark" ELSE "unstage", at)
  /\ UNCHANGED <<files, database, marker, disk, crashes, faults>>

RemoveMarker ==
  /\ At("unmark")
  /\ marker' = FALSE
  /\ NoNote
  /\ Goto("unjournal", at)
  /\ UNCHANGED <<files, database, disk, crashes, faults>>

\* Mutant: the journal stays behind.
JournalKept ==
  /\ At("unjournal")
  /\ IF mode = "recover" THEN Exit ELSE NoNote /\ Goto("unstage", at)
  /\ UNCHANGED <<files, database, marker, disk, crashes, faults>>

RemoveJournal ==
  /\ At("unjournal")
  /\ disk' = NoJournal
  /\ IF mode = "recover" THEN Exit ELSE NoNote /\ Goto("unstage", at)
  /\ UNCHANGED <<files, database, marker, crashes, faults>>

\* _remove_staging_root and the staged database file, path by path.
RemoveStaged(i) ==
  /\ At("unstage")
  /\ staged[i] # "none"
  /\ staged' = [staged EXCEPT ![i] = "none"]
  /\ NoNote
  /\ Goto("unstage", at)
  /\ UNCHANGED <<target, rollback, carried, database, marker, disk, crashes, faults>>

StagingRemoved ==
  /\ At("unstage")
  /\ \A i \in Entries : staged[i] = "none"
  /\ IF mode = "recover" THEN NoNote /\ Goto("unmark", at) ELSE Exit
  /\ UNCHANGED <<files, database, marker, disk, crashes, faults>>

(***************************************************************************)
(* Exceptions.                                                             *)
(***************************************************************************)
\* The commit of the server database was announced or happened.
CommitBegun(journal) == journal.started \/ journal.committed

\* The except branch of apply_restore, when the failing call left the marker m
\* and the journal j behind.
HandleException(m, j) ==
  \/ /\ ~m                         \* no live mutation began, or all is done
     /\ disk' = NoJournal
     /\ Goto("unstage", at)
     /\ dirty' = FALSE
     /\ UNCHANGED mem
  \/ /\ m                          \* recovery required
     /\ mem.complete \/ CommitBegun(mem)
     /\ disk' = j
     /\ Exit
  \/ /\ m
     /\ ~mem.complete
     /\ ~CommitBegun(mem)
     /\ disk' = j
     /\ mode' = "undo"
     /\ pc' = "removenew"
     /\ at' = mem.listed
     /\ dirty' = FALSE
     /\ UNCHANGED mem

\* An exception leaves the step; in _rollback_swaps the except branch writes
\* the journal once more and gives up.
Raise(m, j) ==
  \/ mode = "apply" /\ HandleException(m, j)
  \/ /\ mode = "undo"
     /\ pc \in {"removenew", "restoreold"}
     /\ disk' = j
     /\ Note(mem)
     /\ Goto("giveup", at)
  \/ /\ mode = "recover" \/ (mode = "undo" /\ pc \notin {"removenew", "restoreold"})
     /\ disk' = j
     /\ Exit

\* "Missing rollback path for ...".
RollbackMissing ==
  /\ At("restoreold")
  /\ mem.old[at]
  /\ rollback[at] = "none"
  /\ Raise(marker, disk)
  /\ UNCHANGED <<files, database, marker, crashes, faults>>

\* A call raises.  A journal or marker write may have replaced the file before
\* it raised, a commit may have reached the server.
Fail ==
  /\ pc \notin {"idle", "unstage"}
  /\ faults < MaxFaults
  /\ faults' = faults + 1
  /\ \E j \in IF dirty THEN {disk, mem} ELSE {disk},
        m \in IF At("mark") THEN BOOLEAN ELSE {marker},
        d \in IF At("commit") THEN {"old", "new"} ELSE {database} :
       /\ marker' = m
       /\ database' = d
       /\ Raise(m, j)
  /\ UNCHANGED <<files, crashes>>

Crash ==
  /\ pc # "idle"
  /\ crashes < MaxCrashes
  /\ crashes' = crashes + 1
  /\ Exit
  /\ UNCHANGED <<files, database, marker, disk, faults>>

(***************************************************************************)
(* recover_restore.                                                        *)
(***************************************************************************)
Refuses(journal) == ~journal.complete /\ CommitBegun(journal)

Recover ==
  /\ pc = "idle"
  /\ disk # NoJournal
  /\ ~Refuses(disk)
  /\ mem' = disk
  /\ dirty' = FALSE
  /\ mode' = "recover"
  /\ pc' = IF disk.complete THEN "cleanup" ELSE "removenew"
  /\ at' = disk.listed
  /\ UNCHANGED <<files, database, marker, disk, crashes, faults>>

-----------------------------------------------------------------------------
Step ==
  \/ WriteJournal \/ WriteMarker
  \/ ListEntry \/ AllListed \/ MoveOld \/ MoveNew
  \/ ImportDatabase \/ CommitDatabase \/ NoteCommitted \/ Finish
  \/ RemoveSome \/ RemoveNew \/ RestoreOld \/ RolledBack \/ RollbackMissing
  \/ \E i \in Entries : CleanupOne(i) \/ RemoveStaged(i)
  \/ CleanupDone \/ RemoveMarker \/ RemoveJournal \/ StagingRemoved

Next == (Begin \/ Step \/ Fail \/ Crash \/ Recover) /\ UNCHANGED plan

Spec == Init /\ [][Next]_vars

\* A running process goes on, and the operator runs restore recover as long as
\* the markers are there.
FairSpec == Spec /\ WF_changing(Step) /\ WF_changing(Recover)

-----------------------------------------------------------------------------
(***************************************************************************)
(* Properties.                                                             *)
(***************************************************************************)
\* Every variable of the restore model keeps its type.
TypeOK ==
  /\ target \in [Entries -> Contents]
  /\ rollback \in [Entries -> Contents]
  /\ staged \in [Entries -> Contents]
  /\ carried \in Contents
  /\ database \in {"old", "new"}
  /\ marker \in BOOLEAN
  /\ disk \in Journal \union {NoJournal}
  /\ mem \in Journal
  /\ dirty \in BOOLEAN
  /\ mode \in Modes
  /\ pc \in Steps
  /\ at \in 0..(N + 1)
  /\ pc \in {"moveold", "movenew", "restoreold"} => at \in Entries
  /\ crashes \in Nat
  /\ faults \in Nat

\* The service runs only while neither marker file exists (web/app.py).
Serving == ~RestoreMarkersPresent

\* Whenever the service may run, the instance is entirely the one before the
\* restore or entirely the restored one, server database included.
ServesOneInstance ==
  Serving => \/ target = Before /\ database = "old"
             \/ target = After /\ (database = "new" <=> ServerDatabase)

\* Until the journal says "complete", the original content of every path is at
\* the path or at its rollback sibling: whatever crashes or raises, nothing of
\* the instance is lost.
NothingLost ==
  disk # NoJournal /\ ~disk.complete =>
    \A i \in Original :
      \/ target[i] = "old"
      \/ rollback[i] = "old"
      \/ i = N /\ DatabaseInside # 0 /\ carried = "old"

\* The instance a visitor sees or, while the service is closed, the one the
\* restore will end with: the journal decides.
ServedInstance ==
  IF Serving
  THEN IF target = Before /\ database = "old" THEN "old"
       ELSE IF target = After /\ (database = "new" <=> ServerDatabase) THEN "new"
       ELSE "mixed"
  ELSE IF disk # NoJournal /\ disk.complete THEN "new" ELSE "old"

Atomic ==
  INSTANCE AtomicRestore WITH service <- IF Serving THEN "open" ELSE "closed",
                              instance <- ServedInstance

\* Swapping path by path under the journal implements the atomic replacement:
\* seen through the maintenance gate the instance is replaced in one step, the
\* journal write that says "complete", or not at all.
ImplementsAtomicRestore == Atomic!Spec

\* The journal asks for what recover_restore cannot do: it remembers an entry as
\* moved away that is back already, or a database commit that may have happened.
Stuck ==
  /\ disk # NoJournal
  /\ \/ Refuses(disk)
     \/ \E i \in Entries : i <= disk.listed /\ disk.old[i] /\ rollback[i] = "none"

\* A restore that was interrupted any number of times is eventually applied or
\* rolled back and the service may run again, or recover_restore refuses for
\* ever: there is no third way to stay in maintenance.
RestoreEndsOrRefuses == RestoreMarkersPresent ~> (Serving \/ []Stuck)
=============================================================================
