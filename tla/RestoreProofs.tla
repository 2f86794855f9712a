---------------------------- MODULE RestoreProofs ----------------------------
(***************************************************************************)
(* Machine-checked proofs about backups: the restore that swaps path by    *)
(* path implements the atomic one and loses nothing, and the sets stay     *)
(* consistent and are never all pruned; for every plan, any number of      *)
(* deaths and failures, uploads and commands.                              *)
(***************************************************************************)
EXTENDS Restore, BackupSets, TLAPS, WellFoundedInduction

-----------------------------------------------------------------------------
(***************************************************************************)
(* The restore: the inductive invariant.                                   *)
(***************************************************************************)
\* No plan moves a directory that holds the database file of the last entry.
Beside == \A p \in Plans : p.inside = 0

RestoreTypes == TypeOK /\ plan \in Plans /\ DatabaseInside = 0 /\ carried = "none"

\* As before the restore; not touched yet; replaced with the old one kept.
Back(i)      == target[i] = Before[i] /\ rollback[i] = "none"
Untouched(i) == Back(i) /\ staged[i] = After[i]
Replaced(i)  == /\ target[i] = After[i] /\ rollback[i] = Before[i]
                /\ i \notin Original => staged[i] = "none"

\* What an entry never loses: its old content, or the sign that it had none.
Whole(i) ==
  IF i \in Original
  THEN Back(i) \/ (target[i] # "old" /\ rollback[i] = "old")
  ELSE /\ rollback[i] = "none" /\ target[i] # "old"
       /\ target[i] # "none" => staged[i] = "none"

\* From the journal j the old instance can be put back.
Recoverable(j) ==
  /\ \A i \in Entries :
       /\ Whole(i)
       /\ i > j.listed => Back(i)
       /\ i <= j.listed => j.had[i] = (i \in Original)
       /\ i \in Original /\ j.new[i] => rollback[i] = "old"
  /\ ~CommitBegun(j) => database = "old"
  /\ CommitBegun(j) => ServerDatabase

Undone == target = Before /\ database = "old"
Done   == target = After /\ (database = "new" <=> ServerDatabase)
NoRollback == \A i \in Entries : rollback[i] = "none"

Tells(j) == IF j.complete THEN Done /\ j.listed = N ELSE Recoverable(j)

JournalsTell ==
  /\ disk # NoJournal => Tells(disk)
  /\ pc # "idle" => Tells(mem)
  /\ Serving => NoRollback /\ (Undone \/ Done)
  /\ marker => disk # NoJournal
  /\ database = "new" => ServerDatabase

ApplySteps  == {"mark", "list", "moveold", "movenew", "import", "commit", "committed", "finish"}
UndoSteps   == {"removenew", "restoreold"}
EndSteps    == {"unmark", "unjournal", "unstage"}

\* Which mode is in which step, and which journal it works from.
ModesFit ==
  /\ pc = "idle" <=> mode = "none"
  /\ pc \in ApplySteps => mode = "apply" /\ ~mem.complete
  /\ pc \in UndoSteps => mode \in {"undo", "recover"} /\ ~mem.complete /\ ~CommitBegun(mem)
  /\ pc = "giveup" => mode = "undo" /\ dirty
  /\ pc = "cleanup" => mode \in {"apply", "recover"}
  /\ pc \in EndSteps \union {"cleanup"} /\ ~mem.complete =>
       (mode = "apply" => pc = "unstage") /\ ~CommitBegun(mem)
  /\ mode = "undo" => ~mem.complete /\ ~CommitBegun(mem)
  /\ dirty => pc \notin {"idle", "unjournal", "unstage", "import", "committed"}

\* What of the journal of the process is on disk.
NotAhead == /\ disk # NoJournal /\ ~disk.complete
            /\ ~CommitBegun(mem) => ~CommitBegun(disk)
            /\ \A i \in Entries : disk.new[i] => mem.new[i]

DiskFollows ==
  /\ mode = "apply" /\ ~dirty /\ pc # "unstage" => disk = mem
  /\ mode = "apply" /\ dirty => (pc = "mark" /\ disk = NoJournal /\ ~marker) \/ NotAhead
  /\ mode \in {"undo", "recover"} /\ ~(mode = "undo" /\ pc = "unstage") =>
       disk # NoJournal /\ disk.complete = mem.complete
  /\ pc \in UndoSteps /\ ~dirty => NotAhead
  /\ mode = "apply" /\ pc \notin {"mark", "unjournal", "unstage"} => marker
  /\ pc \in {"mark", "unjournal"} => ~marker
  /\ mode \in {"apply", "undo"} /\ pc = "unstage" => disk = NoJournal /\ ~marker

\* How far apply_restore has come.
ApplyStands ==
  /\ pc \in ApplySteps => \A i \in Entries : (i < at => Replaced(i)) /\ (i > at => Untouched(i))
  /\ pc \in {"mark", "list"} => /\ at >= 1 /\ mem.listed = at - 1
                                /\ at <= N => Untouched(at)
  /\ pc = "mark" => at = 1 /\ ~CommitBegun(mem)
  /\ pc \in {"moveold", "movenew"} => mem.listed = at
  /\ pc = "moveold" => Untouched(at)
  /\ pc = "movenew" => /\ target[at] = "none" /\ rollback[at] = Before[at]
                       /\ staged[at] = After[at] /\ Kind[at] # "sidecar"
  /\ pc \in {"import", "commit", "committed", "finish"} => at = N + 1 /\ mem.listed = N
  /\ pc \in {"import", "commit", "committed"} => ServerDatabase
  /\ pc \in {"commit", "committed"} => CommitBegun(mem)
  /\ pc = "committed" => database = "new"
  /\ pc = "finish" => (database = "new" <=> ServerDatabase)
  /\ mem.committed /\ pc \in ApplySteps => mem.started

\* How far _rollback_swaps has come, and what is left when it is through.
UndoStands ==
  /\ pc \in UndoSteps => at <= mem.listed /\ \A i \in Entries : i > at => Back(i)
  /\ pc = "restoreold" => (at \notin Original => target[at] = "none") /\ ~mem.new[at]
  /\ pc \in EndSteps => NoRollback
  /\ pc \in EndSteps \union {"cleanup"} /\ ~mem.complete => NoRollback /\ Undone

RestoreInv == RestoreTypes /\ JournalsTell /\ ModesFit /\ DiskFollows /\ ApplyStands /\ UndoStands

-----------------------------------------------------------------------------
(* Facts about plans and journals.                                         *)

\* The entries of a plan, and what is at them before and after.
LEMMA PlanFacts ==
  ASSUME plan \in Plans
  PROVE  /\ N \in Nat /\ Entries = 1..N /\ Original \subseteq Entries
         /\ \A i \in Entries : Kind[i] \in Kinds /\ (Kind[i] = "sidecar" => i \in Original)
         /\ Before \in [Entries -> {"old", "none"}]
         /\ After \in [Entries -> {"new", "none"}]
         /\ \A i \in Entries : /\ Before[i] = IF i \in Original THEN "old" ELSE "none"
                               /\ After[i] = IF Kind[i] = "sidecar" THEN "none" ELSE "new"
                               /\ Before[i] # After[i]
         /\ ServerDatabase \in BOOLEAN
         /\ N = 0 => ServerDatabase
         /\ NoJournal \notin Journal
<1>1. /\ plan.kind \in Seq(Kinds) /\ plan.original \subseteq DOMAIN plan.kind
      /\ \A i \in DOMAIN plan.kind : plan.kind[i] = "sidecar" => i \in plan.original
      /\ plan.server \in BOOLEAN /\ (plan.kind # <<>> \/ plan.server)
  BY PlansAssumption
<1>2. Len(plan.kind) \in Nat /\ DOMAIN plan.kind = 1..Len(plan.kind)
      /\ \A i \in 1..Len(plan.kind) : plan.kind[i] \in Kinds
  BY <1>1
<1>3. Len(plan.kind) = 0 => plan.server
  BY <1>1
<1>4. NoJournal \notin Journal
  BY NoJournalAssumption DEF Journal
<1>. QED
  BY <1>1, <1>2, <1>3, <1>4 DEF N, Entries, Original, Kind, ServerDatabase, Before, After

\* What is read of the plan does not change with the state.
LEMMA PlanKept ==
  ASSUME UNCHANGED plan
  PROVE  /\ N' = N /\ Entries' = Entries /\ Original' = Original /\ Kind' = Kind
         /\ DatabaseInside' = DatabaseInside /\ ServerDatabase' = ServerDatabase
         /\ Before' = Before /\ After' = After /\ Journal' = Journal /\ NewJournal' = NewJournal
<1>1. N' = N /\ Original' = Original /\ Kind' = Kind /\ DatabaseInside' = DatabaseInside
      /\ ServerDatabase' = ServerDatabase /\ Journal' = Journal
  BY DEF N, Original, Kind, DatabaseInside, ServerDatabase, Journal
<1>2. Entries' = Entries
  BY <1>1 DEF Entries
<1>. QED
  BY <1>1, <1>2 DEF Before, After, NewJournal, None

\* What every journal has, and the one that a restore begins with.
LEMMA JournalRow ==
  ASSUME plan \in Plans
  PROVE  /\ \A j \in Journal :
              /\ j.listed \in 0..N
              /\ j.had \in [Entries -> BOOLEAN] /\ j.old \in [Entries -> BOOLEAN]
              /\ j.new \in [Entries -> BOOLEAN]
              /\ j.started \in BOOLEAN /\ j.committed \in BOOLEAN /\ j.complete \in BOOLEAN
         /\ NewJournal \in Journal
         /\ NewJournal.listed = 0 /\ ~CommitBegun(NewJournal) /\ ~NewJournal.complete
         /\ \A i \in Entries : ~NewJournal.new[i]
<1>1. N \in Nat /\ Entries = 1..Len(plan.kind) /\ N = Len(plan.kind)
  BY PlanFacts DEF N, Entries
<1>. QED
  BY <1>1 DEF Journal, JournalOf, NewJournal, None, CommitBegun

\* The changes the steps make to a journal.
Listed(j, i, b)   == [j EXCEPT !.listed = i, !.had[i] = b]
OldMoved(j, i, b) == [j EXCEPT !.old[i] = b]
NewIsMoved(j, i, b) == [j EXCEPT !.new[i] = b]

LEMMA JournalFields ==
  ASSUME plan \in Plans
  PROVE  /\ Journal = [listed: 0..N, had: [Entries -> BOOLEAN], old: [Entries -> BOOLEAN],
                        new: [Entries -> BOOLEAN], started: BOOLEAN, committed: BOOLEAN, complete: BOOLEAN]
         /\ N \in Nat /\ Entries = 1..N /\ \A i \in Entries : i \in 0..N
<1>1. N \in Nat /\ Entries = 1..Len(plan.kind) /\ N = Len(plan.kind)
  BY PlanFacts DEF N, Entries
<1>. QED
  BY <1>1 DEF Journal, JournalOf

LEMMA ListedRow ==
  ASSUME plan \in Plans, NEW j \in Journal, NEW i \in Entries, NEW b \in BOOLEAN
  PROVE  LET k == Listed(j, i, b)
         IN  /\ k \in Journal /\ k.listed = i /\ k.new = j.new
             /\ k.had[i] = b /\ \A n \in Entries : n # i => k.had[n] = j.had[n]
             /\ k.started = j.started /\ k.committed = j.committed /\ k.complete = j.complete
<1>1. Listed(j, i, b) = [[j EXCEPT !.listed = i] EXCEPT !.had = [j.had EXCEPT ![i] = b]]
  BY JournalFields DEF Listed
<1>2. j.had \in [Entries -> BOOLEAN]
  BY JournalRow
<1> DEFINE f == [j.had EXCEPT ![i] = b]
<1>3. f \in [Entries -> BOOLEAN] /\ f[i] = b /\ \A n \in Entries : n # i => f[n] = j.had[n]
  BY <1>2
<1>4. Listed(j, i, b) = [[j EXCEPT !.listed = i] EXCEPT !.had = f]
  BY <1>1
<1>5. Journal = [listed: 0..N, had: [Entries -> BOOLEAN], old: [Entries -> BOOLEAN],
                 new: [Entries -> BOOLEAN], started: BOOLEAN, committed: BOOLEAN, complete: BOOLEAN]
      /\ i \in 0..N
  BY JournalFields
<1>. HIDE DEF f
<1>6. /\ Listed(j, i, b) \in Journal /\ Listed(j, i, b).listed = i /\ Listed(j, i, b).new = j.new
      /\ Listed(j, i, b).had = f
      /\ Listed(j, i, b).started = j.started /\ Listed(j, i, b).committed = j.committed
      /\ Listed(j, i, b).complete = j.complete
  BY <1>3, <1>4, <1>5
<1>. QED
  BY <1>3, <1>6

LEMMA OldMovedRow ==
  ASSUME plan \in Plans, NEW j \in Journal, NEW i \in Entries, NEW b \in BOOLEAN
  PROVE  LET k == OldMoved(j, i, b)
         IN  /\ k \in Journal /\ k.listed = j.listed /\ k.new = j.new /\ k.had = j.had
             /\ k.started = j.started /\ k.committed = j.committed /\ k.complete = j.complete
  BY JournalFields, JournalRow DEF OldMoved

LEMMA NewMovedRow ==
  ASSUME plan \in Plans, NEW j \in Journal, NEW i \in Entries, NEW b \in BOOLEAN
  PROVE  LET k == NewIsMoved(j, i, b)
         IN  /\ k \in Journal /\ k.listed = j.listed /\ k.had = j.had
             /\ k.new[i] = b /\ \A n \in Entries : n # i => k.new[n] = j.new[n]
             /\ k.started = j.started /\ k.committed = j.committed /\ k.complete = j.complete
  BY JournalFields, JournalRow DEF NewIsMoved

LEMMA FlagRows ==
  ASSUME plan \in Plans, NEW j \in Journal
  PROVE  /\ LET k == [j EXCEPT !.started = TRUE]
            IN  /\ k \in Journal /\ k.listed = j.listed /\ k.had = j.had /\ k.new = j.new
                /\ k.started /\ k.committed = j.committed /\ k.complete = j.complete
         /\ LET k == [j EXCEPT !.committed = TRUE]
            IN  /\ k \in Journal /\ k.listed = j.listed /\ k.had = j.had /\ k.new = j.new
                /\ k.started = j.started /\ k.committed /\ k.complete = j.complete
         /\ LET k == [j EXCEPT !.complete = TRUE]
            IN  /\ k \in Journal /\ k.listed = j.listed /\ k.had = j.had /\ k.new = j.new
                /\ k.started = j.started /\ k.committed = j.committed /\ k.complete
<1>1. Journal = [listed: 0..N, had: [Entries -> BOOLEAN], old: [Entries -> BOOLEAN],
                 new: [Entries -> BOOLEAN], started: BOOLEAN, committed: BOOLEAN, complete: BOOLEAN]
  BY JournalFields
<1>2. LET k == [j EXCEPT !.started = TRUE]
      IN  /\ k \in Journal /\ k.listed = j.listed /\ k.had = j.had /\ k.new = j.new
          /\ k.started /\ k.committed = j.committed /\ k.complete = j.complete
  BY <1>1
<1>3. LET k == [j EXCEPT !.committed = TRUE]
      IN  /\ k \in Journal /\ k.listed = j.listed /\ k.had = j.had /\ k.new = j.new
          /\ k.started = j.started /\ k.committed /\ k.complete = j.complete
  BY <1>1
<1>4. LET k == [j EXCEPT !.complete = TRUE]
      IN  /\ k \in Journal /\ k.listed = j.listed /\ k.had = j.had /\ k.new = j.new
          /\ k.started = j.started /\ k.committed = j.committed /\ k.complete
  BY <1>1
<1>. QED
  BY <1>2, <1>3, <1>4

\* What is said of the entries holds again when their files stay.
LEMMA FilesStay ==
  ASSUME UNCHANGED <<plan, target, rollback, staged>>
  PROVE  /\ \A i : /\ Back(i)' <=> Back(i)
                   /\ Untouched(i)' <=> Untouched(i)
                   /\ Replaced(i)' <=> Replaced(i)
                   /\ Whole(i)' <=> Whole(i)
         /\ NoRollback' <=> NoRollback
  BY PlanKept DEF Back, Untouched, Replaced, Whole, NoRollback

LEMMA DataStays ==
  ASSUME UNCHANGED <<plan, target, rollback, staged, database>>
  PROVE  /\ \A j : Tells(j)' <=> Tells(j)
         /\ (Undone' <=> Undone) /\ (Done' <=> Done)
         /\ NoRollback' <=> NoRollback
<1>1. (Undone' <=> Undone) /\ (Done' <=> Done)
  BY PlanKept DEF Undone, Done
<1>2. \A j : Recoverable(j)' <=> Recoverable(j)
  BY FilesStay, PlanKept DEF Recoverable
<1>. QED
  BY <1>1, <1>2, FilesStay, PlanKept DEF Tells

\* Journals that tell the same of what was listed, moved and committed.
LEMMA TellsAlike ==
  ASSUME NEW j, NEW k, k.listed = j.listed, k.had = j.had, k.new = j.new,
         k.started = j.started, k.committed = j.committed, k.complete = j.complete, Tells(j)
  PROVE  Tells(k)
  BY DEF Tells, Recoverable, CommitBegun

LEMMA TypesHold ==
  ASSUME plan \in Plans
  PROVE  /\ N \in Nat /\ Entries = 1..N
         /\ \A i \in Entries : i \in 0..(N + 1) /\ i - 1 \in 0..(N + 1) /\ i + 1 \in 0..(N + 1)
         /\ \A c \in Contents, i \in Entries, f \in [Entries -> Contents] :
              [f EXCEPT ![i] = c] \in [Entries -> Contents]
         /\ Before \in [Entries -> Contents] /\ After \in [Entries -> Contents]
         /\ {"none", "old", "new", "partial"} \subseteq Contents
<1>1. N \in Nat /\ Entries = 1..N
  BY PlanFacts
<1>. QED
  BY <1>1, PlanFacts DEF Contents

LEMMA ExitTypes ==
  ASSUME plan \in Plans, UNCHANGED plan, Exit
  PROVE  /\ pc' \in Steps /\ pc' = "idle" /\ mode' = "none" /\ mem' = NewJournal
         /\ mem' \in Journal /\ dirty' = FALSE /\ at' \in 0..(N + 1)
         /\ mode' \in Modes
  BY PlanFacts, JournalRow DEF Exit, Steps, Modes

LEMMA FilesTypes ==
  ASSUME RestoreInv, UNCHANGED <<plan, target, rollback, staged, carried>>,
         database' \in {"old", "new"}, marker' \in BOOLEAN, disk' \in Journal \union {NoJournal},
         mem' \in Journal, dirty' \in BOOLEAN, mode' \in Modes, pc' \in Steps, at' \in 0..(N + 1),
         pc' \in {"moveold", "movenew", "restoreold"} => at' \in Entries,
         crashes' \in Nat, faults' \in Nat
  PROVE  RestoreTypes'
  BY PlanKept DEF RestoreInv, RestoreTypes, TypeOK

-----------------------------------------------------------------------------
(* Steps that move nothing.                                                *)

\* _write_restore_journal: the journal on disk becomes that of the process.
LEMMA WriteJournalStep ==
  ASSUME RestoreInv, UNCHANGED plan, WriteJournal
  PROVE  RestoreInv'
<1>1. /\ dirty /\ disk' = mem /\ mem # NoJournal /\ mem \in Journal
      /\ UNCHANGED <<target, rollback, staged, carried, database, marker, crashes, faults>>
  BY PlanFacts DEF WriteJournal, files, RestoreInv, RestoreTypes, TypeOK
<1>2. pc # "idle" /\ Tells(mem)
  BY <1>1 DEF RestoreInv, JournalsTell, ModesFit
<1>3. CASE pc = "giveup"
  <2>1. pc' = "idle" /\ mode' = "none" /\ mem' = NewJournal /\ dirty' = FALSE
        /\ at' \in 0..(N + 1)
    BY <1>3, ExitTypes DEF WriteJournal, RestoreInv, RestoreTypes
  <2>2. RestoreTypes'
    BY <1>1, <2>1, FilesTypes, JournalRow DEF RestoreInv, RestoreTypes, TypeOK, Modes, Steps
  <2>3. JournalsTell'
    BY <1>1, <1>2, <2>1, FilesStay, PlanKept DEF RestoreInv, JournalsTell, Tells, Done, Undone, Serving, RestoreMarkersPresent,
      Recoverable
  <2>4. ModesFit' /\ DiskFollows' /\ ApplyStands' /\ UndoStands'
    BY <2>1 DEF ModesFit, DiskFollows, ApplyStands, UndoStands, ApplySteps, UndoSteps, EndSteps
  <2>. QED
    BY <2>2, <2>3, <2>4 DEF RestoreInv
<1>4. CASE pc # "giveup"
  <2>1. dirty' = FALSE /\ UNCHANGED <<mem, mode, pc, at>>
    BY <1>4 DEF WriteJournal
  <2>2. RestoreTypes'
    BY <1>1, <2>1, FilesTypes DEF RestoreInv, RestoreTypes, TypeOK
  <2>3. JournalsTell'
    BY <1>1, <1>2, <2>1, FilesStay, PlanKept DEF RestoreInv, JournalsTell, Tells, Done, Undone, Serving, RestoreMarkersPresent,
      Recoverable
  <2>4. ModesFit'
    BY <1>1, <1>4, <2>1 DEF RestoreInv, ModesFit
  <2>5. DiskFollows'
    BY <1>1, <1>4, <2>1, PlanKept DEF RestoreInv, DiskFollows, NotAhead, ModesFit, UndoSteps, EndSteps
  <2>6. ApplyStands' /\ UndoStands'
    BY <1>1, <1>4, <2>1, FilesStay, PlanKept DEF RestoreInv, ApplyStands, UndoStands, Undone
  <2>. QED
    BY <2>2, <2>3, <2>4, <2>5, <2>6 DEF RestoreInv
<1>. QED
  BY <1>3, <1>4

\* The marker closes the service.
LEMMA WriteMarkerStep ==
  ASSUME RestoreInv, UNCHANGED plan, WriteMarker
  PROVE  RestoreInv'
<1>1. /\ pc = "mark" /\ ~dirty /\ pc' = "list" /\ marker' = TRUE
      /\ UNCHANGED <<target, rollback, staged, carried, database, disk, mem, dirty, mode, at, crashes, faults>>
  BY DEF WriteMarker, At, Goto, NoNote, files
<1>2. disk = mem /\ disk # NoJournal
  BY <1>1, PlanFacts DEF RestoreInv, RestoreTypes, TypeOK, ModesFit, DiskFollows, ApplySteps
<1>3. RestoreTypes'
  BY <1>1, FilesTypes DEF RestoreInv, RestoreTypes, TypeOK, Steps
<1>4. JournalsTell'
  BY <1>1, <1>2, DataStays, PlanKept DEF RestoreInv, JournalsTell, Serving, RestoreMarkersPresent
<1>5. ModesFit'
  BY <1>1 DEF RestoreInv, ModesFit, ApplySteps, UndoSteps, EndSteps
<1>6. DiskFollows'
  BY <1>1, <1>2 DEF RestoreInv, ModesFit, DiskFollows, ApplySteps, UndoSteps
<1>7. ApplyStands' /\ UndoStands'
  BY <1>1, FilesStay, PlanKept DEF RestoreInv, ApplyStands, UndoStands, ApplySteps, UndoSteps, EndSteps
<1>. QED
  BY <1>3, <1>4, <1>5, <1>6, <1>7 DEF RestoreInv

\* The entry is listed before it is moved.
LEMMA ListEntryStep ==
  ASSUME RestoreInv, UNCHANGED plan, ListEntry
  PROVE  RestoreInv'
<1>1. /\ pc = "list" /\ ~dirty /\ at <= N /\ pc' = "moveold" /\ dirty' = TRUE
      /\ mem' = [mem EXCEPT !.listed = at, !.had[at] = (target[at] # "none")]
      /\ UNCHANGED <<target, rollback, staged, carried, database, marker, disk, mode, at, crashes, faults>>
  BY DEF ListEntry, At, Goto, Note, files
<1>2. /\ plan \in Plans /\ mem \in Journal /\ at \in Entries /\ mem.listed = at - 1 /\ Untouched(at)
  BY <1>1, PlanFacts DEF RestoreInv, RestoreTypes, TypeOK, ApplyStands
<1>3. /\ mem' \in Journal /\ mem'.listed = at /\ mem'.new = mem.new
      /\ mem'.had[at] = (target[at] # "none") /\ \A n \in Entries : n # at => mem'.had[n] = mem.had[n]
      /\ mem'.started = mem.started /\ mem'.committed = mem.committed /\ mem'.complete = mem.complete
  <2>1. PICK b \in BOOLEAN : b = (target[at] # "none")
    OBVIOUS
  <2>2. mem' = Listed(mem, at, b)
    BY <1>1, <2>1 DEF Listed
  <2>3. /\ mem' \in Journal /\ mem'.listed = at /\ mem'.new = mem.new
        /\ mem'.had[at] = b /\ \A n \in Entries : n # at => mem'.had[n] = mem.had[n]
        /\ mem'.started = mem.started /\ mem'.committed = mem.committed /\ mem'.complete = mem.complete
    BY <1>2, <2>2, ListedRow
  <2>. QED
    BY <2>1, <2>3
<1>4. (target[at] # "none") = (at \in Original)
  BY <1>2, PlanFacts DEF Untouched, Back
<1>5. disk = mem /\ marker /\ ~mem.complete /\ mode = "apply"
  BY <1>1 DEF RestoreInv, ModesFit, DiskFollows, ApplySteps
<1>6. RestoreTypes'
  BY <1>1, <1>2, <1>3, FilesTypes DEF RestoreInv, RestoreTypes, TypeOK, Steps
<1>7. Tells(mem)'
  <2>1. Recoverable(mem)
    BY <1>1, <1>5 DEF RestoreInv, JournalsTell, Tells
  <2>2. /\ \A i \in Entries : Whole(i)
        /\ \A i \in Entries : i > at => Back(i)
        /\ \A i \in Entries : i <= at => mem'.had[i] = (i \in Original)
        /\ \A i \in Entries : i \in Original /\ mem'.new[i] => rollback[i] = "old"
        /\ CommitBegun(mem') = CommitBegun(mem)
    BY <1>2, <1>3, <1>4, <2>1, PlanFacts DEF Recoverable, CommitBegun
  <2>. QED
    BY <1>1, <1>3, <1>5, <2>1, <2>2, FilesStay, PlanKept DEF Tells, Recoverable
<1>8. JournalsTell'
  BY <1>1, <1>5, <1>7, DataStays, PlanKept DEF RestoreInv, JournalsTell, Serving, RestoreMarkersPresent
<1>9. ModesFit'
  BY <1>1, <1>3, <1>5 DEF RestoreInv, ModesFit, ApplySteps, UndoSteps, EndSteps, CommitBegun
<1>10. DiskFollows'
  BY <1>1, <1>2, <1>3, <1>5, PlanKept, PlanFacts DEF RestoreInv, DiskFollows, NotAhead, ApplySteps, UndoSteps, CommitBegun
<1>11. ApplyStands' /\ UndoStands'
  BY <1>1, <1>2, <1>3, <1>5, FilesStay, PlanKept DEF RestoreInv, ApplyStands, UndoStands, ApplySteps, UndoSteps, EndSteps
<1>. QED
  BY <1>6, <1>8, <1>9, <1>10, <1>11 DEF RestoreInv

\* Every entry has been replaced.
LEMMA AllListedStep ==
  ASSUME RestoreInv, UNCHANGED plan, AllListed
  PROVE  RestoreInv'
<1>1. /\ pc = "list" /\ ~dirty /\ at > N
      /\ pc' = IF ServerDatabase THEN "import" ELSE "finish"
      /\ UNCHANGED <<target, rollback, staged, carried, database, marker, disk, mem, dirty, mode, at, crashes, faults>>
  BY DEF AllListed, At, Goto, NoNote, files
<1>2. plan \in Plans /\ at \in 0..(N + 1) /\ N \in Nat /\ mem.listed = at - 1
  BY <1>1, PlanFacts DEF RestoreInv, RestoreTypes, TypeOK, ApplyStands
<1>3. at = N + 1 /\ mem.listed = N
  BY <1>1, <1>2
<1>4. RestoreTypes'
  BY <1>1, <1>2, FilesTypes DEF RestoreInv, RestoreTypes, TypeOK, Steps
<1>5. JournalsTell'
  BY <1>1, DataStays, PlanKept DEF RestoreInv, JournalsTell, Serving, RestoreMarkersPresent
<1>6. ModesFit' /\ DiskFollows'
  BY <1>1 DEF RestoreInv, ModesFit, DiskFollows, ApplySteps, UndoSteps, EndSteps
<1>7. ~ServerDatabase => database # "new"
  BY DEF RestoreInv, JournalsTell
<1>8. ApplyStands' /\ UndoStands'
  BY <1>1, <1>2, <1>3, <1>7, FilesStay, PlanKept, PlanFacts
  DEF RestoreInv, ApplyStands, UndoStands, ApplySteps, UndoSteps, EndSteps
<1>. QED
  BY <1>4, <1>5, <1>6, <1>8 DEF RestoreInv

\* The commit of the server database is announced.
LEMMA ImportDatabaseStep ==
  ASSUME RestoreInv, UNCHANGED plan, ImportDatabase
  PROVE  RestoreInv'
<1>1. /\ pc = "import" /\ ~dirty /\ pc' = "commit" /\ dirty' = TRUE
      /\ mem' = [mem EXCEPT !.started = TRUE]
      /\ UNCHANGED <<target, rollback, staged, carried, database, marker, disk, mode, at, crashes, faults>>
  BY DEF ImportDatabase, At, Goto, Note, files
<1>2. plan \in Plans /\ mem \in Journal /\ ServerDatabase
  BY <1>1 DEF RestoreInv, RestoreTypes, TypeOK, ApplyStands
<1>3. /\ mem' \in Journal /\ mem'.listed = mem.listed /\ mem'.had = mem.had /\ mem'.new = mem.new
      /\ mem'.started /\ mem'.committed = mem.committed /\ mem'.complete = mem.complete
  BY <1>1, <1>2, FlagRows
<1>4. disk = mem /\ marker /\ ~mem.complete /\ mode = "apply" /\ disk # NoJournal
  BY <1>1 DEF RestoreInv, ModesFit, DiskFollows, ApplySteps, JournalsTell
<1>5. RestoreTypes'
  BY <1>1, <1>2, <1>3, FilesTypes DEF RestoreInv, RestoreTypes, TypeOK, Steps
<1>6. Tells(mem)'
  <2>1. Recoverable(mem)
    BY <1>1, <1>4 DEF RestoreInv, JournalsTell, Tells
  <2>. QED
    BY <1>1, <1>2, <1>3, <1>4, <2>1, FilesStay, PlanKept DEF Tells, Recoverable, CommitBegun
<1>7. JournalsTell'
  BY <1>1, <1>4, <1>6, DataStays, PlanKept DEF RestoreInv, JournalsTell, Serving, RestoreMarkersPresent
<1>8. ModesFit'
  BY <1>1, <1>3, <1>4 DEF RestoreInv, ModesFit, ApplySteps, UndoSteps, EndSteps
<1>9. DiskFollows'
  BY <1>1, <1>2, <1>3, <1>4, PlanKept DEF RestoreInv, DiskFollows, NotAhead, ApplySteps, UndoSteps, CommitBegun
<1>10. ApplyStands' /\ UndoStands'
  BY <1>1, <1>2, <1>3, <1>4, FilesStay, PlanKept
  DEF RestoreInv, ApplyStands, UndoStands, ApplySteps, UndoSteps, EndSteps, CommitBegun
<1>. QED
  BY <1>5, <1>7, <1>8, <1>9, <1>10 DEF RestoreInv

\* The server database is committed.
LEMMA CommitDatabaseStep ==
  ASSUME RestoreInv, UNCHANGED plan, CommitDatabase
  PROVE  RestoreInv'
<1>1. /\ pc = "commit" /\ ~dirty /\ pc' = "committed" /\ database' = "new"
      /\ UNCHANGED <<target, rollback, staged, carried, marker, disk, mem, dirty, mode, at, crashes, faults>>
  BY DEF CommitDatabase, At, Goto, NoNote, files
<1>2. plan \in Plans /\ ServerDatabase /\ CommitBegun(mem)
  BY <1>1 DEF RestoreInv, RestoreTypes, TypeOK, ApplyStands
<1>3. disk = mem /\ marker /\ ~mem.complete /\ mode = "apply" /\ disk # NoJournal
  BY <1>1 DEF RestoreInv, ModesFit, DiskFollows, ApplySteps, JournalsTell
<1>4. RestoreTypes'
  BY <1>1, FilesTypes DEF RestoreInv, RestoreTypes, TypeOK, Steps
<1>5. Tells(mem)'
  <2>1. Recoverable(mem)
    BY <1>1, <1>3 DEF RestoreInv, JournalsTell, Tells
  <2>. QED
    BY <1>1, <1>2, <1>3, <2>1, FilesStay, PlanKept DEF Tells, Recoverable
<1>6. Tells(disk)'
  BY <1>1, <1>3, <1>5
<1>7. JournalsTell'
  BY <1>1, <1>2, <1>3, <1>5, <1>6, PlanKept DEF RestoreInv, JournalsTell, Serving, RestoreMarkersPresent
<1>8. ModesFit' /\ DiskFollows'
  BY <1>1, <1>3 DEF RestoreInv, ModesFit, DiskFollows, ApplySteps, UndoSteps, EndSteps
<1>9. ApplyStands' /\ UndoStands'
  BY <1>1, <1>2, <1>3, FilesStay, PlanKept
  DEF RestoreInv, ApplyStands, UndoStands, ApplySteps, UndoSteps, EndSteps
<1>. QED
  BY <1>4, <1>7, <1>8, <1>9 DEF RestoreInv

\* The commit is noted.
LEMMA NoteCommittedStep ==
  ASSUME RestoreInv, UNCHANGED plan, NoteCommitted
  PROVE  RestoreInv'
<1>1. /\ pc = "committed" /\ ~dirty /\ pc' = "finish" /\ dirty' = TRUE
      /\ mem' = [mem EXCEPT !.committed = TRUE]
      /\ UNCHANGED <<target, rollback, staged, carried, database, marker, disk, mode, at, crashes, faults>>
  BY DEF NoteCommitted, At, Goto, Note, files
<1>2. plan \in Plans /\ mem \in Journal /\ ServerDatabase /\ database = "new" /\ CommitBegun(mem)
  BY <1>1 DEF RestoreInv, RestoreTypes, TypeOK, ApplyStands
<1>3. /\ mem' \in Journal /\ mem'.listed = mem.listed /\ mem'.had = mem.had /\ mem'.new = mem.new
      /\ mem'.started = mem.started /\ mem'.committed /\ mem'.complete = mem.complete
  BY <1>1, <1>2, FlagRows
<1>4. disk = mem /\ marker /\ ~mem.complete /\ mode = "apply" /\ disk # NoJournal
  BY <1>1 DEF RestoreInv, ModesFit, DiskFollows, ApplySteps, JournalsTell
<1>5. mem.started
  BY <1>1, <1>2, <1>4 DEF RestoreInv, ApplyStands, ApplySteps, CommitBegun
<1>6. RestoreTypes'
  BY <1>1, <1>2, <1>3, FilesTypes DEF RestoreInv, RestoreTypes, TypeOK, Steps
<1>7. Tells(mem)'
  <2>1. Recoverable(mem)
    BY <1>1, <1>4 DEF RestoreInv, JournalsTell, Tells
  <2>. QED
    BY <1>1, <1>2, <1>3, <1>4, <2>1, FilesStay, PlanKept DEF Tells, Recoverable, CommitBegun
<1>8. JournalsTell'
  BY <1>1, <1>4, <1>7, DataStays, PlanKept DEF RestoreInv, JournalsTell, Serving, RestoreMarkersPresent
<1>9. ModesFit'
  BY <1>1, <1>3, <1>4 DEF RestoreInv, ModesFit, ApplySteps, UndoSteps, EndSteps
<1>10. DiskFollows'
  BY <1>1, <1>2, <1>3, <1>4, PlanKept DEF RestoreInv, DiskFollows, NotAhead, ApplySteps, UndoSteps, CommitBegun
<1>11. ApplyStands' /\ UndoStands'
  BY <1>1, <1>2, <1>3, <1>4, <1>5, FilesStay, PlanKept
  DEF RestoreInv, ApplyStands, UndoStands, ApplySteps, UndoSteps, EndSteps
<1>. QED
  BY <1>6, <1>8, <1>9, <1>10, <1>11 DEF RestoreInv

\* The restore is complete: every entry is the new one.
LEMMA FinishStep ==
  ASSUME RestoreInv, UNCHANGED plan, Finish
  PROVE  RestoreInv'
<1>1. /\ pc = "finish" /\ ~dirty /\ pc' = "cleanup" /\ dirty' = TRUE
      /\ mem' = [mem EXCEPT !.complete = TRUE]
      /\ UNCHANGED <<target, rollback, staged, carried, database, marker, disk, mode, at, crashes, faults>>
  BY DEF Finish, At, Goto, Note, files
<1>2. plan \in Plans /\ mem \in Journal /\ (database = "new" <=> ServerDatabase) /\ mem.listed = N
      /\ at = N + 1 /\ N \in Nat /\ \A i \in Entries : i < at => Replaced(i)
  BY <1>1, PlanFacts DEF RestoreInv, RestoreTypes, TypeOK, ApplyStands, ApplySteps
<1>3. /\ mem' \in Journal /\ mem'.listed = mem.listed /\ mem'.had = mem.had /\ mem'.new = mem.new
      /\ mem'.started = mem.started /\ mem'.committed = mem.committed /\ mem'.complete
  BY <1>1, <1>2, FlagRows
<1>4. disk = mem /\ marker /\ ~mem.complete /\ mode = "apply" /\ disk # NoJournal
  BY <1>1 DEF RestoreInv, ModesFit, DiskFollows, ApplySteps, JournalsTell
<1>5. Done
  <2>1. \A i \in Entries : target[i] = After[i]
    BY <1>2, PlanFacts DEF Replaced
  <2>2. target \in [Entries -> Contents] /\ After \in [Entries -> {"new", "none"}]
    BY <1>2, PlanFacts DEF RestoreInv, RestoreTypes, TypeOK
  <2>3. target = After
    BY <2>1, <2>2
  <2>. QED
    BY <1>2, <2>3 DEF Done
<1>6. RestoreTypes'
  BY <1>1, <1>2, <1>3, FilesTypes DEF RestoreInv, RestoreTypes, TypeOK, Steps
<1>7. Tells(mem)'
  BY <1>1, <1>2, <1>3, <1>5, DataStays, PlanKept DEF Tells
<1>8. JournalsTell'
  BY <1>1, <1>4, <1>7, DataStays, PlanKept DEF RestoreInv, JournalsTell, Serving, RestoreMarkersPresent
<1>9. ModesFit'
  BY <1>1, <1>3, <1>4 DEF RestoreInv, ModesFit, ApplySteps, UndoSteps, EndSteps
<1>10. DiskFollows'
  BY <1>1, <1>2, <1>3, <1>4, PlanKept DEF RestoreInv, DiskFollows, NotAhead, ApplySteps, UndoSteps, CommitBegun
<1>11. ApplyStands' /\ UndoStands'
  BY <1>1, <1>3 DEF ApplyStands, UndoStands, ApplySteps, UndoSteps, EndSteps
<1>. QED
  BY <1>6, <1>8, <1>9, <1>10, <1>11 DEF RestoreInv

\* _rollback_swaps is through: everything is as before.
LEMMA AllBack ==
  ASSUME RestoreInv, \A i \in Entries : Back(i), database = "old"
  PROVE  NoRollback /\ Undone
<1>1. plan \in Plans /\ target \in [Entries -> Contents]
  BY DEF RestoreInv, RestoreTypes, TypeOK
<1>2. target = Before
  BY <1>1, PlanFacts DEF Back
<1>. QED
  BY <1>2 DEF Back, NoRollback, Undone

LEMMA RolledBackStep ==
  ASSUME RestoreInv, UNCHANGED plan, RolledBack
  PROVE  RestoreInv'
<1>1. /\ pc = "removenew" /\ ~dirty /\ at = 0 /\ mem' = mem
      /\ pc' = IF mode = "undo" THEN "unmark" ELSE "cleanup"
      /\ dirty' = (mode = "undo")
      /\ UNCHANGED <<target, rollback, staged, carried, database, marker, disk, mode, at, crashes, faults>>
  BY DEF RolledBack, At, Goto, Note, NoNote, files, RestoreInv, RestoreTypes, TypeOK
<1>2. mode \in {"undo", "recover"} /\ ~mem.complete /\ ~CommitBegun(mem)
  BY <1>1 DEF RestoreInv, ModesFit, UndoSteps
<1>3. NoRollback /\ Undone
  <2>1. \A i \in Entries : Back(i)
    BY <1>1, PlanFacts DEF RestoreInv, RestoreTypes, UndoStands, UndoSteps
  <2>2. database = "old"
    BY <1>1, <1>2 DEF RestoreInv, JournalsTell, Tells, Recoverable
  <2>. QED
    BY <2>1, <2>2, AllBack
<1>4. RestoreTypes'
  BY <1>1, FilesTypes DEF RestoreInv, RestoreTypes, TypeOK, Steps
<1>5. JournalsTell'
  BY <1>1, DataStays, PlanKept DEF RestoreInv, JournalsTell, Serving, RestoreMarkersPresent
<1>6. ModesFit'
  BY <1>1, <1>2 DEF RestoreInv, ModesFit, ApplySteps, UndoSteps, EndSteps
<1>7. DiskFollows'
  BY <1>1, <1>2 DEF RestoreInv, DiskFollows, ApplySteps, UndoSteps, EndSteps
<1>8. ApplyStands' /\ UndoStands'
  BY <1>1, <1>2, <1>3, DataStays DEF ApplyStands, UndoStands, ApplySteps, UndoSteps, EndSteps
<1>. QED
  BY <1>4, <1>5, <1>6, <1>7, <1>8 DEF RestoreInv

\* No rollback sibling is left.
LEMMA CleanupDoneStep ==
  ASSUME RestoreInv, UNCHANGED plan, CleanupDone
  PROVE  RestoreInv'
<1>1. /\ pc = "cleanup" /\ ~dirty
      /\ \A i \in Entries : i <= mem.listed => rollback[i] = "none"
      /\ pc' = IF mode = "apply" THEN "unmark" ELSE "unstage"
      /\ UNCHANGED <<target, rollback, staged, carried, database, marker, disk, mem, dirty, mode, at, crashes, faults>>
  BY DEF CleanupDone, At, Goto, NoNote, files
<1>2. mode \in {"apply", "recover"} /\ (~mem.complete => mode # "apply")
  BY <1>1 DEF RestoreInv, ModesFit, EndSteps
<1>3. NoRollback
  <2>1. CASE mem.complete
    <3>1. mem.listed = N
      BY <1>1, <2>1 DEF RestoreInv, JournalsTell, Tells
    <3>. QED
      BY <1>1, <3>1, PlanFacts DEF RestoreInv, RestoreTypes, NoRollback
  <2>2. CASE ~mem.complete
    BY <1>1, <2>2 DEF RestoreInv, UndoStands
  <2>. QED
    BY <2>1, <2>2
<1>4. RestoreTypes'
  BY <1>1, FilesTypes DEF RestoreInv, RestoreTypes, TypeOK, Steps
<1>5. JournalsTell'
  BY <1>1, DataStays, PlanKept DEF RestoreInv, JournalsTell, Serving, RestoreMarkersPresent
<1>6. ModesFit'
  BY <1>1, <1>2 DEF RestoreInv, ModesFit, ApplySteps, UndoSteps, EndSteps
<1>7. DiskFollows'
  BY <1>1, <1>2 DEF RestoreInv, DiskFollows, ApplySteps, UndoSteps, EndSteps
<1>8. ApplyStands' /\ UndoStands'
  BY <1>1, <1>2, <1>3, DataStays DEF RestoreInv, ApplyStands, UndoStands, ApplySteps, UndoSteps, EndSteps
<1>. QED
  BY <1>4, <1>5, <1>6, <1>7, <1>8 DEF RestoreInv

\* The marker goes first, the journal after it.
LEMMA RemoveMarkerStep ==
  ASSUME RestoreInv, UNCHANGED plan, RemoveMarker
  PROVE  RestoreInv'
<1>1. /\ pc = "unmark" /\ ~dirty /\ marker' = FALSE /\ pc' = "unjournal"
      /\ UNCHANGED <<target, rollback, staged, carried, database, disk, mem, dirty, mode, at, crashes, faults>>
  BY DEF RemoveMarker, At, Goto, NoNote, files
<1>2. disk # NoJournal /\ mode \in {"apply", "undo", "recover"}
  BY <1>1 DEF RestoreInv, RestoreTypes, TypeOK, Modes, ModesFit, DiskFollows, JournalsTell
<1>3. RestoreTypes'
  BY <1>1, FilesTypes DEF RestoreInv, RestoreTypes, TypeOK, Steps
<1>4. JournalsTell'
  BY <1>1, <1>2, DataStays, PlanKept DEF RestoreInv, JournalsTell, Serving, RestoreMarkersPresent
<1>5. ModesFit'
  BY <1>1, <1>2 DEF RestoreInv, ModesFit, ApplySteps, UndoSteps, EndSteps
<1>6. DiskFollows'
  BY <1>1, <1>2 DEF RestoreInv, DiskFollows, ApplySteps, UndoSteps, EndSteps
<1>7. ApplyStands' /\ UndoStands'
  BY <1>1, <1>2, DataStays DEF RestoreInv, ApplyStands, UndoStands, ApplySteps, UndoSteps, EndSteps
<1>. QED
  BY <1>3, <1>4, <1>5, <1>6, <1>7 DEF RestoreInv

\* A process that ends leaves an instance that its journal tells of.
LEMMA ExitStep ==
  ASSUME RestoreInv, UNCHANGED <<plan, target, rollback, staged, carried>>, Exit,
         marker' \in BOOLEAN, disk' \in Journal \union {NoJournal}, database' \in {"old", "new"},
         crashes' \in Nat, faults' \in Nat,
         disk' # NoJournal => Tells(disk)',
         Serving' => NoRollback /\ (Undone \/ Done)',
         marker' => disk' # NoJournal, database' = "new" => ServerDatabase
  PROVE  RestoreInv'
<1>1. /\ pc' = "idle" /\ mode' = "none" /\ mem' = NewJournal /\ mem' \in Journal
      /\ dirty' = FALSE /\ at' \in 0..(N + 1)
  BY ExitTypes DEF RestoreInv, RestoreTypes
<1>2. RestoreTypes'
  BY <1>1, FilesTypes DEF RestoreInv, RestoreTypes, TypeOK, Modes, Steps
<1>3. JournalsTell'
  BY <1>1, FilesStay, PlanKept DEF JournalsTell
<1>4. ModesFit' /\ DiskFollows' /\ ApplyStands' /\ UndoStands'
  BY <1>1 DEF ModesFit, DiskFollows, ApplyStands, UndoStands, ApplySteps, UndoSteps, EndSteps
<1>. QED
  BY <1>2, <1>3, <1>4 DEF RestoreInv

LEMMA CrashStep ==
  ASSUME RestoreInv, UNCHANGED plan, Crash
  PROVE  RestoreInv'
<1>1. Exit /\ UNCHANGED <<target, rollback, staged, carried, database, marker, disk, faults>>
      /\ crashes' \in Nat
  BY DEF Crash, files, RestoreInv, RestoreTypes, TypeOK
<1>2. /\ disk' # NoJournal => Tells(disk)'
      /\ Serving' => NoRollback /\ (Undone \/ Done)'
      /\ marker' => disk' # NoJournal
      /\ database' = "new" => ServerDatabase
  BY <1>1, DataStays DEF RestoreInv, JournalsTell, Serving, RestoreMarkersPresent
<1>. QED
  BY <1>1, <1>2, ExitStep DEF RestoreInv, RestoreTypes, TypeOK

\* The journal is gone and the service may run.
LEMMA RemoveJournalStep ==
  ASSUME RestoreInv, UNCHANGED plan, RemoveJournal
  PROVE  RestoreInv'
<1>1. /\ pc = "unjournal" /\ ~dirty /\ disk' = NoJournal
      /\ UNCHANGED <<target, rollback, staged, carried, database, marker, crashes, faults>>
  BY DEF RemoveJournal, At, files
<1>2. ~marker /\ NoRollback /\ (Undone \/ Done)
  BY <1>1 DEF RestoreInv, DiskFollows, UndoStands, EndSteps, JournalsTell, Tells
<1>3. CASE mode = "recover"
  <2>1. Exit
    BY <1>3 DEF RemoveJournal
  <2>2. Serving' => NoRollback /\ (Undone \/ Done)'
    BY <1>1, <1>2, DataStays
  <2>. QED
    BY <1>1, <1>2, <2>1, <2>2, ExitStep DEF RestoreInv, RestoreTypes, TypeOK, JournalsTell
<1>4. CASE mode # "recover"
  <2>1. pc' = "unstage" /\ UNCHANGED <<mem, dirty, mode, at>>
    BY <1>4 DEF RemoveJournal, NoNote, Goto
  <2>2. RestoreTypes'
    BY <1>1, <2>1, FilesTypes DEF RestoreInv, RestoreTypes, TypeOK, Steps
  <2>3. JournalsTell'
    BY <1>1, <1>2, <2>1, DataStays, PlanKept DEF RestoreInv, JournalsTell, Serving, RestoreMarkersPresent
  <2>4. ModesFit'
    BY <1>1, <2>1 DEF RestoreInv, ModesFit, ApplySteps, UndoSteps, EndSteps
  <2>5. DiskFollows'
    BY <1>1, <1>2, <1>4, <2>1 DEF RestoreInv, DiskFollows, ApplySteps, UndoSteps, EndSteps
  <2>6. ApplyStands' /\ UndoStands'
    BY <1>1, <1>2, <2>1, DataStays DEF RestoreInv, ApplyStands, UndoStands, ApplySteps, UndoSteps, EndSteps
  <2>. QED
    BY <2>2, <2>3, <2>4, <2>5, <2>6 DEF RestoreInv
<1>. QED
  BY <1>3, <1>4

\* The staged files are gone.
LEMMA StagingRemovedStep ==
  ASSUME RestoreInv, UNCHANGED plan, StagingRemoved
  PROVE  RestoreInv'
<1>1. /\ pc = "unstage" /\ ~dirty
      /\ UNCHANGED <<target, rollback, staged, carried, database, marker, disk, crashes, faults>>
  BY DEF StagingRemoved, At, files
<1>2. CASE mode = "recover"
  <2>1. pc' = "unmark" /\ UNCHANGED <<mem, dirty, mode, at>>
    BY <1>2 DEF StagingRemoved, NoNote, Goto
  <2>2. RestoreTypes'
    BY <1>1, <2>1, FilesTypes DEF RestoreInv, RestoreTypes, TypeOK, Steps
  <2>3. JournalsTell'
    BY <1>1, <2>1, DataStays, PlanKept DEF RestoreInv, JournalsTell, Serving, RestoreMarkersPresent
  <2>4. ModesFit'
    BY <1>1, <1>2, <2>1 DEF RestoreInv, ModesFit, ApplySteps, UndoSteps, EndSteps
  <2>5. DiskFollows'
    BY <1>1, <1>2, <2>1 DEF RestoreInv, DiskFollows, ApplySteps, UndoSteps, EndSteps
  <2>6. ApplyStands' /\ UndoStands'
    BY <1>1, <2>1, DataStays DEF RestoreInv, ApplyStands, UndoStands, ApplySteps, UndoSteps, EndSteps
  <2>. QED
    BY <2>2, <2>3, <2>4, <2>5, <2>6 DEF RestoreInv
<1>3. CASE mode # "recover"
  <2>1. Exit
    BY <1>3 DEF StagingRemoved
  <2>2. /\ disk' # NoJournal => Tells(disk)'
        /\ Serving' => NoRollback /\ (Undone \/ Done)'
        /\ marker' => disk' # NoJournal
        /\ database' = "new" => ServerDatabase
    BY <1>1, DataStays DEF RestoreInv, JournalsTell, Serving, RestoreMarkersPresent
  <2>. QED
    BY <1>1, <2>1, <2>2, ExitStep DEF RestoreInv, RestoreTypes, TypeOK
<1>. QED
  BY <1>2, <1>3

\* restore recover takes up the journal it finds.
LEMMA RecoverStep ==
  ASSUME RestoreInv, UNCHANGED plan, Recover
  PROVE  RestoreInv'
<1>1. /\ disk # NoJournal /\ mem' = disk /\ dirty' = FALSE /\ mode' = "recover"
      /\ disk.complete \/ ~CommitBegun(disk)
      /\ pc' = IF disk.complete THEN "cleanup" ELSE "removenew"
      /\ at' = disk.listed
      /\ UNCHANGED <<target, rollback, staged, carried, database, marker, disk, crashes, faults>>
  BY DEF Recover, Refuses, files
<1>2. plan \in Plans /\ disk \in Journal /\ disk.listed \in 0..N /\ N \in Nat
      /\ disk.listed \in 0..(N + 1)
  BY <1>1, JournalRow, PlanFacts DEF RestoreInv, RestoreTypes, TypeOK
<1>3. Tells(disk)
  BY <1>1 DEF RestoreInv, JournalsTell
<1>4. RestoreTypes'
  BY <1>1, <1>2, FilesTypes DEF RestoreInv, RestoreTypes, TypeOK, Steps, Modes
<1>5. JournalsTell'
  BY <1>1, <1>3, DataStays, PlanKept DEF RestoreInv, JournalsTell, Serving, RestoreMarkersPresent
<1>6. ModesFit'
  BY <1>1 DEF ModesFit, ApplySteps, UndoSteps, EndSteps
<1>7. DiskFollows'
  BY <1>1 DEF DiskFollows, NotAhead, ApplySteps, UndoSteps
<1>8. ApplyStands'
  BY <1>1 DEF ApplyStands, ApplySteps
<1>9. UndoStands'
  <2>1. ~disk.complete => \A i \in Entries : i > disk.listed => Back(i)
    BY <1>3 DEF Tells, Recoverable
  <2>2. pc' \in UndoSteps => at' <= mem'.listed /\ \A i \in Entries : i > at' => Back(i)
    BY <1>1, <1>2, <2>1 DEF UndoSteps
  <2>. QED
    BY <1>1, <2>2, FilesStay, PlanKept DEF UndoStands, EndSteps
<1>. QED
  BY <1>4, <1>5, <1>6, <1>7, <1>8, <1>9 DEF RestoreInv

(***************************************************************************)
(* A call raises and leaves the marker m and the journal j behind.         *)
(***************************************************************************)
\* Either nothing was moved yet, or all is done.
LEMMA ExceptionHarmless ==
  ASSUME RestoreInv, UNCHANGED <<plan, target, rollback, staged, carried, database, mem, mode, at>>,
         pc \in Steps \ {"idle", "unstage"}, mode = "apply",
         ~marker \/ pc = "mark", marker' = FALSE,
         disk' = NoJournal, pc' = "unstage", dirty' = FALSE, crashes' \in Nat, faults' \in Nat
  PROVE  RestoreInv'
<1>1. pc \in {"mark", "unjournal"}
  BY DEF RestoreInv, DiskFollows
<1>2. plan \in Plans /\ N \in Nat /\ Entries = 1..N
  BY PlanFacts DEF RestoreInv, RestoreTypes
<1>3. CASE pc = "mark"
  <2>1. ~mem.complete /\ ~CommitBegun(mem) /\ at = 1 /\ (at <= N => Untouched(at))
        /\ \A i \in Entries : i > at => Untouched(i)
    BY <1>3 DEF RestoreInv, ModesFit, ApplyStands, ApplySteps
  <2>2. \A i \in Entries : Back(i)
    <3>1. \A i \in Entries : i = at \/ i > at
      BY <1>2, <2>1
    <3>. QED
      BY <1>2, <2>1, <3>1 DEF Untouched
  <2>3. database = "old"
    BY <1>3, <2>1 DEF RestoreInv, JournalsTell, Tells, Recoverable
  <2>4. NoRollback /\ Undone
    BY <2>2, <2>3, AllBack
  <2>5. RestoreTypes'
    BY FilesTypes DEF RestoreInv, RestoreTypes, TypeOK, Steps
  <2>6. JournalsTell'
    BY <1>3, <2>4, DataStays, PlanKept DEF RestoreInv, JournalsTell, Serving, RestoreMarkersPresent
  <2>7. ModesFit' /\ DiskFollows'
    BY <1>3, <2>1 DEF RestoreInv, ModesFit, DiskFollows, ApplySteps, UndoSteps, EndSteps
  <2>8. ApplyStands' /\ UndoStands'
    BY <1>3, <2>1, <2>4, DataStays DEF ApplyStands, UndoStands, ApplySteps, UndoSteps, EndSteps
  <2>. QED
    BY <2>5, <2>6, <2>7, <2>8 DEF RestoreInv
<1>4. CASE pc = "unjournal"
  <2>1. mem.complete /\ NoRollback
    BY <1>4 DEF RestoreInv, ModesFit, UndoStands, EndSteps
  <2>2. Done
    BY <1>4, <2>1 DEF RestoreInv, JournalsTell, Tells
  <2>3. RestoreTypes'
    BY FilesTypes DEF RestoreInv, RestoreTypes, TypeOK, Steps
  <2>. QED
    BY <2>1, <2>2, <2>3, <1>4, DataStays, PlanKept
    DEF RestoreInv, JournalsTell, Serving, RestoreMarkersPresent, ModesFit, DiskFollows, ApplyStands,
        UndoStands, ApplySteps, UndoSteps, EndSteps
<1>. QED
  BY <1>1, <1>3, <1>4

\* Nothing was committed: the except branch rolls back.
LEMMA ExceptionUndone ==
  ASSUME RestoreInv, UNCHANGED <<plan, target, rollback, staged, carried, database, mem>>,
         NEW j, disk' = j, j = disk \/ (dirty /\ j = mem),
         pc \in Steps \ {"idle", "unstage"}, mode = "apply", marker' = TRUE, marker \/ (pc = "mark" /\ ~dirty),
         ~mem.complete, ~CommitBegun(mem),
         mode' = "undo", pc' = "removenew", at' = mem.listed, dirty' = FALSE,
         crashes' \in Nat, faults' \in Nat
  PROVE  RestoreInv'
<1>1. plan \in Plans /\ mem \in Journal /\ mem # NoJournal /\ mem.listed \in 0..N /\ N \in Nat
      /\ mem.listed \in 0..(N + 1)
  BY PlanFacts, JournalRow DEF RestoreInv, RestoreTypes, TypeOK
<1>2. disk # NoJournal
  <2>1. CASE dirty
    BY <2>1 DEF RestoreInv, DiskFollows, NotAhead
  <2>2. CASE ~dirty
    BY <1>1, <2>2 DEF RestoreInv, DiskFollows
  <2>. QED
    BY <2>1, <2>2
<1>3. disk \in Journal
  BY <1>2 DEF RestoreInv, RestoreTypes, TypeOK
<1>4. j \in Journal /\ j # NoJournal /\ ~j.complete /\ ~CommitBegun(j)
      /\ \A i \in Entries : j.new[i] => mem.new[i]
  <2>1. CASE ~dirty
    BY <1>1, <2>1 DEF RestoreInv, DiskFollows
  <2>2. CASE dirty
    <3>1. NotAhead
      BY <1>2, <2>2 DEF RestoreInv, DiskFollows
    <3>. QED
      BY <1>1, <1>2, <1>3, <2>2, <3>1 DEF NotAhead
  <2>. QED
    BY <2>1, <2>2
<1>5. Tells(j) /\ Tells(mem)
  BY <1>2 DEF RestoreInv, JournalsTell
<1>6. RestoreTypes'
  BY <1>1, <1>4, FilesTypes DEF RestoreInv, RestoreTypes, TypeOK, Steps, Modes
<1>7. JournalsTell'
  BY <1>4, <1>5, DataStays, PlanKept DEF RestoreInv, JournalsTell, Serving, RestoreMarkersPresent
<1>8. ModesFit'
  BY DEF ModesFit, ApplySteps, UndoSteps, EndSteps
<1>9. DiskFollows'
  <2>1. disk' # NoJournal /\ ~disk'.complete /\ ~mem'.complete
    BY <1>4
  <2>2. ~CommitBegun(disk)'
    BY <1>4 DEF CommitBegun
  <2>3. \A i \in Entries : disk'.new[i] => mem'.new[i]
    BY <1>4
  <2>4. NotAhead'
    BY <2>1, <2>2, <2>3, PlanKept DEF NotAhead
  <2>5. disk'.complete = mem'.complete
    BY <2>1, <1>1, <1>4, JournalRow DEF RestoreInv, RestoreTypes, TypeOK
  <2>. QED
    BY <2>1, <2>4, <2>5 DEF DiskFollows, ApplySteps, UndoSteps
<1>10. ApplyStands'
  BY DEF ApplyStands, ApplySteps
<1>11. UndoStands'
  <2>1. \A i \in Entries : i > mem.listed => Back(i)
    BY <1>5 DEF Tells, Recoverable
  <2>2. at' <= mem'.listed /\ \A i \in Entries : i > at' => Back(i)
    BY <1>1, <2>1
  <2>. QED
    BY <2>2, FilesStay, PlanKept DEF UndoStands, EndSteps
<1>. QED
  BY <1>6, <1>7, <1>8, <1>9, <1>10, <1>11 DEF RestoreInv

\* The process ends, in the middle of a commit or with all done or undone.
LEMMA ExceptionLeft ==
  ASSUME RestoreInv, UNCHANGED <<plan, target, rollback, staged, carried>>,
         NEW j, disk' = j, j = disk \/ (dirty /\ j = mem), disk # NoJournal,
         database' = database \/ (pc = "commit" /\ ~dirty /\ database' \in {"old", "new"}),
         pc \in Steps \ {"idle"}, marker' \in BOOLEAN,
         Exit, crashes' \in Nat, faults' \in Nat
  PROVE  RestoreInv'
<1>1. plan \in Plans /\ mem \in Journal /\ disk \in Journal /\ mem # NoJournal /\ j \in Journal /\ j # NoJournal
  BY PlanFacts DEF RestoreInv, RestoreTypes, TypeOK
<1>2. Tells(disk) /\ Tells(mem) /\ Tells(j)
  BY DEF RestoreInv, JournalsTell
<1>3. Tells(disk)' /\ (database' = "new" => ServerDatabase)
  <2>1. CASE database' = database
    BY <1>2, <2>1, DataStays DEF RestoreInv, JournalsTell
  <2>2. CASE pc = "commit" /\ ~dirty
    <3>1. disk = mem /\ ~mem.complete /\ CommitBegun(mem) /\ ServerDatabase
      BY <2>2 DEF RestoreInv, ModesFit, DiskFollows, ApplyStands, ApplySteps
    <3>2. Recoverable(mem)
      BY <1>2, <3>1 DEF Tells
    <3>3. disk' = mem
      BY <2>2, <3>1
    <3>4. \A i \in Entries : Whole(i)' /\ (i > mem.listed => Back(i)')
      BY <3>2, FilesStay DEF Recoverable
    <3>. QED
      BY <3>1, <3>2, <3>3, <3>4, PlanKept DEF Tells, Recoverable
  <2>. QED
    BY <2>1, <2>2
<1>4. ~Serving'
  BY <1>1 DEF Serving, RestoreMarkersPresent
<1>. QED
  BY <1>1, <1>3, <1>4, ExitStep DEF RestoreInv, RestoreTypes, TypeOK

\* _rollback_swaps raises: the journal is written once more.
LEMMA GivingUp ==
  ASSUME RestoreInv, UNCHANGED <<plan, target, rollback, staged, carried, database, marker, mem, mode, at>>,
         NEW j, disk' = j, j = disk \/ (dirty /\ j = mem),
         mode = "undo", pc \in UndoSteps, dirty' = TRUE, pc' = "giveup",
         crashes' \in Nat, faults' \in Nat
  PROVE  RestoreInv'
<1>1. disk # NoJournal /\ disk.complete = mem.complete
  BY DEF RestoreInv, DiskFollows, UndoSteps
<1>2. mem \in Journal /\ mem # NoJournal /\ j \in Journal /\ j # NoJournal
  BY <1>1, PlanFacts DEF RestoreInv, RestoreTypes, TypeOK
<1>3. Tells(j)
  BY <1>1 DEF RestoreInv, JournalsTell, UndoSteps
<1>4. RestoreTypes'
  BY <1>2, FilesTypes DEF RestoreInv, RestoreTypes, TypeOK, Steps
<1>5. JournalsTell'
  BY <1>2, <1>3, DataStays, PlanKept DEF RestoreInv, JournalsTell, Serving, RestoreMarkersPresent, UndoSteps
<1>6. ModesFit'
  BY DEF RestoreInv, ModesFit, ApplySteps, UndoSteps, EndSteps
<1>7. DiskFollows'
  BY <1>1, <1>2 DEF RestoreInv, DiskFollows, ApplySteps, UndoSteps
<1>8. ApplyStands' /\ UndoStands'
  BY DEF ApplyStands, UndoStands, ApplySteps, UndoSteps, EndSteps
<1>. QED
  BY <1>4, <1>5, <1>6, <1>7, <1>8 DEF RestoreInv

LEMMA FailStep ==
  ASSUME RestoreInv, UNCHANGED plan, Fail
  PROVE  RestoreInv'
<1>1. PICK j \in IF dirty THEN {disk, mem} ELSE {disk},
           m \in IF At("mark") THEN BOOLEAN ELSE {marker},
           d \in IF At("commit") THEN {"old", "new"} ELSE {database} :
         marker' = m /\ database' = d /\ Raise(m, j)
  BY DEF Fail
<1>2. /\ pc \notin {"idle", "unstage"} /\ pc \in Steps /\ crashes' \in Nat /\ faults' \in Nat
      /\ UNCHANGED <<target, rollback, staged, carried>>
  BY DEF Fail, files, RestoreInv, RestoreTypes, TypeOK
<1>3. /\ j = disk \/ (dirty /\ j = mem)
      /\ m \in BOOLEAN /\ (m = marker \/ (pc = "mark" /\ ~dirty))
      /\ d = database \/ (pc = "commit" /\ ~dirty /\ d \in {"old", "new"})
  BY DEF At, RestoreInv, RestoreTypes, TypeOK
<1>4. CASE mode = "apply" /\ HandleException(m, j)
  <2>1. CASE ~m /\ disk' = NoJournal /\ Goto("unstage", at) /\ dirty' = FALSE /\ UNCHANGED mem
    <3>1. marker' = FALSE /\ (~marker \/ pc = "mark") /\ pc # "commit"
      BY <1>1, <1>3, <1>4, <2>1 DEF RestoreInv, DiskFollows
    <3>2. database' = database
      BY <1>1, <1>3, <3>1
    <3>. QED
      BY <1>2, <1>4, <2>1, <3>1, <3>2, ExceptionHarmless DEF Goto
  <2>2. CASE m /\ (mem.complete \/ CommitBegun(mem)) /\ disk' = j /\ Exit
    <3>1. disk # NoJournal
      BY <1>3, <1>4, <2>2, PlanFacts
      DEF RestoreInv, RestoreTypes, TypeOK, DiskFollows, NotAhead, JournalsTell
    <3>. QED
      BY <1>1, <1>2, <1>3, <2>2, <3>1, ExceptionLeft
  <2>3. CASE /\ m /\ ~mem.complete /\ ~CommitBegun(mem) /\ disk' = j
             /\ mode' = "undo" /\ pc' = "removenew" /\ at' = mem.listed /\ dirty' = FALSE /\ UNCHANGED mem
    <3>1. database' = database
      BY <1>1, <1>3, <2>3 DEF RestoreInv, ApplyStands
    <3>2. marker' = TRUE /\ (marker \/ (pc = "mark" /\ ~dirty))
      BY <1>1, <1>3, <2>3
    <3>. QED
      BY <1>2, <1>3, <1>4, <2>3, <3>1, <3>2, ExceptionUndone
  <2>. QED
    BY <1>4, <2>1, <2>2, <2>3 DEF HandleException
<1>5. CASE /\ mode = "undo" /\ pc \in {"removenew", "restoreold"}
           /\ disk' = j /\ Note(mem) /\ Goto("giveup", at)
  <2>1. m = marker /\ d = database
    BY <1>3, <1>5
  <2>. QED
    BY <1>1, <1>2, <1>3, <1>5, <2>1, GivingUp DEF Note, Goto, UndoSteps
<1>6. CASE /\ mode = "recover" \/ (mode = "undo" /\ pc \notin {"removenew", "restoreold"})
           /\ disk' = j /\ Exit
  <2>1. disk # NoJournal
    BY <1>2, <1>6 DEF RestoreInv, DiskFollows
  <2>. QED
    BY <1>1, <1>2, <1>3, <1>6, <2>1, ExceptionLeft
<1>. QED
  BY <1>1, <1>4, <1>5, <1>6 DEF Raise

\* The journal remembers an entry as moved away that is back.
LEMMA RollbackMissingStep ==
  ASSUME RestoreInv, UNCHANGED plan, RollbackMissing
  PROVE  RestoreInv'
<1>1. /\ pc = "restoreold" /\ ~dirty /\ Raise(marker, disk)
      /\ UNCHANGED <<target, rollback, staged, carried, database, marker, crashes, faults>>
  BY DEF RollbackMissing, At, files
<1>2. mode \in {"undo", "recover"} /\ disk # NoJournal /\ pc \in Steps /\ crashes' \in Nat /\ faults' \in Nat
  BY <1>1 DEF RestoreInv, RestoreTypes, TypeOK, ModesFit, DiskFollows, UndoSteps
<1>3. CASE mode = "undo"
  BY <1>1, <1>2, <1>3, GivingUp DEF Raise, Note, Goto, UndoSteps
<1>4. CASE mode = "recover"
  BY <1>1, <1>2, <1>4, ExceptionLeft DEF Raise, RestoreInv, RestoreTypes, TypeOK
<1>. QED
  BY <1>2, <1>3, <1>4

-----------------------------------------------------------------------------
(* Steps that move, remove or put back.                                    *)

\* An entry that a step leaves alone.
LEMMA EntryStays ==
  ASSUME UNCHANGED plan, NEW i, target'[i] = target[i], rollback'[i] = rollback[i], staged'[i] = staged[i]
  PROVE  /\ Back(i)' <=> Back(i)
         /\ Untouched(i)' <=> Untouched(i)
         /\ Replaced(i)' <=> Replaced(i)
         /\ Whole(i)' <=> Whole(i)
  BY PlanKept DEF Back, Untouched, Replaced, Whole

\* One entry moves: what a journal needs to know of it.
LEMMA OneMoves ==
  ASSUME UNCHANGED <<plan, database>>, NEW a \in Entries,
         \A i \in Entries \ {a} : target'[i] = target[i] /\ rollback'[i] = rollback[i] /\ staged'[i] = staged[i],
         Whole(a)'
  PROVE  \A j : /\ Recoverable(j)
                /\ a > j.listed => Back(a)'
                /\ a \in Original /\ j.new[a] => rollback'[a] = "old"
                => Recoverable(j)'
<1> SUFFICES ASSUME NEW j, Recoverable(j), a > j.listed => Back(a)',
                    a \in Original /\ j.new[a] => rollback'[a] = "old"
             PROVE  Recoverable(j)'
  OBVIOUS
<1>1. \A i \in Entries \ {a} : (Whole(i)' <=> Whole(i)) /\ (Back(i)' <=> Back(i))
  BY EntryStays
<1>2. \A i \in Entries : Whole(i)'
  BY <1>1 DEF Recoverable
<1>3. \A i \in Entries : i > j.listed => Back(i)'
  BY <1>1 DEF Recoverable
<1>4. \A i \in Entries : i <= j.listed => j.had[i] = (i \in Original)
  BY DEF Recoverable
<1>5. \A i \in Entries : i \in Original /\ j.new[i] => rollback'[i] = "old"
  BY DEF Recoverable
<1>. QED
  BY <1>2, <1>3, <1>4, <1>5, PlanKept DEF Recoverable, CommitBegun

\* The paths after a step, with the types of all that stays.
LEMMA MovedTypes ==
  ASSUME RestoreInv, UNCHANGED <<plan, carried, database, marker, disk, mode, crashes, faults>>,
         target' \in [Entries -> Contents], rollback' \in [Entries -> Contents],
         staged' \in [Entries -> Contents],
         mem' \in Journal, dirty' \in BOOLEAN, pc' \in Steps, at' \in 0..(N + 1),
         pc' \in {"moveold", "movenew", "restoreold"} => at' \in Entries
  PROVE  RestoreTypes'
  BY PlanKept DEF RestoreInv, RestoreTypes, TypeOK

LEMMA BeginStep ==
  ASSUME RestoreInv, UNCHANGED plan, Begin
  PROVE  RestoreInv'
<1>1. /\ pc = "idle" /\ Serving /\ Undone
      /\ staged' = After /\ mem' = NewJournal /\ dirty' = TRUE /\ mode' = "apply" /\ pc' = "mark" /\ at' = 1
      /\ UNCHANGED <<target, rollback, carried, database, marker, disk, crashes, faults>>
  BY DEF Begin, Note, Undone, Serving
<1>2. plan \in Plans /\ N \in Nat /\ Entries = 1..N /\ NewJournal \in Journal
      /\ NewJournal.listed = 0 /\ ~CommitBegun(NewJournal) /\ ~NewJournal.complete
      /\ \A i \in Entries : ~NewJournal.new[i]
  BY PlanFacts, JournalRow DEF RestoreInv, RestoreTypes
<1>3. ~marker /\ disk = NoJournal /\ NoRollback
  BY <1>1 DEF RestoreInv, JournalsTell, Serving, RestoreMarkersPresent
<1>4. \A i \in Entries : Back(i)' /\ Untouched(i)' /\ Whole(i)'
  <2>1. \A i \in Entries : target'[i] = Before[i] /\ rollback'[i] = "none" /\ staged'[i] = After[i]
    BY <1>1, <1>3 DEF Undone, NoRollback
  <2>. QED
    BY <1>2, <2>1, PlanFacts, PlanKept DEF Back, Untouched, Whole
<1>5. RestoreTypes'
  <2>1. staged' \in [Entries -> Contents] /\ at' \in 0..(N + 1)
    BY <1>1, <1>2, TypesHold
  <2>. QED
    BY <1>1, <1>2, <2>1, PlanKept DEF RestoreInv, RestoreTypes, TypeOK, Steps, Modes
<1>6. Tells(mem)'
  <2>1. Recoverable(mem)'
    BY <1>1, <1>2, <1>4, PlanKept DEF Recoverable, Undone, CommitBegun
  <2>. QED
    BY <1>1, <1>2, <2>1, PlanKept DEF Tells
<1>7. JournalsTell'
  BY <1>1, <1>3, <1>6, PlanKept DEF RestoreInv, JournalsTell, Serving, RestoreMarkersPresent, NoRollback, Undone
<1>8. ModesFit' /\ DiskFollows'
  BY <1>1, <1>2, <1>3, PlanKept DEF ModesFit, DiskFollows, ApplySteps, UndoSteps, EndSteps
<1>9. ApplyStands' /\ UndoStands'
  <2>1. ~CommitBegun(mem)'
    BY <1>1, <1>2, PlanKept DEF CommitBegun
  <2>2. \A i \in Entries : ~(i < at')
    BY <1>1, <1>2
  <2>3. mem'.listed = at' - 1 /\ at' >= 1 /\ ~mem'.committed
    BY <1>1, <1>2 DEF CommitBegun
  <2>4. at' <= N => at' \in Entries
    BY <1>1, <1>2
  <2>5. at' <= N => Untouched(at)'
    BY <1>1, <1>4, <2>4, PlanKept DEF Untouched, Back
  <2>. QED
    BY <1>1, <1>4, <2>1, <2>2, <2>3, <2>5, PlanKept DEF ApplyStands, UndoStands, ApplySteps, UndoSteps, EndSteps
<1>. QED
  BY <1>5, <1>7, <1>8, <1>9 DEF RestoreInv

\* os.replace(target, rollback).
LEMMA MoveOldStep ==
  ASSUME RestoreInv, UNCHANGED plan, MoveOld
  PROVE  RestoreInv'
<1>1. /\ pc = "moveold" /\ ~dirty
      /\ UNCHANGED <<staged, database, marker, disk, mode, crashes, faults>>
  BY DEF MoveOld, At, Goto
<1>2. /\ plan \in Plans /\ mem \in Journal /\ at \in Entries /\ N \in Nat /\ Entries = 1..N
      /\ target \in [Entries -> Contents] /\ rollback \in [Entries -> Contents]
      /\ staged \in [Entries -> Contents] /\ at + 1 \in 0..(N + 1) /\ at \in 0..(N + 1)
  BY <1>1, PlanFacts, TypesHold DEF RestoreInv, RestoreTypes, TypeOK
<1>3. /\ mem.listed = at /\ Untouched(at) /\ Back(at) /\ ~mem.complete /\ disk = mem /\ marker
      /\ disk # NoJournal /\ mode = "apply"
      /\ \A i \in Entries : (i < at => Replaced(i)) /\ (i > at => Untouched(i))
  BY <1>1 DEF RestoreInv, ModesFit, DiskFollows, ApplyStands, ApplySteps, JournalsTell, Untouched
<1>0. PICK a \in Entries : a = at
  BY <1>2
<1>4. Recoverable(mem) /\ mem.had[a] = (a \in Original)
  <2>1. Recoverable(mem)
    BY <1>1, <1>3 DEF RestoreInv, JournalsTell, Tells
  <2>2. a <= mem.listed
    BY <1>0, <1>2, <1>3
  <2>. QED
    BY <2>1, <2>2 DEF Recoverable
<1>5. /\ target'[a] = "none" /\ rollback'[a] = Before[a]
      /\ \A i \in Entries \ {a} : target'[i] = target[i] /\ rollback'[i] = rollback[i] /\ staged'[i] = staged[i]
      /\ target' \in [Entries -> Contents] /\ rollback' \in [Entries -> Contents] /\ carried' = carried
      /\ mem' \in Journal /\ mem'.listed = mem.listed /\ mem'.new = mem.new /\ mem'.had = mem.had
      /\ mem'.started = mem.started /\ mem'.committed = mem.committed /\ mem'.complete = mem.complete
      /\ dirty' \in BOOLEAN /\ (~dirty' => mem' = mem)
  <2>0. ~HoldsDatabase(a)
    BY DEF HoldsDatabase, RestoreInv, RestoreTypes
  <2>1. CASE mem.had[a]
    <3>1. /\ rollback' = [rollback EXCEPT ![a] = target[a]]
          /\ target' = [i \in Entries |-> IF i = a THEN "none" ELSE target[i]]
          /\ carried' = carried /\ mem' = OldMoved(mem, a, TRUE) /\ dirty' = TRUE
      BY <1>0, <2>0, <2>1 DEF MoveOld, Note, OldMoved
    <3>2. target[a] = Before[a] /\ target[a] \in Contents
      BY <1>0, <1>2, <1>3 DEF Back
    <3>3. /\ target'[a] = "none" /\ rollback'[a] = Before[a]
          /\ \A i \in Entries \ {a} : target'[i] = target[i] /\ rollback'[i] = rollback[i]
          /\ target' \in [Entries -> Contents] /\ rollback' \in [Entries -> Contents]
      BY <1>2, <3>1, <3>2, TypesHold
    <3>. QED
      BY <1>1, <1>2, <3>1, <3>3, OldMovedRow, ZenonT(60)
  <2>2. CASE ~mem.had[a]
    <3>1. UNCHANGED <<mem, dirty, target, rollback, carried>>
      BY <1>0, <2>2 DEF MoveOld, NoNote
    <3>2. target[a] = "none" /\ rollback[a] = Before[a]
      BY <1>0, <1>2, <1>3, <1>4, <2>2, PlanFacts DEF Back
    <3>. QED
      BY <1>1, <1>2, <3>1, <3>2 DEF RestoreInv, RestoreTypes, TypeOK
  <2>. QED
    BY <2>1, <2>2
<1>6. Whole(a)'
  BY <1>2, <1>5, PlanFacts, PlanKept DEF Whole
<1>7. \A i \in Entries \ {a} : (Replaced(i)' <=> Replaced(i)) /\ (Untouched(i)' <=> Untouched(i))
  BY <1>5, EntryStays
<1>8. \/ /\ Kind[a] = "sidecar" /\ pc' = "list" /\ at' = at + 1
      \/ /\ Kind[a] # "sidecar" /\ pc' = "movenew" /\ at' = at
  BY <1>0 DEF MoveOld, Goto
<1>9. RestoreTypes'
  <2>1. staged' \in [Entries -> Contents] /\ at' \in 0..(N + 1) /\ pc' \in Steps
        /\ (pc' \in {"moveold", "movenew", "restoreold"} => at' \in Entries)
    BY <1>1, <1>2, <1>8 DEF Steps
  <2>. QED
    BY <1>1, <1>5, <2>1, MovedTypes
<1>10. Recoverable(mem)' /\ Recoverable(disk)'
  <2>1. a \in Original => rollback'[a] = "old"
    BY <1>2, <1>5, PlanFacts
  <2>2. Recoverable(mem')
    BY <1>4, <1>5 DEF Recoverable, CommitBegun
  <2>3. ~(a > mem'.listed) /\ ~(a > disk.listed)
    BY <1>0, <1>2, <1>3, <1>5
  <2>. QED
    BY <1>1, <1>2, <1>3, <1>4, <1>5, <1>6, <2>1, <2>2, <2>3, OneMoves
<1>11. JournalsTell'
  BY <1>1, <1>3, <1>5, <1>10, PlanKept DEF RestoreInv, JournalsTell, Tells, Serving, RestoreMarkersPresent
<1>12. ModesFit'
  BY <1>1, <1>3, <1>5, <1>8 DEF ModesFit, ApplySteps, UndoSteps, EndSteps
<1>13. DiskFollows'
  <2>1. NotAhead'
    BY <1>1, <1>3, <1>5, PlanKept DEF NotAhead, CommitBegun
  <2>. QED
    BY <1>1, <1>3, <1>5, <1>8, <2>1 DEF DiskFollows, ApplySteps, UndoSteps
<1>14. ApplyStands'
  <2>1. mem'.committed => mem'.started
    BY <1>1, <1>5 DEF RestoreInv, ApplyStands, ApplySteps
  <2>2. CASE Kind[a] = "sidecar"
    <3>1. Replaced(a)'
      BY <1>2, <1>5, <2>2, PlanFacts, PlanKept DEF Replaced
    <3>2. \A i \in Entries : (i < a + 1 => i = a \/ i < at) /\ (i > a + 1 => i > at /\ i # a)
      BY <1>0, <1>2
    <3>3. \A i \in Entries : i < at => i # a
      BY <1>0, <1>2
    <3>4. \A i \in Entries : (i < a + 1 => Replaced(i)') /\ (i > a + 1 => Untouched(i)')
      BY <1>3, <1>7, <3>1, <3>2, <3>3
    <3>5. PICK b : b = a + 1
      OBVIOUS
    <3>6. b <= N => b \in Entries /\ b # a /\ b > at
      BY <1>0, <1>2, <3>5
    <3>7. b <= N => Untouched(b)'
      BY <1>3, <1>7, <3>6
    <3>8. at' = b /\ at' >= 1 /\ mem'.listed = at' - 1
      BY <1>0, <1>2, <1>3, <1>5, <1>8, <2>2, <3>5
    <3>9. at' <= N => Untouched(at)'
      BY <3>7, <3>8, PlanKept DEF Untouched, Back
    <3>. QED
      BY <1>8, <2>1, <2>2, <3>4, <3>5, <3>8, <3>9, PlanKept DEF ApplyStands, ApplySteps
  <2>3. CASE Kind[a] # "sidecar"
    <3>1. \A i \in Entries : (i < at => Replaced(i)') /\ (i > at => Untouched(i)')
      <4>1. \A i \in Entries : i < at \/ i > at => i # a
        BY <1>0, <1>2
      <4>. QED
        BY <1>3, <1>7, <4>1
    <3>2. target'[a] = "none" /\ rollback'[a] = Before[a] /\ staged'[a] = After[a]
      BY <1>0, <1>1, <1>3, <1>5 DEF Untouched
    <3>3. at' = a /\ pc' = "movenew" /\ mem'.listed = at'
      BY <1>0, <1>3, <1>5, <1>8, <2>3
    <3>. QED
      BY <1>0, <2>1, <2>3, <3>1, <3>2, <3>3, PlanKept DEF ApplyStands, ApplySteps
  <2>. QED
    BY <2>2, <2>3
<1>15. UndoStands'
  BY <1>8 DEF UndoStands, UndoSteps, EndSteps
<1>. QED
  BY <1>9, <1>11, <1>12, <1>13, <1>14, <1>15 DEF RestoreInv

\* os.replace(staged, target).
LEMMA MoveNewStep ==
  ASSUME RestoreInv, UNCHANGED plan, MoveNew
  PROVE  RestoreInv'
<1>1. /\ pc = "movenew" /\ ~dirty /\ pc' = "list" /\ at' = at + 1 /\ dirty' = TRUE
      /\ UNCHANGED <<rollback, carried, database, marker, disk, mode, crashes, faults>>
  BY DEF MoveNew, At, Goto, Note
<1>2. /\ plan \in Plans /\ mem \in Journal /\ at \in Entries /\ N \in Nat /\ Entries = 1..N
      /\ target \in [Entries -> Contents] /\ rollback \in [Entries -> Contents]
      /\ staged \in [Entries -> Contents] /\ at + 1 \in 0..(N + 1)
  BY <1>1, PlanFacts, TypesHold DEF RestoreInv, RestoreTypes, TypeOK
<1>3. PICK a \in Entries : a = at
  BY <1>2
<1>4. /\ mem.listed = a /\ ~mem.complete /\ disk = mem /\ marker /\ disk # NoJournal /\ mode = "apply"
      /\ target[a] = "none" /\ rollback[a] = Before[a] /\ staged[a] = After[a] /\ Kind[a] # "sidecar"
      /\ \A i \in Entries : (i < a => Replaced(i)) /\ (i > a => Untouched(i))
      /\ mem.committed => mem.started
  BY <1>1, <1>3 DEF RestoreInv, ModesFit, DiskFollows, ApplyStands, ApplySteps, JournalsTell
<1>5. Recoverable(mem)
  BY <1>1, <1>4 DEF RestoreInv, JournalsTell, Tells
<1>6. /\ target'[a] = After[a] /\ staged'[a] = "none"
      /\ \A i \in Entries \ {a} : target'[i] = target[i] /\ rollback'[i] = rollback[i] /\ staged'[i] = staged[i]
      /\ target' \in [Entries -> Contents] /\ staged' \in [Entries -> Contents]
  <2>1. target' = [target EXCEPT ![a] = staged[a]] /\ staged' = [staged EXCEPT ![a] = "none"]
    BY <1>3 DEF MoveNew
  <2>. QED
    BY <1>1, <1>2, <1>4, <2>1, TypesHold
<1>7. /\ mem' \in Journal /\ mem'.listed = mem.listed /\ mem'.had = mem.had
      /\ mem'.new[a] = TRUE /\ \A n \in Entries : n # a => mem'.new[n] = mem.new[n]
      /\ mem'.started = mem.started /\ mem'.committed = mem.committed /\ mem'.complete = mem.complete
  <2>1. PICK b \in BOOLEAN : b = TRUE
    OBVIOUS
  <2>2. mem' = NewIsMoved(mem, a, b)
    BY <1>3, <2>1 DEF MoveNew, Note, NewIsMoved
  <2>3. /\ mem' \in Journal /\ mem'.listed = mem.listed /\ mem'.had = mem.had
        /\ mem'.new[a] = b /\ \A n \in Entries : n # a => mem'.new[n] = mem.new[n]
        /\ mem'.started = mem.started /\ mem'.committed = mem.committed /\ mem'.complete = mem.complete
    <3>1. plan \in Plans /\ mem \in Journal /\ a \in Entries
      BY <1>2
    <3>2. LET k == NewIsMoved(mem, a, b)
          IN  /\ k \in Journal /\ k.listed = mem.listed /\ k.had = mem.had
              /\ k.new[a] = b /\ \A n \in Entries : n # a => k.new[n] = mem.new[n]
              /\ k.started = mem.started /\ k.committed = mem.committed /\ k.complete = mem.complete
      BY <3>1, NewMovedRow
    <3>. QED
      BY <2>2, <3>2, Zenon
  <2>. QED
    BY <2>1, <2>3
<1>8. Whole(a)' /\ Replaced(a)'
  BY <1>1, <1>2, <1>4, <1>6, PlanFacts, PlanKept DEF Whole, Replaced
<1>9. \A i \in Entries \ {a} : (Replaced(i)' <=> Replaced(i)) /\ (Untouched(i)' <=> Untouched(i))
  BY <1>6, EntryStays
<1>10. RestoreTypes'
  BY <1>1, <1>2, <1>6, <1>7, MovedTypes DEF Steps
<1>11. Recoverable(mem)' /\ Recoverable(disk)'
  <2>1. a \in Original => rollback'[a] = "old"
    BY <1>1, <1>2, <1>4, PlanFacts
  <2>2. Recoverable(mem')
    <3>1. \A i \in Entries : i \in Original /\ mem'.new[i] => rollback[i] = "old"
      BY <1>1, <1>5, <1>7, <2>1 DEF Recoverable
    <3>. QED
      BY <1>5, <1>7, <3>1 DEF Recoverable, CommitBegun
  <2>3. ~(a > mem'.listed) /\ ~(a > disk.listed)
    BY <1>2, <1>4, <1>7
  <2>. QED
    BY <1>1, <1>4, <1>5, <1>6, <1>8, <2>1, <2>2, <2>3, OneMoves
<1>12. JournalsTell'
  BY <1>1, <1>4, <1>7, <1>11, PlanKept DEF RestoreInv, JournalsTell, Tells, Serving, RestoreMarkersPresent
<1>13. ModesFit'
  BY <1>1, <1>4, <1>7 DEF ModesFit, ApplySteps, UndoSteps, EndSteps
<1>14. DiskFollows'
  <2>1. \A i \in Entries : disk'.new[i] => mem'.new[i]
    BY <1>1, <1>4, <1>7
  <2>2. NotAhead'
    BY <1>1, <1>4, <1>7, <2>1, PlanKept DEF NotAhead, CommitBegun
  <2>. QED
    BY <1>1, <1>4, <1>7, <2>2 DEF DiskFollows, ApplySteps, UndoSteps
<1>15. ApplyStands' /\ UndoStands'
  <2>1. \A i \in Entries : (i < a + 1 => i = a \/ (i < a /\ i # a)) /\ (i > a + 1 => i > a /\ i # a)
    BY <1>2
  <2>2. \A i \in Entries : (i < a + 1 => Replaced(i)') /\ (i > a + 1 => Untouched(i)')
    BY <1>4, <1>8, <1>9, <2>1
  <2>3. PICK b : b = a + 1
    OBVIOUS
  <2>4. b <= N => b \in Entries /\ b # a /\ b > a
    BY <1>2, <2>3
  <2>5. b <= N => Untouched(b)'
    BY <1>4, <1>9, <2>4
  <2>6. at' = b /\ at' >= 1 /\ mem'.listed = at' - 1
    BY <1>1, <1>2, <1>3, <1>4, <1>7, <2>3
  <2>7. at' <= N => Untouched(at)'
    BY <2>5, <2>6, PlanKept DEF Untouched, Back
  <2>. QED
    BY <1>1, <1>4, <1>7, <2>2, <2>3, <2>6, <2>7, PlanKept
    DEF ApplyStands, UndoStands, ApplySteps, UndoSteps, EndSteps
<1>. QED
  BY <1>10, <1>12, <1>13, <1>14, <1>15 DEF RestoreInv

\* What is common to the steps of _rollback_swaps.
LEMMA UndoFacts ==
  ASSUME RestoreInv, pc \in UndoSteps, ~dirty
  PROVE  /\ plan \in Plans /\ mem \in Journal /\ disk \in Journal /\ N \in Nat /\ Entries = 1..N
         /\ target \in [Entries -> Contents] /\ rollback \in [Entries -> Contents]
         /\ staged \in [Entries -> Contents]
         /\ mode \in {"undo", "recover"} /\ ~mem.complete /\ ~disk.complete /\ disk # NoJournal
         /\ Recoverable(mem) /\ Recoverable(disk) /\ NotAhead /\ at <= mem.listed
         /\ ~CommitBegun(mem)
         /\ \A i \in Entries : i > at => Back(i)
         /\ DatabaseInside = 0 /\ carried = "none"
<1>1. /\ plan \in Plans /\ mem \in Journal /\ disk \in Journal \union {NoJournal}
      /\ target \in [Entries -> Contents] /\ rollback \in [Entries -> Contents]
      /\ staged \in [Entries -> Contents] /\ DatabaseInside = 0 /\ carried = "none"
  BY DEF RestoreInv, RestoreTypes, TypeOK
<1>2. mode \in {"undo", "recover"} /\ ~mem.complete /\ ~CommitBegun(mem) /\ NotAhead
  BY DEF RestoreInv, ModesFit, DiskFollows
<1>3. disk # NoJournal /\ ~disk.complete
  BY <1>2 DEF NotAhead
<1>4. Recoverable(mem) /\ Recoverable(disk)
  BY <1>2, <1>3 DEF RestoreInv, JournalsTell, Tells, UndoSteps
<1>5. at <= mem.listed /\ \A i \in Entries : i > at => Back(i)
  BY DEF RestoreInv, UndoStands
<1>. QED
  BY <1>1, <1>2, <1>3, <1>4, <1>5, PlanFacts

\* A directory is removed piece by piece.
LEMMA RemoveSomeStep ==
  ASSUME RestoreInv, UNCHANGED plan, RemoveSome
  PROVE  RestoreInv'
<1>1. /\ pc = "removenew" /\ ~dirty /\ at > 0 /\ target[at] = "new"
      /\ pc' = "removenew" /\ at' = at
      /\ UNCHANGED <<rollback, staged, carried, database, marker, disk, mem, dirty, mode, crashes, faults>>
  BY DEF RemoveSome, At, Goto, NoNote
<1>2. pc \in UndoSteps
  BY <1>1 DEF UndoSteps
<1>3. /\ plan \in Plans /\ mem \in Journal /\ N \in Nat /\ Entries = 1..N /\ ~mem.complete /\ ~disk.complete
      /\ Recoverable(mem) /\ Recoverable(disk) /\ at <= mem.listed /\ disk # NoJournal
      /\ target \in [Entries -> Contents] /\ \A i \in Entries : i > at => Back(i)
  BY <1>1, <1>2, UndoFacts
<1>4. PICK a \in Entries : a = at
  <2>1. mem.listed \in 0..N /\ at \in 0..(N + 1)
    BY <1>3, JournalRow DEF RestoreInv, RestoreTypes, TypeOK
  <2>. QED
    BY <1>1, <1>3, <2>1
<1>5. /\ target'[a] = "partial"
      /\ \A i \in Entries \ {a} : target'[i] = target[i] /\ rollback'[i] = rollback[i] /\ staged'[i] = staged[i]
      /\ target' \in [Entries -> Contents]
  <2>1. target' = [target EXCEPT ![a] = "partial"]
    BY <1>4 DEF RemoveSome
  <2>. QED
    BY <1>1, <1>3, <2>1, TypesHold
<1>6. Whole(a) /\ target[a] = "new" /\ ~Back(a)
  BY <1>1, <1>3, <1>4, PlanFacts DEF Recoverable, Back
<1>7. Whole(a)'
  BY <1>1, <1>5, <1>6, PlanKept DEF Whole
<1>8. RestoreTypes'
  BY <1>1, <1>3, <1>5, MovedTypes DEF RestoreInv, RestoreTypes, TypeOK
<1>9. Recoverable(mem)' /\ Recoverable(disk)'
  <2>1. ~(a > mem.listed) /\ ~(a > disk.listed)
    BY <1>3, <1>6 DEF Recoverable
  <2>2. a \in Original /\ (mem.new[a] \/ disk.new[a]) => rollback'[a] = "old"
    BY <1>1, <1>3 DEF Recoverable
  <2>. QED
    BY <1>1, <1>3, <1>5, <1>7, <2>1, <2>2, OneMoves
<1>10. JournalsTell'
  BY <1>1, <1>3, <1>9, PlanKept DEF RestoreInv, JournalsTell, Tells, Serving, RestoreMarkersPresent
<1>11. ModesFit' /\ DiskFollows'
  BY <1>1, PlanKept DEF RestoreInv, ModesFit, DiskFollows, NotAhead, ApplySteps, UndoSteps, EndSteps, CommitBegun
<1>12. ApplyStands'
  BY <1>1 DEF ApplyStands, ApplySteps
<1>13. UndoStands'
  <2>1. \A i \in Entries : i > a => Back(i)'
    <3>1. \A i \in Entries : i > a => i # a
      BY <1>3
    <3>. QED
      BY <1>3, <1>4, <1>5, <3>1, EntryStays
  <2>. QED
    BY <1>1, <1>3, <1>4, <2>1, PlanKept DEF UndoStands, UndoSteps, EndSteps
<1>. QED
  BY <1>8, <1>10, <1>11, <1>12, <1>13 DEF RestoreInv

\* What the new content has taken is cleared.
LEMMA RemoveNewStep ==
  ASSUME RestoreInv, UNCHANGED plan, RemoveNew
  PROVE  RestoreInv'
<1>1. /\ pc = "removenew" /\ ~dirty /\ at > 0 /\ pc' = "restoreold" /\ at' = at
      /\ UNCHANGED <<rollback, staged, carried, database, marker, disk, mode, crashes, faults>>
  BY DEF RemoveNew, At, Goto
<1>2. pc \in UndoSteps
  BY <1>1 DEF UndoSteps
<1>3. /\ plan \in Plans /\ mem \in Journal /\ N \in Nat /\ Entries = 1..N /\ ~mem.complete /\ ~disk.complete
      /\ Recoverable(mem) /\ Recoverable(disk) /\ at <= mem.listed /\ disk # NoJournal /\ NotAhead
      /\ target \in [Entries -> Contents] /\ \A i \in Entries : i > at => Back(i)
      /\ mode \in {"undo", "recover"} /\ ~CommitBegun(mem) /\ DatabaseInside = 0
  BY <1>1, <1>2, UndoFacts
<1>4. PICK a \in Entries : a = at
  <2>1. mem.listed \in 0..N /\ at \in 0..(N + 1)
    BY <1>3, JournalRow DEF RestoreInv, RestoreTypes, TypeOK
  <2>. QED
    BY <1>1, <1>3, <2>1
<1>5. Whole(a) /\ mem.had[a] = (a \in Original) /\ (a \in Original /\ mem.new[a] => rollback[a] = "old")
      /\ (a \in Original /\ disk.new[a] => rollback[a] = "old")
  <2>1. a <= mem.listed
    BY <1>3, <1>4
  <2>. QED
    BY <1>3, <2>1 DEF Recoverable
<1>6. /\ \A i \in Entries \ {a} : target'[i] = target[i] /\ rollback'[i] = rollback[i] /\ staged'[i] = staged[i]
      /\ target' \in [Entries -> Contents]
      /\ target'[a] = target[a] \/ target'[a] = "none"
      /\ mem' \in Journal /\ mem'.listed = mem.listed /\ mem'.had = mem.had /\ ~mem'.new[a]
      /\ \A n \in Entries : n # a => mem'.new[n] = mem.new[n]
      /\ mem'.started = mem.started /\ mem'.committed = mem.committed /\ mem'.complete = mem.complete
      /\ dirty' \in BOOLEAN /\ (~dirty' => mem' = mem)
      /\ a \in Original /\ target'[a] # target[a] => rollback[a] = "old"
      /\ a \notin Original => target'[a] = "none"
  <2>1. CASE NewMoved(at)
    <3>1. target' = [i \in Entries |-> IF i = a THEN "none" ELSE target[i]]
      BY <1>3, <1>4, <2>1 DEF RemoveNew, HoldsDatabase
    <3>0. PICK b \in BOOLEAN : b = FALSE
      OBVIOUS
    <3>2. mem' = NewIsMoved(mem, a, b) /\ dirty' = TRUE
      BY <1>4, <2>1, <3>0 DEF RemoveNew, Note, NewIsMoved
    <3>6. mem' = NewIsMoved(mem, a, b) /\ plan \in Plans /\ mem \in Journal
      BY <1>3, <3>2
    <3>3. /\ mem' \in Journal /\ mem'.listed = mem.listed /\ mem'.had = mem.had /\ mem'.new[a] = b
          /\ \A n \in Entries : n # a => mem'.new[n] = mem.new[n]
          /\ mem'.started = mem.started /\ mem'.committed = mem.committed /\ mem'.complete = mem.complete
      BY <3>6, NewMovedRow
    <3>4. a \in Original => rollback[a] = "old"
      <4>1. CASE mem.new[a]
        BY <1>5, <4>1
      <4>2. CASE ~mem.new[a]
        <5>1. rollback[a] # "none" \/ ~mem.had[a]
          BY <1>4, <2>1, <4>2 DEF NewMoved
        <5>. QED
          BY <1>5, <5>1 DEF Whole, Back
      <4>. QED
        BY <4>1, <4>2
    <3>5. /\ target' \in [Entries -> Contents] /\ target'[a] = "none"
          /\ \A i \in Entries \ {a} : target'[i] = target[i]
      BY <1>3, <3>1, TypesHold
    <3>. QED
      BY <1>1, <1>3, <3>0, <3>2, <3>3, <3>4, <3>5
  <2>2. CASE ~NewMoved(at)
    <3>1. target' = target /\ mem' = mem /\ dirty' = dirty
      BY <2>2 DEF RemoveNew, NoNote
    <3>2. ~mem.new[a]
      BY <1>4, <2>2 DEF NewMoved
    <3>3. a \notin Original => target[a] = "none"
      BY <1>3, <1>4, <1>5, <2>2, PlanFacts DEF NewMoved, Whole
    <3>4. ~mem'.new[a] /\ mem' \in Journal /\ target' \in [Entries -> Contents] /\ dirty' \in BOOLEAN
      BY <1>1, <1>3, <3>1, <3>2 DEF RestoreInv, RestoreTypes, TypeOK
    <3>. QED
      BY <1>1, <3>1, <3>3, <3>4
  <2>. QED
    BY <2>1, <2>2
<1>7. Whole(a)'
  BY <1>1, <1>5, <1>6, PlanKept DEF Whole, Back
<1>8. RestoreTypes'
  BY <1>1, <1>3, <1>4, <1>6, MovedTypes DEF RestoreInv, RestoreTypes, TypeOK, Steps
<1>9. Recoverable(mem)' /\ Recoverable(disk)'
  <2>1. ~(a > mem'.listed)
    <3>1. mem.listed \in Nat
      BY <1>3, JournalRow
    <3>. QED
      BY <1>3, <1>4, <1>6, <3>1
  <2>2. a > disk.listed => Back(a)'
    <3> SUFFICES ASSUME a > disk.listed PROVE Back(a)'
      OBVIOUS
    <3>1. Back(a)
      BY <1>3 DEF Recoverable
    <3>. QED
      BY <1>1, <1>6, <3>1, PlanFacts, <1>3, PlanKept DEF Back
  <2>3. Recoverable(mem')
    BY <1>3, <1>6 DEF Recoverable, CommitBegun
  <2>. QED
    BY <1>1, <1>3, <1>5, <1>6, <1>7, <2>1, <2>2, <2>3, OneMoves
<1>10. JournalsTell'
  BY <1>1, <1>3, <1>6, <1>9, PlanKept DEF RestoreInv, JournalsTell, Tells, Serving, RestoreMarkersPresent
<1>11. ModesFit'
  BY <1>1, <1>3, <1>6 DEF ModesFit, ApplySteps, UndoSteps, EndSteps, CommitBegun
<1>12. DiskFollows'
  <2>1. ~dirty' => NotAhead'
    BY <1>1, <1>3, <1>6, PlanKept DEF NotAhead, CommitBegun
  <2>2. disk'.complete = mem'.complete
    BY <1>1, <1>2, <1>3, <1>6 DEF RestoreInv, DiskFollows, UndoSteps
  <2>. QED
    BY <1>1, <1>3, <2>1, <2>2 DEF DiskFollows, ApplySteps, UndoSteps
<1>13. ApplyStands'
  BY <1>1, <1>6 DEF ApplyStands, ApplySteps
<1>14. UndoStands'
  <2>1. \A i \in Entries : i > a => Back(i)'
    <3>1. \A i \in Entries : i > a => i # a
      BY <1>3
    <3>. QED
      BY <1>3, <1>4, <1>6, <3>1, EntryStays
  <2>2. at' = a /\ at' <= mem'.listed
    BY <1>1, <1>3, <1>4, <1>6
  <2>3. (a \notin Original => target'[a] = "none") /\ ~mem'.new[a]
    BY <1>6
  <2>. QED
    BY <1>1, <2>1, <2>2, <2>3, PlanKept DEF UndoStands, UndoSteps, EndSteps
<1>. QED
  BY <1>8, <1>10, <1>11, <1>12, <1>13, <1>14 DEF RestoreInv

\* The old content is back at the path, or was never away.
LEMMA RestoreOldStep ==
  ASSUME RestoreInv, UNCHANGED plan, RestoreOld
  PROVE  RestoreInv'
<1>1. /\ pc = "restoreold" /\ ~dirty /\ pc' = "removenew" /\ at' = at - 1
      /\ UNCHANGED <<staged, database, marker, disk, mode, crashes, faults>>
  BY DEF RestoreOld, At, Goto
<1>2. pc \in UndoSteps
  BY <1>1 DEF UndoSteps
<1>3. /\ plan \in Plans /\ mem \in Journal /\ N \in Nat /\ Entries = 1..N /\ ~mem.complete /\ ~disk.complete
      /\ Recoverable(mem) /\ Recoverable(disk) /\ at <= mem.listed /\ disk # NoJournal /\ NotAhead
      /\ target \in [Entries -> Contents] /\ rollback \in [Entries -> Contents]
      /\ \A i \in Entries : i > at => Back(i)
      /\ mode \in {"undo", "recover"} /\ ~CommitBegun(mem) /\ DatabaseInside = 0
  BY <1>1, <1>2, UndoFacts
<1>4. PICK a \in Entries : a = at
  BY <1>1 DEF RestoreInv, RestoreTypes, TypeOK
<1>5. /\ Whole(a) /\ ~mem.new[a] /\ ~disk.new[a]
      /\ a \notin Original => target[a] = "none"
  <2>1. Whole(a)
    BY <1>3 DEF Recoverable
  <2>2. ~mem.new[a] /\ (a \notin Original => target[a] = "none")
    BY <1>1, <1>4 DEF RestoreInv, UndoStands
  <2>3. disk.new[a] => mem.new[a]
    BY <1>3 DEF NotAhead
  <2>. QED
    BY <2>1, <2>2, <2>3
<1>6. /\ \A i \in Entries \ {a} : target'[i] = target[i] /\ rollback'[i] = rollback[i] /\ staged'[i] = staged[i]
      /\ target' \in [Entries -> Contents] /\ rollback' \in [Entries -> Contents]
      /\ target'[a] = Before[a] /\ rollback'[a] = "none" /\ carried' = carried
      /\ mem' \in Journal /\ mem'.listed = mem.listed /\ mem'.had = mem.had /\ mem'.new = mem.new
      /\ mem'.started = mem.started /\ mem'.committed = mem.committed /\ mem'.complete = mem.complete
      /\ dirty' \in BOOLEAN /\ (~dirty' => mem' = mem)
  <2>1. CASE rollback[a] # "none"
    <3>1. /\ target' = [i \in Entries |-> IF i = a THEN rollback[a] ELSE target[i]]
          /\ rollback' = [rollback EXCEPT ![a] = "none"]
          /\ carried' = carried /\ mem' = OldMoved(mem, a, FALSE) /\ dirty' = TRUE
      BY <1>3, <1>4, <2>1 DEF RestoreOld, HoldsDatabase, Note, OldMoved
    <3>2. a \in Original /\ rollback[a] = "old"
      BY <1>5, <2>1 DEF Whole, Back
    <3>3. Before[a] = "old"
      BY <1>3, <3>2, PlanFacts
    <3>4. /\ target' \in [Entries -> Contents] /\ target'[a] = rollback[a]
          /\ \A i \in Entries \ {a} : target'[i] = target[i]
      BY <1>3, <3>1
    <3>5. /\ rollback' \in [Entries -> Contents] /\ rollback'[a] = "none"
          /\ \A i \in Entries \ {a} : rollback'[i] = rollback[i]
      BY <1>3, <3>1, TypesHold
    <3>6. mem' = OldMoved(mem, a, FALSE) /\ plan \in Plans /\ mem \in Journal
      BY <1>3, <3>1
    <3>7. /\ mem' \in Journal /\ mem'.listed = mem.listed /\ mem'.had = mem.had /\ mem'.new = mem.new
          /\ mem'.started = mem.started /\ mem'.committed = mem.committed /\ mem'.complete = mem.complete
      BY <3>6, OldMovedRow
    <3>. QED
      BY <1>1, <3>1, <3>2, <3>3, <3>4, <3>5, <3>7
  <2>2. CASE rollback[a] = "none"
    <3>1. target' = target /\ rollback' = rollback /\ carried' = carried /\ mem' = mem /\ dirty' = dirty
      BY <1>4, <2>2 DEF RestoreOld, NoNote
    <3>2. target[a] = Before[a]
      BY <1>3, <1>5, <2>2, PlanFacts DEF Whole, Back
    <3>3. dirty' \in BOOLEAN
      BY <3>1 DEF RestoreInv, RestoreTypes, TypeOK
    <3>. QED
      BY <1>1, <1>3, <2>2, <3>1, <3>2, <3>3
  <2>. QED
    BY <2>1, <2>2
<1>7. Back(a)' /\ Whole(a)'
  <2>1. Back(a)'
    BY <1>6, PlanKept DEF Back
  <2>. QED
    BY <1>3, <1>5, <1>6, <2>1, PlanFacts, PlanKept DEF Whole
<1>8. RestoreTypes'
  <2>1. staged' \in [Entries -> Contents] /\ pc' \in Steps /\ at' \in 0..(N + 1)
        /\ pc' \notin {"moveold", "movenew", "restoreold"}
    BY <1>1, <1>3, <1>4 DEF RestoreInv, RestoreTypes, TypeOK, Steps
  <2>. QED
    BY <1>1, <1>6, <2>1, MovedTypes
<1>9. Recoverable(mem)' /\ Recoverable(disk)'
  <2>1. Recoverable(mem')
    BY <1>3, <1>6 DEF Recoverable, CommitBegun
  <2>2. ~mem'.new[a] /\ ~disk.new[a]
    BY <1>5, <1>6
  <2>. QED
    BY <1>1, <1>3, <1>6, <1>7, <2>1, <2>2, OneMoves
<1>10. JournalsTell'
  BY <1>1, <1>3, <1>6, <1>9, PlanKept DEF RestoreInv, JournalsTell, Tells, Serving, RestoreMarkersPresent
<1>11. ModesFit'
  BY <1>1, <1>3, <1>6 DEF ModesFit, ApplySteps, UndoSteps, EndSteps, CommitBegun
<1>12. DiskFollows'
  <2>1. ~dirty' => NotAhead'
    BY <1>1, <1>3, <1>6, PlanKept DEF NotAhead, CommitBegun
  <2>2. disk'.complete = mem'.complete
    BY <1>1, <1>2, <1>3, <1>6 DEF RestoreInv, DiskFollows, UndoSteps
  <2>. QED
    BY <1>1, <1>3, <2>1, <2>2 DEF DiskFollows, ApplySteps, UndoSteps
<1>13. ApplyStands'
  BY <1>1, <1>6 DEF ApplyStands, ApplySteps
<1>14. UndoStands'
  <2>1. \A i \in Entries : i > a - 1 => i = a \/ (i # a /\ i > a)
    BY <1>3
  <2>2. \A i \in Entries : i > a - 1 => Back(i)'
    BY <1>3, <1>4, <1>6, <1>7, <2>1, EntryStays
  <2>3. at' = a - 1 /\ at' <= mem'.listed
    <3>1. mem.listed \in Nat
      BY <1>3, JournalRow
    <3>. QED
      BY <1>1, <1>3, <1>4, <1>6, <3>1
  <2>. QED
    BY <1>1, <2>2, <2>3, PlanKept DEF UndoStands, UndoSteps, EndSteps
<1>. QED
  BY <1>8, <1>10, <1>11, <1>12, <1>13, <1>14 DEF RestoreInv

\* Rollback siblings go only when the journal says "complete".
LEMMA CleanupOneStep ==
  ASSUME RestoreInv, UNCHANGED plan, NEW i \in Entries, CleanupOne(i)
  PROVE  RestoreInv'
<1>1. /\ pc = "cleanup" /\ ~dirty /\ rollback[i] # "none" /\ pc' = "cleanup" /\ at' = at
      /\ rollback' = [rollback EXCEPT ![i] = "none"]
      /\ UNCHANGED <<target, staged, database, marker, disk, mem, dirty, mode, crashes, faults>>
  BY DEF CleanupOne, At, Goto, NoNote
<1>2. /\ plan \in Plans /\ mem.complete /\ disk # NoJournal /\ disk.complete = mem.complete /\ carried' = carried
      /\ mode \in {"apply", "recover"} /\ rollback \in [Entries -> Contents]
  <2>1. /\ plan \in Plans /\ carried = "none" /\ rollback \in [Entries -> Contents] /\ DatabaseInside = 0
    BY DEF RestoreInv, RestoreTypes, TypeOK
  <2>2. mode \in {"apply", "recover"} /\ mem.complete
    BY <1>1 DEF RestoreInv, ModesFit, UndoStands, EndSteps, NoRollback
  <2>3. disk # NoJournal /\ disk.complete = mem.complete
    <3>1. CASE mode = "recover"
      BY <3>1 DEF RestoreInv, DiskFollows
    <3>2. CASE mode = "apply"
      BY <1>1, <3>2 DEF RestoreInv, DiskFollows, JournalsTell
    <3>. QED
      BY <2>2, <3>1, <3>2
  <2>4. carried' = carried
    BY <2>1 DEF CleanupOne, HoldsDatabase
  <2>. QED
    BY <2>1, <2>2, <2>3, <2>4
<1>3. Tells(mem)' /\ Tells(disk)'
  <2>1. mem'.complete /\ disk'.complete /\ mem' = mem /\ disk' = disk
    BY <1>1, <1>2
  <2>2. (Done' <=> Done)
    BY <1>1, PlanKept DEF Done
  <2>. QED
    BY <1>1, <1>2, <2>1, <2>2, PlanKept DEF RestoreInv, JournalsTell, Tells
<1>4. RestoreTypes'
  <2>1. rollback' \in [Entries -> Contents]
    BY <1>1, <1>2, TypesHold
  <2>. QED
    BY <1>1, <1>2, <2>1, PlanKept DEF RestoreInv, RestoreTypes, TypeOK
<1>5. JournalsTell'
  BY <1>1, <1>2, <1>3, PlanKept DEF RestoreInv, JournalsTell, Serving, RestoreMarkersPresent
<1>6. ModesFit' /\ DiskFollows'
  <2>1. ModesFit'
    BY <1>1, <1>2 DEF RestoreInv, ModesFit, ApplySteps, UndoSteps, EndSteps
  <2>. QED
    BY <1>1, <1>2, <2>1, PlanKept DEF RestoreInv, DiskFollows, ApplySteps, UndoSteps, EndSteps
<1>7. ApplyStands' /\ UndoStands'
  BY <1>1, <1>2 DEF ApplyStands, UndoStands, ApplySteps, UndoSteps, EndSteps
<1>. QED
  BY <1>4, <1>5, <1>6, <1>7 DEF RestoreInv

\* What was staged and is not needed goes, when no old content waits at a sibling.
LEMMA RemoveStagedStep ==
  ASSUME RestoreInv, UNCHANGED plan, NEW i \in Entries, RemoveStaged(i)
  PROVE  RestoreInv'
<1>1. /\ pc = "unstage" /\ ~dirty /\ pc' = "unstage" /\ at' = at
      /\ staged' = [staged EXCEPT ![i] = "none"]
      /\ UNCHANGED <<target, rollback, carried, database, marker, disk, mem, dirty, mode, crashes, faults>>
  BY DEF RemoveStaged, At, Goto, NoNote
<1>2. /\ plan \in Plans /\ staged \in [Entries -> Contents] /\ NoRollback
      /\ mode \in {"apply", "undo", "recover"} /\ Tells(mem) /\ (disk # NoJournal => Tells(disk))
  BY <1>1 DEF RestoreInv, RestoreTypes, TypeOK, UndoStands, EndSteps, ModesFit, Modes, JournalsTell
<1>3. /\ staged' \in [Entries -> Contents] /\ staged'[i] = "none"
      /\ \A n \in Entries \ {i} : target'[n] = target[n] /\ rollback'[n] = rollback[n] /\ staged'[n] = staged[n]
  BY <1>1, <1>2, TypesHold
<1>4. NoRollback' /\ (Undone' <=> Undone) /\ (Done' <=> Done)
  BY <1>1, <1>2, PlanKept DEF NoRollback, Undone, Done
<1>5. ASSUME NEW j, Tells(j) PROVE Tells(j)'
  <2>1. CASE j.complete
    BY <1>4, <1>5, <2>1, PlanKept DEF Tells
  <2>2. CASE ~j.complete
    <3>1. Recoverable(j)
      BY <1>5, <2>2 DEF Tells
    <3>2. Whole(i)'
      BY <1>1, <1>3, <3>1, PlanKept DEF Recoverable, Whole, Back
    <3>3. i > j.listed => Back(i)'
      BY <1>1, <3>1, PlanKept DEF Recoverable, Back
    <3>4. i \in Original /\ j.new[i] => rollback'[i] = "old"
      BY <1>1, <3>1 DEF Recoverable
    <3>5. Recoverable(j)'
      BY <1>1, <1>3, <3>1, <3>2, <3>3, <3>4, OneMoves
    <3>. QED
      BY <2>2, <3>5 DEF Tells
  <2>. QED
    BY <2>1, <2>2
<1>6. RestoreTypes'
  BY <1>1, <1>3, PlanKept DEF RestoreInv, RestoreTypes, TypeOK
<1>7. JournalsTell'
  <2>1. Tells(mem') /\ (disk' # NoJournal => Tells(disk'))
    BY <1>1, <1>2
  <2>2. Tells(mem)' /\ (disk' # NoJournal => Tells(disk)')
    <3>1. mem' = mem /\ disk' = disk
      BY <1>1
    <3>. QED
      BY <1>2, <1>5, <3>1 DEF Tells, Recoverable
  <2>. QED
    BY <1>1, <1>4, <2>2, PlanKept DEF RestoreInv, JournalsTell, Serving, RestoreMarkersPresent
<1>8. ModesFit' /\ DiskFollows'
  BY <1>1, PlanKept DEF RestoreInv, ModesFit, DiskFollows, ApplySteps, UndoSteps, EndSteps
<1>9. ApplyStands' /\ UndoStands'
  BY <1>1, <1>4 DEF RestoreInv, ApplyStands, UndoStands, ApplySteps, UndoSteps, EndSteps
<1>. QED
  BY <1>6, <1>7, <1>8, <1>9 DEF RestoreInv

-----------------------------------------------------------------------------
(* The invariant holds, and what it says of the instance.                  *)

LEMMA RestoreInitInv ==
  ASSUME Beside, Init
  PROVE  RestoreInv
<1>1. /\ plan \in Plans /\ target = Before /\ rollback = [i \in Entries |-> "none"]
      /\ staged = [i \in Entries |-> "none"] /\ carried = "none" /\ database = "old"
      /\ marker = FALSE /\ disk = NoJournal /\ mem = NewJournal /\ dirty = FALSE
      /\ mode = "none" /\ pc = "idle" /\ at = 0 /\ crashes = 0 /\ faults = 0
  BY DEF Init
<1>2. NewJournal \in Journal /\ N \in Nat /\ DatabaseInside = 0
  BY <1>1, JournalRow, PlanFacts DEF Beside, DatabaseInside
<1>3. RestoreTypes
  <2>1. /\ target \in [Entries -> Contents] /\ rollback \in [Entries -> Contents]
        /\ staged \in [Entries -> Contents] /\ carried \in Contents
    BY <1>1, TypesHold
  <2>2. at \in 0..(N + 1) /\ crashes \in Nat /\ faults \in Nat
    BY <1>1, <1>2
  <2>3. database \in {"old", "new"} /\ disk \in Journal \union {NoJournal} /\ mem \in Journal
        /\ mode \in Modes /\ pc \in Steps /\ pc = "idle" /\ marker \in BOOLEAN /\ dirty \in BOOLEAN
    BY <1>1, <1>2 DEF Modes, Steps
  <2>. QED
    BY <1>1, <1>2, <2>1, <2>2, <2>3 DEF RestoreTypes, TypeOK
<1>4. JournalsTell
  BY <1>1 DEF JournalsTell, NoRollback, Undone
<1>5. ModesFit
  BY <1>1 DEF ModesFit, ApplySteps, UndoSteps, EndSteps
<1>6. DiskFollows /\ ApplyStands /\ UndoStands
  BY <1>1 DEF DiskFollows, ApplyStands, UndoStands, ApplySteps, UndoSteps, EndSteps
<1>. QED
  BY <1>3, <1>4, <1>5, <1>6 DEF RestoreInv

LEMMA RestoreStutters ==
  ASSUME RestoreInv, UNCHANGED vars
  PROVE  RestoreInv'
<1>1. UNCHANGED <<plan, target, rollback, staged, carried, database, marker, disk, mem, dirty, mode, pc, at,
                  crashes, faults>>
  BY DEF vars, changing, files, process
<1>2. RestoreTypes'
  BY <1>1, PlanKept DEF RestoreInv, RestoreTypes, TypeOK
<1>3. JournalsTell'
  BY <1>1, DataStays, PlanKept DEF RestoreInv, JournalsTell, Serving, RestoreMarkersPresent
<1>4. ModesFit' /\ DiskFollows'
  BY <1>1, PlanKept DEF RestoreInv, ModesFit, DiskFollows, NotAhead, CommitBegun, ApplySteps, UndoSteps, EndSteps
<1>5. ApplyStands' /\ UndoStands'
  BY <1>1, FilesStay, DataStays, PlanKept
  DEF RestoreInv, ApplyStands, UndoStands, CommitBegun, ApplySteps, UndoSteps, EndSteps
<1>. QED
  BY <1>2, <1>3, <1>4, <1>5 DEF RestoreInv

LEMMA RestoreStep ==
  ASSUME RestoreInv, Step, UNCHANGED plan
  PROVE  RestoreInv'
<1>1. CASE WriteJournal \/ WriteMarker \/ RemoveMarker \/ RemoveJournal \/ StagingRemoved
  BY <1>1, WriteJournalStep, WriteMarkerStep, RemoveMarkerStep, RemoveJournalStep, StagingRemovedStep
<1>2. CASE ListEntry \/ AllListed \/ MoveOld \/ MoveNew
  BY <1>2, ListEntryStep, AllListedStep, MoveOldStep, MoveNewStep
<1>3. CASE ImportDatabase \/ CommitDatabase \/ NoteCommitted \/ Finish
  BY <1>3, ImportDatabaseStep, CommitDatabaseStep, NoteCommittedStep, FinishStep
<1>4. CASE RemoveSome \/ RemoveNew \/ RestoreOld \/ RolledBack \/ RollbackMissing
  BY <1>4, RemoveSomeStep, RemoveNewStep, RestoreOldStep, RolledBackStep, RollbackMissingStep
<1>5. CASE CleanupDone \/ \E i \in Entries : CleanupOne(i) \/ RemoveStaged(i)
  BY <1>5, CleanupDoneStep, CleanupOneStep, RemoveStagedStep
<1>. QED
  BY <1>1, <1>2, <1>3, <1>4, <1>5 DEF Step

\* Whatever the process, its deaths, its failures and recover_restore do, every
\* journal tells how the old instance can be put back, or the new one is whole.
THEOREM RestoreInvariance == Beside => (Spec => []RestoreInv)
<1> SUFFICES ASSUME Beside PROVE Spec => []RestoreInv
  OBVIOUS
<1>1. Init => RestoreInv
  BY RestoreInitInv
<1>2. RestoreInv /\ [Next]_vars => RestoreInv'
  BY RestoreStep, RestoreStutters, BeginStep, FailStep, CrashStep, RecoverStep DEF Next
<1>. QED
  BY <1>1, <1>2, PTL DEF Spec

\* Every variable of the restore keeps its type.
THEOREM RestoreTypeCorrect == Beside => (Spec => []TypeOK)
<1> SUFFICES ASSUME Beside PROVE Spec => []TypeOK
  OBVIOUS
<1>1. RestoreInv => TypeOK
  BY DEF RestoreInv, RestoreTypes
<1>. QED
  BY <1>1, RestoreInvariance, PTL

\* apply_restore, _rollback_swaps and recover_restore lose no original content:
\* as long as the journal does not say "complete", it is at its path or beside it.
THEOREM OldContentIsKept == Beside => (Spec => []NothingLost)
<1> SUFFICES ASSUME Beside PROVE Spec => []NothingLost
  OBVIOUS
<1>1. RestoreInv => NothingLost
  <2> SUFFICES ASSUME RestoreInv, disk # NoJournal, ~disk.complete, NEW i \in Original
               PROVE  target[i] = "old" \/ rollback[i] = "old"
    BY DEF NothingLost
  <2>1. i \in Entries /\ Before[i] = "old"
    BY PlanFacts DEF RestoreInv, RestoreTypes
  <2>2. Whole(i)
    BY <2>1 DEF RestoreInv, JournalsTell, Tells, Recoverable
  <2>. QED
    BY <2>1, <2>2 DEF Whole, Back
<1>. QED
  BY <1>1, RestoreInvariance, PTL

\* The service runs on the instance before the restore or on the restored one,
\* never on a mixture of paths and database.
THEOREM OneInstanceIsServed == Beside => (Spec => []ServesOneInstance)
<1> SUFFICES ASSUME Beside PROVE Spec => []ServesOneInstance
  OBVIOUS
<1>1. RestoreInv => ServesOneInstance
  BY DEF RestoreInv, JournalsTell, Undone, Done, ServesOneInstance
<1>. QED
  BY <1>1, RestoreInvariance, PTL

-----------------------------------------------------------------------------
(***************************************************************************)
(* The restore implements the atomic replacement of AtomicRestore.         *)
(***************************************************************************)
\* The old instance and the restored one can be told apart.
LEMMA UndoneIsNotDone ==
  ASSUME plan \in Plans
  PROVE  ~(Undone /\ Done)
<1> SUFFICES ASSUME Undone, Done PROVE FALSE
  OBVIOUS
<1>1. CASE N = 0
  BY <1>1, PlanFacts DEF Undone, Done
<1>2. CASE N # 0
  <2>1. 1 \in Entries
    BY <1>2, PlanFacts
  <2>2. Before[1] # After[1]
    BY <2>1, PlanFacts
  <2>. QED
    BY <2>2 DEF Undone, Done
<1>. QED
  BY <1>1, <1>2

LEMMA InstanceServed ==
  ASSUME RestoreInv
  PROVE  /\ Serving /\ Undone => ServedInstance = "old"
         /\ Serving /\ Done => ServedInstance = "new"
         /\ ~Serving => /\ disk # NoJournal
                        /\ ServedInstance = IF disk.complete THEN "new" ELSE "old"
         /\ Serving => disk = NoJournal
<1>1. Serving /\ Undone => ServedInstance = "old"
  BY DEF ServedInstance, Undone
<1>2. Serving /\ Done => ServedInstance = "new"
  BY UndoneIsNotDone DEF ServedInstance, Done, Undone, RestoreInv, RestoreTypes
<1>3. ~Serving => disk # NoJournal
  BY DEF RestoreInv, JournalsTell, Serving, RestoreMarkersPresent
<1>4. Serving => disk = NoJournal
  BY DEF Serving, RestoreMarkersPresent
<1>5. ~Serving => ServedInstance = IF disk.complete THEN "new" ELSE "old"
  BY <1>3 DEF ServedInstance
<1>. QED
  BY <1>1, <1>2, <1>3, <1>4, <1>5

\* The steps of AtomicRestore, seen through the refinement mapping.
LEMMA AtomicSteps ==
  ASSUME \/ (Serving' <=> Serving) /\ ServedInstance' = ServedInstance
         \/ Serving /\ ~Serving' /\ ServedInstance' = ServedInstance
         \/ ~Serving /\ Serving' /\ ServedInstance' = ServedInstance
         \/ ~Serving /\ ~Serving' /\ ServedInstance = "old" /\ ServedInstance' = "new"
  PROVE  [Atomic!Next]_(Atomic!vars)
  BY DEF Atomic!Next, Atomic!vars, Atomic!Close, Atomic!Open, Atomic!Replace

\* A step that leaves the markers alone, and what is served if it is served.
LEMMA QuietSteps ==
  ASSUME RestoreInv, UNCHANGED <<plan, marker, disk>>, Serving => UNCHANGED <<target, database>>
  PROVE  [Atomic!Next]_(Atomic!vars)
<1>1. Serving' <=> Serving
  BY DEF Serving, RestoreMarkersPresent
<1>2. ServedInstance' = ServedInstance
  BY <1>1, PlanKept DEF ServedInstance
<1>. QED
  BY <1>1, <1>2, AtomicSteps

\* A change of the journal on disk that "complete" survives: nothing happens, or
\* the instance is replaced.
LEMMA JournalSteps ==
  ASSUME RestoreInv, UNCHANGED plan, ~Serving, disk' # NoJournal, disk' = disk \/ (dirty /\ disk' = mem)
  PROVE  [Atomic!Next]_(Atomic!vars)
<1>1. disk # NoJournal /\ ServedInstance = IF disk.complete THEN "new" ELSE "old"
  BY InstanceServed
<1>2. ~Serving' /\ ServedInstance' = IF disk'.complete THEN "new" ELSE "old"
  BY DEF Serving, RestoreMarkersPresent, ServedInstance
<1>3. disk.complete => disk'.complete
  <2>1. CASE disk' = disk
    BY <2>1
  <2>2. CASE dirty /\ disk' = mem
    <3>1. mode \in Modes /\ mode # "none" /\ ~(mode = "undo" /\ pc = "unstage")
      BY <2>2 DEF RestoreInv, RestoreTypes, TypeOK, ModesFit
    <3>2. CASE mode = "apply"
      BY <1>1, <2>2, <3>2 DEF RestoreInv, DiskFollows, NotAhead
    <3>3. CASE mode \in {"undo", "recover"}
      BY <2>2, <3>1, <3>3 DEF RestoreInv, DiskFollows
    <3>. QED
      BY <3>1, <3>2, <3>3 DEF Modes
  <2>. QED
    BY <2>1, <2>2
<1>. QED
  BY <1>1, <1>2, <1>3, AtomicSteps

\* Until the marker is written nothing has changed.
LEMMA MarkIsUndone ==
  ASSUME RestoreInv, pc = "mark"
  PROVE  ~mem.complete /\ Undone
<1>1. /\ ~CommitBegun(mem) /\ ~mem.complete /\ Recoverable(mem) /\ plan \in Plans
      /\ \A i \in Entries : (i > 1 => Untouched(i)) /\ (1 <= N => Untouched(1))
  BY DEF RestoreInv, RestoreTypes, ApplyStands, ModesFit, ApplySteps, JournalsTell, Tells
<1>2. N \in Nat /\ Entries = 1..N
  BY <1>1, PlanFacts
<1>3. \A i \in Entries : i > 1 \/ (i = 1 /\ 1 <= N)
  BY <1>2
<1>4. \A i \in Entries : target[i] = Before[i]
  BY <1>1, <1>3 DEF Untouched, Back
<1>5. target \in [Entries -> Contents] /\ Before \in [Entries -> Contents]
  BY <1>1, TypesHold DEF RestoreInv, RestoreTypes, TypeOK
<1>6. target = Before
  BY <1>4, <1>5
<1>. QED
  BY <1>1, <1>6 DEF Undone, Recoverable

\* The first journal write closes the service on the instance as it was.
LEMMA ClosingStep ==
  ASSUME RestoreInv, UNCHANGED plan, Serving, WriteJournal
  PROVE  [Atomic!Next]_(Atomic!vars)
<1>1. /\ dirty /\ disk' = mem /\ UNCHANGED <<target, database, marker>>
      /\ disk = NoJournal /\ plan \in Plans /\ mem # NoJournal /\ mem \in Journal /\ mode \in Modes
  BY PlanFacts, InstanceServed DEF WriteJournal, files, RestoreInv, RestoreTypes, TypeOK
<1>2. mode # "none" /\ ~(mode = "undo" /\ pc = "unstage")
  BY <1>1 DEF RestoreInv, ModesFit
<1>3. mode = "apply"
  BY <1>1, <1>2 DEF RestoreInv, DiskFollows, Modes
<1>4. pc = "mark"
  BY <1>1, <1>3 DEF RestoreInv, DiskFollows, NotAhead
<1>5. ~mem.complete /\ Undone
  BY <1>4, MarkIsUndone
<1>7. ServedInstance = "old"
  BY <1>5, InstanceServed
<1>8. ~Serving' /\ ServedInstance' = "old"
  BY <1>1, <1>5 DEF Serving, RestoreMarkersPresent, ServedInstance
<1>. QED
  BY <1>7, <1>8, AtomicSteps

\* The journal goes: the service opens on the instance that the journal told of.
LEMMA OpeningStep ==
  ASSUME RestoreInv, RestoreInv', UNCHANGED <<plan, target, database>>,
         marker' = FALSE, disk' = NoJournal,
         disk # NoJournal /\ ~disk.complete => Undone
  PROVE  [Atomic!Next]_(Atomic!vars)
<1>1. Serving'
  BY DEF Serving, RestoreMarkersPresent
<1>2. CASE Serving
  <2>1. ServedInstance' = ServedInstance
    BY <1>1, <1>2, PlanKept DEF ServedInstance
  <2>. QED
    BY <1>1, <1>2, <2>1, AtomicSteps
<1>3. CASE ~Serving
  <2>1. disk # NoJournal /\ ServedInstance = IF disk.complete THEN "new" ELSE "old"
    BY <1>3, InstanceServed
  <2>2. CASE disk.complete
    <3>1. Done
      BY <2>1, <2>2 DEF RestoreInv, JournalsTell, Tells
    <3>2. ~Undone /\ target' = After' /\ (database' = "new" <=> ServerDatabase')
      BY <3>1, UndoneIsNotDone, PlanKept DEF RestoreInv, RestoreTypes, Done
    <3>3. ~(target' = Before' /\ database' = "old")
      BY <3>2, PlanKept DEF Undone
    <3>4. ServedInstance' = "new"
      BY <1>1, <3>2, <3>3 DEF ServedInstance
    <3>. QED
      BY <1>1, <1>3, <2>1, <2>2, <3>4, AtomicSteps
  <2>3. CASE ~disk.complete
    <3>1. target' = Before' /\ database' = "old"
      BY <2>1, <2>3, PlanKept DEF Undone
    <3>2. ServedInstance' = "old"
      BY <1>1, <3>1 DEF ServedInstance
    <3>. QED
      BY <1>1, <1>3, <2>1, <2>3, <3>2, AtomicSteps
  <2>. QED
    BY <2>2, <2>3
<1>. QED
  BY <1>2, <1>3

LEMMA AtomicFail ==
  ASSUME RestoreInv, RestoreInv', UNCHANGED plan, Fail
  PROVE  [Atomic!Next]_(Atomic!vars)
<1>1. PICK j \in IF dirty THEN {disk, mem} ELSE {disk},
           m \in IF At("mark") THEN BOOLEAN ELSE {marker},
           d \in IF At("commit") THEN {"old", "new"} ELSE {database} :
         marker' = m /\ database' = d /\ Raise(m, j)
  BY DEF Fail
<1>2. pc \notin {"idle", "unstage"} /\ UNCHANGED <<target, rollback, staged>>
  BY DEF Fail, files
<1>3. /\ j = disk \/ (dirty /\ j = mem)
      /\ m \in BOOLEAN /\ (m = marker \/ (pc = "mark" /\ ~dirty))
      /\ d = database \/ (pc = "commit" /\ ~dirty)
      /\ plan \in Plans /\ mem # NoJournal
  BY PlanFacts DEF At, RestoreInv, RestoreTypes, TypeOK
<1>4. CASE mode = "apply" /\ ~m /\ disk' = NoJournal
  <2>1. (pc = "mark" \/ ~marker) /\ pc # "commit"
    BY <1>2, <1>3, <1>4 DEF RestoreInv, DiskFollows
  <2>2. pc \in {"mark", "unjournal"}
    BY <1>2, <1>4, <2>1 DEF RestoreInv, DiskFollows
  <2>3. database' = database /\ marker' = FALSE
    BY <1>1, <1>3, <1>4, <2>1
  <2>4. CASE pc = "unjournal"
    <3>1. ~dirty /\ mem.complete
      BY <1>4, <2>4 DEF RestoreInv, ModesFit, EndSteps
    <3>2. disk = mem
      BY <1>4, <2>4, <3>1 DEF RestoreInv, DiskFollows
    <3>. QED
      BY <1>2, <1>4, <2>3, <3>1, <3>2, OpeningStep
  <2>5. CASE pc = "mark"
    <3>1. Undone
      BY <2>5, MarkIsUndone
    <3>. QED
      BY <1>2, <1>4, <2>3, <3>1, OpeningStep
  <2>. QED
    BY <2>2, <2>4, <2>5
<1>5. CASE disk' = j /\ (mode = "apply" => m)
  <2>1. CASE Serving
    <3>1. disk = NoJournal /\ ~marker
      BY <2>1 DEF Serving, RestoreMarkersPresent
    <3>2. mode = "apply"
      BY <1>2, <3>1 DEF RestoreInv, RestoreTypes, TypeOK, ModesFit, DiskFollows, Modes
    <3>3. pc = "mark" /\ ~dirty
      BY <1>3, <1>5, <3>1, <3>2
    <3>4. disk = mem
      BY <3>2, <3>3 DEF RestoreInv, DiskFollows
    <3>. QED
      BY <1>3, <3>1, <3>4
  <2>2. CASE ~Serving
    <3>1. disk # NoJournal
      BY <2>2, InstanceServed
    <3>2. disk' # NoJournal /\ (disk' = disk \/ (dirty /\ disk' = mem))
      BY <1>3, <1>5, <3>1
    <3>. QED
      BY <2>2, <3>2, JournalSteps
  <2>. QED
    BY <2>1, <2>2
<1>6. (mode = "apply" /\ ~m /\ disk' = NoJournal) \/ (disk' = j /\ (mode = "apply" => m))
  BY <1>1 DEF Raise, HandleException
<1>. QED
  BY <1>4, <1>5, <1>6

LEMMA AtomicStep ==
  ASSUME RestoreInv, RestoreInv', UNCHANGED plan, Step
  PROVE  [Atomic!Next]_(Atomic!vars)
<1>1. CASE WriteJournal
  <2>1. CASE Serving
    BY <1>1, <2>1, ClosingStep
  <2>2. CASE ~Serving
    <3>1. disk' # NoJournal /\ disk' = mem /\ dirty
      BY <1>1, PlanFacts DEF WriteJournal, RestoreInv, RestoreTypes, TypeOK
    <3>. QED
      BY <2>2, <3>1, JournalSteps
  <2>. QED
    BY <2>1, <2>2
<1>2. CASE WriteMarker \/ RemoveMarker
  <2>1. /\ pc \in {"mark", "unmark"} /\ ~dirty /\ disk' = disk
    BY <1>2 DEF WriteMarker, RemoveMarker, At
  <2>2. mode \in Modes \ {"none"}
    BY <2>1 DEF RestoreInv, RestoreTypes, TypeOK, ModesFit
  <2>3. disk # NoJournal
    <3>1. CASE mode = "apply"
      BY <2>1, <3>1, PlanFacts DEF RestoreInv, RestoreTypes, TypeOK, DiskFollows
    <3>2. CASE mode \in {"undo", "recover"}
      BY <2>1, <3>2 DEF RestoreInv, DiskFollows
    <3>. QED
      BY <2>2, <3>1, <3>2 DEF Modes
  <2>. QED
    BY <2>1, <2>3, JournalSteps DEF Serving, RestoreMarkersPresent
<1>3. CASE RemoveJournal
  <2>1. /\ pc = "unjournal" /\ ~dirty /\ disk' = NoJournal /\ UNCHANGED <<target, database, marker>>
    BY <1>3 DEF RemoveJournal, At, files
  <2>2. ~marker /\ marker' = FALSE /\ (~mem.complete => Undone)
    BY <2>1 DEF RestoreInv, RestoreTypes, TypeOK, DiskFollows, UndoStands, EndSteps
  <2>3. disk # NoJournal => disk.complete = mem.complete
    <3>1. CASE mode = "apply"
      BY <2>1, <3>1 DEF RestoreInv, DiskFollows
    <3>2. CASE mode \in {"undo", "recover"}
      BY <2>1, <3>2 DEF RestoreInv, DiskFollows
    <3>. QED
      BY <2>1, <3>1, <3>2 DEF RestoreInv, RestoreTypes, TypeOK, ModesFit, Modes
  <2>. QED
    BY <2>1, <2>2, <2>3, OpeningStep
<1>4. CASE \/ ListEntry \/ AllListed \/ ImportDatabase \/ NoteCommitted \/ Finish
           \/ RolledBack \/ CleanupDone \/ StagingRemoved
           \/ \E i \in Entries : CleanupOne(i) \/ RemoveStaged(i)
  <2>1. UNCHANGED <<target, database, marker, disk>>
    BY <1>4 DEF ListEntry, AllListed, ImportDatabase, NoteCommitted, Finish, RolledBack, CleanupDone,
                StagingRemoved, CleanupOne, RemoveStaged, files
  <2>. QED
    BY <2>1, QuietSteps
<1>5. CASE MoveOld \/ MoveNew \/ CommitDatabase \/ RemoveSome \/ RemoveNew \/ RestoreOld
  <2>1. /\ UNCHANGED <<marker, disk>> /\ ~dirty
        /\ pc \in {"moveold", "movenew", "commit", "removenew", "restoreold"}
    BY <1>5 DEF MoveOld, MoveNew, CommitDatabase, RemoveSome, RemoveNew, RestoreOld, At
  <2>2. ~Serving
    <3>1. CASE pc \in {"moveold", "movenew", "commit"}
      <4>1. marker
        BY <3>1 DEF RestoreInv, ModesFit, DiskFollows, ApplySteps
      <4>. QED
        BY <4>1 DEF Serving, RestoreMarkersPresent
    <3>2. CASE pc \in {"removenew", "restoreold"}
      <4>1. disk # NoJournal
        BY <2>1, <3>2 DEF RestoreInv, DiskFollows, NotAhead, UndoSteps
      <4>. QED
        BY <4>1 DEF Serving, RestoreMarkersPresent
    <3>. QED
      BY <2>1, <3>1, <3>2
  <2>. QED
    BY <2>1, <2>2, QuietSteps
<1>6. CASE RollbackMissing
  <2>1. /\ pc = "restoreold" /\ ~dirty /\ Raise(marker, disk) /\ UNCHANGED <<target, database, marker>>
    BY <1>6 DEF RollbackMissing, At, files
  <2>2. mode # "apply"
    BY <2>1 DEF RestoreInv, ModesFit, UndoSteps
  <2>3. disk' = disk
    BY <2>1, <2>2 DEF Raise
  <2>. QED
    BY <2>1, <2>3, QuietSteps
<1>. QED
  BY <1>1, <1>2, <1>3, <1>4, <1>5, <1>6 DEF Step

\* Seen through the maintenance gate, apply_restore with its rollback and
\* recover_restore replace the instance in one step, the journal write that says
\* "complete", or not at all.
THEOREM RestoreIsAtomic == Beside => (Spec => ImplementsAtomicRestore)
<1> SUFFICES ASSUME Beside PROVE Spec => ImplementsAtomicRestore
  OBVIOUS
<1>1. Init => Atomic!Init
  BY DEF Init, Atomic!Init, Serving, RestoreMarkersPresent, ServedInstance
<1>2. RestoreInv /\ RestoreInv' /\ [Next]_vars => [Atomic!Next]_(Atomic!vars)
  <2> SUFFICES ASSUME RestoreInv, RestoreInv', [Next]_vars PROVE [Atomic!Next]_(Atomic!vars)
    OBVIOUS
  <2>1. CASE UNCHANGED plan /\ (Begin \/ Crash \/ Recover)
    <3>1. UNCHANGED <<target, database, marker, disk>>
      BY <2>1 DEF Begin, Crash, Recover, files
    <3>. QED
      BY <2>1, <3>1, QuietSteps
  <2>2. CASE UNCHANGED vars
    <3>1. UNCHANGED <<plan, target, database, marker, disk>>
      BY <2>2 DEF vars, changing, files
    <3>. QED
      BY <3>1, QuietSteps
  <2>. QED
    BY <2>1, <2>2, AtomicStep, AtomicFail DEF Next
<1>. QED
  BY <1>1, <1>2, RestoreInvariance, PTL DEF Spec, ImplementsAtomicRestore, Atomic!Spec

-----------------------------------------------------------------------------
(***************************************************************************)
(* The backup sets: the inductive invariant.                               *)
(***************************************************************************)
SetStates == {"none", "staging", "complete", "damaged", "half", "leftover"}
Making    == {"export", "scan", "copy", "publish"}
LockSteps == Making \union {"stage", "mark", "switch", "remove", "removing"}

SetRows ==
  [state: SetStates, parts: Parts, rows: SUBSET Media, files: SUBSET Media, pinned: BOOLEAN]
WorkRows ==
  [at: LockSteps \union {"idle", "confirm"}, op: {"none", "create", "prune", "restore"},
   id: 0..MaxBackups, source: 0..MaxBackups, keep: Nat,
   seen: SUBSET (Media \X {"file", "temp"}), plan: SUBSET SetIds]

SetTypes ==
  /\ sets \in [SetIds -> SetRows]
  /\ command \in [Commands -> WorkRows]
  /\ begun \in 0..MaxBackups
  /\ row \subseteq Media /\ file \subseteq Media /\ temp \subseteq Media

\* backup_lock admits one command.
LockHeld == \A c \in Commands : command[c].at \in LockSteps <=> holder = c

SetWhole(s) == sets[s].parts = "all" => sets[s].rows \subseteq sets[s].files \union split

\* The instance and every finished set have the files of their rows.
RowsHaveFiles ==
  /\ row \subseteq file \union split
  /\ \A s \in SetIds : sets[s].state \in {"complete", "damaged"} => SetWhole(s)
  /\ \A s \in SetIds : s > begun => sets[s].state = "none"

FilesSeen(w) == {m \in Media : <<m, "file">> \in w.seen}

\* What the work of a command under the lock relies on: the set that it makes holds the rows
\* whose files are still to come, the set that it restores stays, and its prune
\* plan spares a set that verifies and every set that is pinned.
Relies(w) ==
  LET s == sets[w.id] IN
  /\ w.at \in Making => w.id \in SetIds /\ s.state = "staging"
  /\ w.at = "scan" /\ s.parts = "all" => s.rows \subseteq file \union split
  /\ w.at = "copy" /\ s.parts = "all" => s.rows \subseteq FilesSeen(w) \union split
  /\ w.at = "publish" => SetWhole(w.id)
  /\ w.at \in {"mark", "switch"} \/ (w.at \in Making /\ w.op # "create") =>
       w.source \in SetIds /\ sets[w.source].state \in {"complete", "damaged"}
  /\ w.at \in {"remove", "removing"} =>
       /\ w.plan \subseteq Verified
       /\ \A p \in w.plan : ~sets[p].pinned
       /\ w.plan # {} => Verified \ w.plan # {}
  /\ w.at = "removing" => w.id \in SetIds /\ s.state = "half"
  /\ w.at \notin LockSteps => w.id = 0

BackupInv == SetTypes /\ LockHeld /\ RowsHaveFiles /\ \A c \in Commands : Relies(command[c])

-----------------------------------------------------------------------------
(* Facts about rows.                                                       *)

LEMMA SetRow ==
  /\ NoSet \in SetRows /\ NoSet.state = "none"
  /\ \A r \in SetRows : /\ r.state \in SetStates /\ r.parts \in Parts
                        /\ r.rows \subseteq Media /\ r.files \subseteq Media /\ r.pinned \in BOOLEAN
  BY DEF SetRows, NoSet, SetStates, Parts

LEMMA WorkRow ==
  /\ NoWork \in WorkRows /\ NoWork.at = "idle" /\ NoWork.id = 0
  /\ \A w \in WorkRows : /\ w.at \in LockSteps \union {"idle", "confirm"}
                         /\ w.op \in {"none", "create", "prune", "restore"}
                         /\ w.id \in 0..MaxBackups /\ w.source \in 0..MaxBackups /\ w.keep \in Nat
                         /\ w.seen \subseteq Media \X {"file", "temp"} /\ w.plan \subseteq SetIds
<1>1. 0 \in 0..MaxBackups /\ 0 \in Nat
  BY BackupAssumption
<1>. QED
  BY <1>1 DEF WorkRows, NoWork

\* The changes the steps make to a command's work.
GoesTo(w, to) == [w EXCEPT !.at = to]
Sees(w, to, seen) == [w EXCEPT !.at = to, !.seen = seen]
HasPlan(w, to, p) == [w EXCEPT !.at = to, !.plan = p]

LEMMA GoesToRow ==
  ASSUME NEW w \in WorkRows, NEW to \in LockSteps \union {"idle", "confirm"}
  PROVE  LET v == GoesTo(w, to)
         IN  /\ v \in WorkRows /\ v.at = to /\ v.op = w.op /\ v.id = w.id /\ v.source = w.source
             /\ v.seen = w.seen /\ v.plan = w.plan /\ v.keep = w.keep
  BY DEF WorkRows, GoesTo

LEMMA SeesRow ==
  ASSUME NEW w \in WorkRows, NEW to \in LockSteps \union {"idle", "confirm"},
         NEW seen \in SUBSET (Media \X {"file", "temp"})
  PROVE  LET v == Sees(w, to, seen)
         IN  /\ v \in WorkRows /\ v.at = to /\ v.op = w.op /\ v.id = w.id /\ v.source = w.source
             /\ v.seen = seen /\ v.plan = w.plan /\ v.keep = w.keep
<1>1. Sees(w, to, seen) = [[w EXCEPT !.at = to] EXCEPT !.seen = seen]
  BY DEF Sees, WorkRows
<1>. QED
  BY <1>1 DEF WorkRows

LEMMA PlansRow ==
  ASSUME NEW w \in WorkRows, NEW to \in LockSteps \union {"idle", "confirm"}, NEW p \in SUBSET SetIds
  PROVE  LET v == HasPlan(w, to, p)
         IN  /\ v \in WorkRows /\ v.at = to /\ v.op = w.op /\ v.id = w.id /\ v.source = w.source
             /\ v.seen = w.seen /\ v.plan = p /\ v.keep = w.keep
<1>1. HasPlan(w, to, p) = [[w EXCEPT !.at = to] EXCEPT !.plan = p]
  BY DEF HasPlan, WorkRows
<1>. QED
  BY <1>1 DEF WorkRows

-----------------------------------------------------------------------------
(* Frames: what a step has to show for the invariant.                      *)

LEMMA SetsStay ==
  ASSUME UNCHANGED <<sets, begun, row, file, split>>
  PROVE  /\ RowsHaveFiles' <=> RowsHaveFiles
         /\ Verified' = Verified
         /\ \A s : SetWhole(s)' <=> SetWhole(s)
         /\ \A w : Relies(w)' <=> Relies(w)
<1>1. Verified' = Verified /\ \A s : SetWhole(s)' <=> SetWhole(s)
  BY DEF Verified, SetWhole
<1>2. RowsHaveFiles' <=> RowsHaveFiles
  BY <1>1 DEF RowsHaveFiles
<1>3. \A w : Relies(w)' <=> Relies(w)
  BY <1>1 DEF Relies
<1>. QED
  BY <1>1, <1>2, <1>3

\* A command that has the lock, or finds it free, is alone.
LEMMA OthersWait ==
  ASSUME BackupInv, NEW c \in Commands, holder \in {c, NoOne}
  PROVE  \A d \in Commands \ {c} : command[d].at \notin LockSteps /\ command[d].id = 0
<1> SUFFICES ASSUME NEW d \in Commands, d # c PROVE command[d].at \notin LockSteps /\ command[d].id = 0
  OBVIOUS
<1>1. command[d].at \notin LockSteps
  BY NoOneAssumption DEF BackupInv, LockHeld
<1>2. Relies(command[d])
  BY DEF BackupInv
<1>. QED
  BY <1>1, <1>2 DEF Relies

\* Work without the lock relies on nothing.
LEMMA WaitingRelies ==
  ASSUME NEW w, w.at \notin LockSteps, w.id = 0
  PROVE  Relies(w) /\ Relies(w)'
<1>1. /\ w.at \notin Making /\ w.at \notin {"mark", "switch", "remove", "removing"}
      /\ w.at # "scan" /\ w.at # "copy" /\ w.at # "publish" /\ w.at # "removing"
  BY DEF LockSteps, Making
<1>. QED
  BY <1>1 DEF Relies

LEMMA CommandStep ==
  ASSUME BackupInv, NEW c \in Commands, holder \in {c, NoOne},
         NEW w \in WorkRows, command' = [command EXCEPT ![c] = w],
         (holder' = c /\ w.at \in LockSteps) \/ (holder' = NoOne /\ w.at \notin LockSteps),
         sets' \in [SetIds -> SetRows], begun' \in 0..MaxBackups,
         row' \subseteq Media, file' \subseteq Media, temp' \subseteq Media,
         RowsHaveFiles', Relies(w)'
  PROVE  BackupInv'
<1>1. /\ command \in [Commands -> WorkRows]
      /\ \A d \in Commands \ {c} : command[d].at \notin LockSteps /\ command[d].id = 0
  BY OthersWait DEF BackupInv, SetTypes
<1>2. command' \in [Commands -> WorkRows] /\ command'[c] = w
      /\ \A d \in Commands \ {c} : command'[d] = command[d]
  BY <1>1
<1>3. SetTypes'
  BY <1>2 DEF SetTypes
<1>4. LockHeld'
  BY <1>1, <1>2, NoOneAssumption DEF LockHeld
<1>5. ASSUME NEW d \in Commands PROVE Relies(command[d])'
  <2>1. CASE d = c
    BY <1>2, <2>1 DEF Relies, SetWhole, Verified, FilesSeen
  <2>2. CASE d # c
    <3>1. PICK v : v = command'[d]
      OBVIOUS
    <3>2. Relies(v)'
      BY <1>1, <1>2, <2>2, <3>1, WaitingRelies
    <3>. QED
      BY <3>1, <3>2 DEF Relies, SetWhole, Verified, FilesSeen
  <2>. QED
    BY <2>1, <2>2
<1>. QED
  BY <1>3, <1>4, <1>5 DEF BackupInv

\* A step of no command, or of one that needs the lock no longer than the step.
LEMMA LocklessStep ==
  ASSUME BackupInv, holder = NoOne, UNCHANGED <<command, holder, row, file, temp, begun>>,
         sets' \in [SetIds -> SetRows], RowsHaveFiles'
  PROVE  BackupInv'
<1>1. SetTypes' /\ LockHeld'
  BY DEF BackupInv, SetTypes, LockHeld
<1>2. ASSUME NEW c \in Commands PROVE Relies(command[c])'
  <2>1. PICK w : w = command[c]
    OBVIOUS
  <2>2. w.at \notin LockSteps /\ w.id = 0
    <3>1. w.at \notin LockSteps /\ Relies(w)
      BY <2>1, NoOneAssumption DEF BackupInv, LockHeld
    <3>. QED
      BY <3>1 DEF Relies
  <2>3. Relies(w)'
    BY <2>2, WaitingRelies
  <2>. QED
    BY <2>1, <2>3 DEF Relies, SetWhole, Verified, FilesSeen
<1>. QED
  BY <1>1, <1>2 DEF BackupInv

\* Uploads: files come before rows, and what is split stays so.
LEMMA UploadStep ==
  ASSUME BackupInv, NEW m \in Media,
         UploadBegins(m) \/ UploadReplaces(m) \/ UploadCommits(m) \/ UploadFails(m)
  PROVE  BackupInv'
<1>1. UNCHANGED <<sets, command, holder, begun>>
  BY DEF UploadBegins, UploadReplaces, UploadCommits, UploadFails, SetsKept
<1>2. /\ row \subseteq Media /\ file \subseteq Media /\ temp \subseteq Media
      /\ row \subseteq file \union split
  BY DEF BackupInv, SetTypes, RowsHaveFiles
<1>3. /\ row' \subseteq Media /\ file' \subseteq Media /\ temp' \subseteq Media
      /\ row' \subseteq file' \union split' /\ file \subseteq file' /\ split \subseteq split'
  BY <1>2 DEF UploadBegins, UploadReplaces, UploadCommits, UploadFails, SetsKept
<1>4. SetTypes' /\ LockHeld'
  BY <1>1, <1>3 DEF BackupInv, SetTypes, LockHeld
<1>5. RowsHaveFiles'
  BY <1>1, <1>3 DEF BackupInv, RowsHaveFiles, SetWhole
<1>6. ASSUME NEW c \in Commands PROVE Relies(command[c])'
  <2>1. Relies(command[c])
    BY DEF BackupInv
  <2>. QED
    BY <1>1, <1>3, <2>1 DEF Relies, SetWhole, Verified
<1>. QED
  BY <1>4, <1>5, <1>6 DEF BackupInv

\* One set changes.
LEMMA SetChanges ==
  ASSUME BackupInv, NEW k \in SetIds, NEW r \in SetRows, sets' = [sets EXCEPT ![k] = r],
         UNCHANGED <<row, file, split>>, begun' \in Nat, begun' >= begun, k <= begun',
         r.state \in {"complete", "damaged"} /\ r.parts = "all" => r.rows \subseteq r.files \union split
  PROVE  /\ sets' \in [SetIds -> SetRows] /\ sets'[k] = r
         /\ \A s \in SetIds \ {k} : sets'[s] = sets[s] /\ (SetWhole(s)' <=> SetWhole(s))
         /\ RowsHaveFiles'
<1>1. sets \in [SetIds -> SetRows] /\ RowsHaveFiles /\ begun \in Nat
  BY BackupAssumption DEF BackupInv, SetTypes
<1>2. sets' \in [SetIds -> SetRows] /\ sets'[k] = r /\ \A s \in SetIds \ {k} : sets'[s] = sets[s]
  BY <1>1
<1>3. \A s \in SetIds \ {k} : SetWhole(s)' <=> SetWhole(s)
  BY <1>2 DEF SetWhole
<1>4. \A s \in SetIds : sets'[s].state \in {"complete", "damaged"} => SetWhole(s)'
  <2>1. ASSUME NEW s \in SetIds, sets'[s].state \in {"complete", "damaged"} PROVE SetWhole(s)'
    <3>1. CASE s = k
      BY <1>2, <2>1, <3>1 DEF SetWhole
    <3>2. CASE s # k
      BY <1>1, <1>2, <1>3, <2>1, <3>2 DEF RowsHaveFiles
    <3>. QED
      BY <3>1, <3>2
  <2>. QED
    BY <2>1
<1>5. \A s \in SetIds : s > begun' => sets'[s].state = "none"
  <2>1. ASSUME NEW s \in SetIds, s > begun' PROVE s # k /\ s > begun
    BY <1>1, <2>1 DEF SetIds
  <2>. QED
    BY <1>1, <1>2, <2>1 DEF RowsHaveFiles
<1>6. row' \subseteq file' \union split'
  BY <1>1 DEF RowsHaveFiles
<1>. QED
  BY <1>2, <1>3, <1>4, <1>5, <1>6 DEF RowsHaveFiles

\* The changes the steps make to a set.
WithRows(r, x)  == [r EXCEPT !.rows = x]
WithFiles(r, x) == [r EXCEPT !.files = x]
InState(r, x)   == [r EXCEPT !.state = x]

LEMMA RowsRow ==
  ASSUME NEW r \in SetRows, NEW x \in SUBSET Media
  PROVE  LET q == WithRows(r, x)
         IN  /\ q \in SetRows /\ q.state = r.state /\ q.parts = r.parts /\ q.rows = x /\ q.files = r.files
             /\ q.pinned = r.pinned
  BY DEF SetRows, WithRows

LEMMA FilesRow ==
  ASSUME NEW r \in SetRows, NEW x \in SUBSET Media
  PROVE  LET q == WithFiles(r, x)
         IN  /\ q \in SetRows /\ q.state = r.state /\ q.parts = r.parts /\ q.rows = r.rows /\ q.files = x
             /\ q.pinned = r.pinned
  BY DEF SetRows, WithFiles

LEMMA StateRow ==
  ASSUME NEW r \in SetRows, NEW x \in SetStates
  PROVE  LET q == InState(r, x)
         IN  /\ q \in SetRows /\ q.state = x /\ q.parts = r.parts /\ q.rows = r.rows /\ q.files = r.files
             /\ q.pinned = r.pinned
  BY DEF SetRows, InState

LEMMA PinRow ==
  ASSUME NEW r \in SetRows
  PROVE  LET q == [r EXCEPT !.pinned = ~@]
         IN  /\ q \in SetRows /\ q.state = r.state /\ q.parts = r.parts /\ q.rows = r.rows /\ q.files = r.files
  BY DEF SetRows

LEMMA StagingRow ==
  ASSUME NEW p \in Parts
  PROVE  LET q == [NoSet EXCEPT !.state = "staging", !.parts = p]
         IN  q \in SetRows /\ q.state = "staging" /\ q.parts = p /\ q.rows = {} /\ q.files = {} /\ ~q.pinned
  BY DEF SetRows, NoSet, SetStates

LEMMA SetChangesOnly ==
  ASSUME BackupInv, NEW k \in SetIds, NEW r \in SetRows, sets' = [sets EXCEPT ![k] = r],
         UNCHANGED <<row, file, split, begun>>, k <= begun,
         r.state \in {"complete", "damaged"} /\ r.parts = "all" => r.rows \subseteq r.files \union split
  PROVE  /\ sets' \in [SetIds -> SetRows] /\ sets'[k] = r
         /\ \A s \in SetIds \ {k} : sets'[s] = sets[s] /\ (SetWhole(s)' <=> SetWhole(s))
         /\ RowsHaveFiles'
<1>1. begun' \in Nat /\ begun' >= begun /\ k <= begun'
  BY BackupAssumption DEF BackupInv, SetTypes
<1>. QED
  BY <1>1, SetChanges

\* A command under the lock: its work, and the set that it makes.
LEMMA AtWork ==
  ASSUME BackupInv, NEW c \in Commands, command[c].at \in LockSteps
  PROVE  /\ holder = c /\ command[c] \in WorkRows /\ Relies(command[c]) /\ begun \in Nat
         /\ sets \in [SetIds -> SetRows] /\ begun \in 0..MaxBackups
         /\ row \subseteq Media /\ file \subseteq Media /\ temp \subseteq Media /\ RowsHaveFiles
         /\ command[c].at \in Making =>
              LET k == command[c].id
              IN  k \in SetIds /\ sets[k].state = "staging" /\ k <= begun /\ sets[k] \in SetRows
<1>1. /\ holder = c /\ command[c] \in WorkRows /\ Relies(command[c]) /\ begun \in Nat
      /\ sets \in [SetIds -> SetRows] /\ begun \in 0..MaxBackups
      /\ row \subseteq Media /\ file \subseteq Media /\ temp \subseteq Media /\ RowsHaveFiles
  BY BackupAssumption DEF BackupInv, SetTypes, LockHeld
<1>2. ASSUME command[c].at \in Making
      PROVE  /\ command[c].id \in SetIds /\ sets[command[c].id].state = "staging" /\ command[c].id <= begun
             /\ sets[command[c].id] \in SetRows
  <2>1. command[c].id \in SetIds /\ sets[command[c].id].state = "staging"
    BY <1>1, <1>2 DEF Relies
  <2>2. ~(command[c].id > begun)
    BY <1>1, <2>1 DEF RowsHaveFiles
  <2>3. command[c].id \in Nat
    BY <2>1, BackupAssumption DEF SetIds
  <2>. QED
    BY <1>1, <2>1, <2>2, <2>3
<1>. QED
  BY <1>1, <1>2

\* The command ends and leaves the lock.
LEMMA EndingStep ==
  ASSUME BackupInv, NEW c \in Commands, holder \in {c, NoOne}, Ends(c), begun' = begun,
         sets' \in [SetIds -> SetRows], row' \subseteq Media, file' \subseteq Media, temp' \subseteq Media,
         RowsHaveFiles'
  PROVE  BackupInv'
<1>1. Relies(NoWork)' /\ NoWork \in WorkRows /\ NoWork.at \notin LockSteps
  BY WorkRow, WaitingRelies DEF LockSteps, Making
<1>2. command' = [command EXCEPT ![c] = NoWork] /\ holder' = NoOne
  BY DEF Ends, Works
<1>3. begun' \in 0..MaxBackups
  BY DEF BackupInv, SetTypes
<1>. QED
  BY <1>1, <1>2, <1>3, CommandStep

-----------------------------------------------------------------------------
(* Making a set.                                                           *)

\* The staging directory of the next backup id.
LEMMA StagesStep ==
  ASSUME BackupInv, NEW c \in Commands, NEW parts \in Parts, NEW work \in WorkRows,
         holder \in {c, NoOne}, Stages(c, parts, work), holder' = c, UNCHANGED <<row, file, temp, split>>,
         work.op # "create" => work.source \in SetIds /\ work.source # begun + 1
                               /\ sets[work.source].state \in {"complete", "damaged"}
  PROVE  BackupInv'
<1>1. /\ begun \in 0..MaxBackups /\ begun < MaxBackups /\ begun' = begun + 1 /\ MaxBackups \in Nat
      /\ sets \in [SetIds -> SetRows] /\ row \subseteq Media /\ file \subseteq Media /\ temp \subseteq Media
  BY BackupAssumption DEF Stages, BackupInv, SetTypes
<1>2. PICK k \in SetIds : k = begun + 1
  BY <1>1 DEF SetIds
<1>3. begun' \in Nat /\ begun' >= begun /\ k <= begun' /\ begun' \in 0..MaxBackups /\ k \in 0..MaxBackups
  BY <1>1, <1>2
<1>4. PICK r : r = [NoSet EXCEPT !.state = "staging", !.parts = parts]
  OBVIOUS
<1>5. r \in SetRows /\ r.state = "staging" /\ r.parts = parts /\ r.rows = {}
  BY <1>4, StagingRow
<1>6. sets' = [sets EXCEPT ![k] = r]
  BY <1>2, <1>4 DEF Stages
<1>7. /\ sets' \in [SetIds -> SetRows] /\ sets'[k] = r
      /\ \A s \in SetIds \ {k} : sets'[s] = sets[s]
      /\ RowsHaveFiles'
  BY <1>3, <1>5, <1>6, SetChanges
<1>8. PICK w : w = [work EXCEPT !.at = StepAfter("start", parts), !.id = k]
  OBVIOUS
<1>9. w \in WorkRows /\ w.at \in {"export", "scan"} /\ w.id = k /\ w.op = work.op /\ w.source = work.source
  <2>1. StepAfter("start", parts) \in {"export", "scan"}
    BY DEF StepAfter, Parts
  <2>2. StepAfter("start", parts) \in LockSteps \union {"idle", "confirm"}
    BY <2>1 DEF LockSteps, Making
  <2>. QED
    BY <1>3, <1>8, <2>1, <2>2 DEF WorkRows
<1>10. command' = [command EXCEPT ![c] = w]
  BY <1>2, <1>8 DEF Stages
<1>11. w.at \in Making /\ w.at \in LockSteps /\ w.at \notin {"copy", "publish", "mark", "switch", "remove", "removing"}
  BY <1>9 DEF LockSteps, Making
<1>12. Relies(w)'
  BY <1>2, <1>5, <1>7, <1>9, <1>11 DEF Relies
<1>. QED
  BY <1>1, <1>3, <1>7, <1>9, <1>10, <1>11, <1>12, CommandStep

LEMMA CreateBackupStep ==
  ASSUME BackupInv, NEW c \in Commands, NEW parts \in Parts, CreateBackup(c, parts)
  PROVE  BackupInv'
<1>1. PICK work : work = [NoWork EXCEPT !.op = "create"]
  OBVIOUS
<1>2. work \in WorkRows /\ work.op = "create"
  BY <1>1, WorkRow DEF WorkRows
<1>. QED
  BY <1>1, <1>2, StagesStep DEF CreateBackup, Free, instance

\* export_database: the rows of the set are those of the instance, whose files
\* are there.
LEMMA ExportDatabaseStep ==
  ASSUME BackupInv, NEW c \in Commands, ExportDatabase(c)
  PROVE  BackupInv'
<1>1. /\ command[c].at = "export" /\ UNCHANGED <<holder, row, file, temp, split, begun>>
      /\ command[c].at \in Making /\ command[c].at \in LockSteps
  BY DEF ExportDatabase, instance, Making, LockSteps
<1>2. PICK k \in SetIds : k = command[c].id
  BY <1>1, AtWork
<1>3. PICK v \in WorkRows : v = command[c]
  BY <1>1, AtWork
<1>4. /\ holder = c /\ Relies(v) /\ begun \in Nat /\ sets[k].state = "staging" /\ k <= begun
      /\ sets[k] \in SetRows /\ row \subseteq Media /\ file \subseteq Media /\ temp \subseteq Media
      /\ row \subseteq file \union split /\ begun \in 0..MaxBackups
  BY <1>1, <1>2, <1>3, AtWork DEF RowsHaveFiles
<1>5. PICK r : r = WithRows(sets[k], row)
  OBVIOUS
<1>6. r \in SetRows /\ r.state = "staging" /\ r.rows = row
  <2>1. row \in SUBSET Media
    BY <1>4
  <2>. QED
    BY <1>4, <1>5, <2>1, RowsRow
<1>7. sets' = [sets EXCEPT ![k] = r]
  BY <1>2, <1>5 DEF ExportDatabase, WithRows
<1>8. /\ sets' \in [SetIds -> SetRows] /\ sets'[k] = r
      /\ \A s \in SetIds \ {k} : sets'[s] = sets[s]
      /\ RowsHaveFiles'
  BY <1>1, <1>4, <1>6, <1>7, SetChangesOnly
<1>9. PICK w : w = GoesTo(v, "scan")
  OBVIOUS
<1>10. w \in WorkRows /\ w.at = "scan" /\ w.id = k /\ w.op = v.op /\ w.source = v.source
  BY <1>2, <1>3, <1>9, GoesToRow DEF LockSteps, Making
<1>11. command' = [command EXCEPT ![c] = w]
  BY <1>3, <1>9 DEF ExportDatabase, Proceeds, Works, GoesTo, StepAfter
<1>12. Relies(w)'
  BY <1>1, <1>3, <1>4, <1>6, <1>8, <1>10 DEF Relies, Making, LockSteps
<1>. QED
  BY <1>1, <1>4, <1>8, <1>10, <1>11, <1>12, CommandStep DEF LockSteps, Making

\* scan_tree: every file that the rows of the set need is there.
LEMMA ScanTreeStep ==
  ASSUME BackupInv, NEW c \in Commands, ScanTree(c)
  PROVE  BackupInv'
<1>1. /\ command[c].at = "scan" /\ UNCHANGED <<sets, holder, row, file, temp, split, begun>>
      /\ command[c].at \in Making /\ command[c].at \in LockSteps
  BY DEF ScanTree, instance, Making, LockSteps
<1>2. PICK v \in WorkRows : v = command[c]
  BY <1>1, AtWork
<1>3. /\ holder = c /\ Relies(v) /\ row \subseteq Media /\ file \subseteq Media /\ temp \subseteq Media
      /\ RowsHaveFiles /\ begun \in 0..MaxBackups /\ sets \in [SetIds -> SetRows] /\ v.at = "scan"
      /\ sets[v.id].rows \subseteq Media /\ v.id \in SetIds
  BY <1>1, <1>2, AtWork, SetRow
<1>4. PICK seen \in SUBSET (Media \X {"file", "temp"}) : seen = (file \X {"file"}) \union (temp \X {"temp"})
  BY <1>3
<1>5. PICK w : w = Sees(v, "copy", seen)
  OBVIOUS
<1>6. w \in WorkRows /\ w.at = "copy" /\ w.id = v.id /\ w.op = v.op /\ w.source = v.source /\ w.seen = seen
  BY <1>5, SeesRow DEF LockSteps, Making
<1>7. command' = [command EXCEPT ![c] = w]
  BY <1>2, <1>4, <1>5 DEF ScanTree, Works, Sees, StepAfter
<1>8. FilesSeen(w) = file
  BY <1>3, <1>4, <1>6 DEF FilesSeen
<1>9. Relies(w)
  BY <1>1, <1>3, <1>6, <1>8 DEF Relies, Making, LockSteps
<1>10. Relies(w)' /\ RowsHaveFiles'
  BY <1>1, <1>3, <1>9, SetsStay
<1>. QED
  BY <1>1, <1>3, <1>6, <1>7, <1>10, CommandStep DEF LockSteps, Making

\* create_component_archives: every file that was seen is in the archives.
LEMMA CopyFilesStep ==
  ASSUME BackupInv, NEW c \in Commands, CopyFiles(c)
  PROVE  BackupInv'
<1>1. /\ command[c].at = "copy" /\ UNCHANGED <<holder, row, file, temp, split, begun>>
      /\ command[c].at \in Making /\ command[c].at \in LockSteps
  BY DEF CopyFiles, instance, Making, LockSteps
<1>2. PICK k \in SetIds : k = command[c].id
  BY <1>1, AtWork
<1>3. PICK v \in WorkRows : v = command[c]
  BY <1>1, AtWork
<1>4. /\ holder = c /\ Relies(v) /\ begun \in Nat /\ sets[k].state = "staging" /\ k <= begun
      /\ sets[k] \in SetRows /\ row \subseteq Media /\ file \subseteq Media /\ temp \subseteq Media
      /\ begun \in 0..MaxBackups /\ v.seen \subseteq Media \X {"file", "temp"} /\ v.at = "copy" /\ v.id = k
  BY <1>1, <1>2, <1>3, AtWork, WorkRow
<1>5. FilesSeen(v) \in SUBSET Media /\ {e[1] : e \in v.seen \cap (Media \X {"file"})} = FilesSeen(v)
  BY <1>4 DEF FilesSeen
<1>6. PICK r : r = WithFiles(sets[k], FilesSeen(v))
  OBVIOUS
<1>7. r \in SetRows /\ r.state = "staging" /\ r.rows = sets[k].rows /\ r.parts = sets[k].parts /\ r.files = FilesSeen(v)
  BY <1>4, <1>5, <1>6, FilesRow
<1>8. sets' = [sets EXCEPT ![k] = r]
  BY <1>2, <1>3, <1>5, <1>6 DEF CopyFiles, WithFiles
<1>9. /\ sets' \in [SetIds -> SetRows] /\ sets'[k] = r
      /\ \A s \in SetIds \ {k} : sets'[s] = sets[s]
      /\ RowsHaveFiles'
  BY <1>1, <1>4, <1>7, <1>8, SetChangesOnly
<1>10. PICK w : w = GoesTo(v, "publish")
  OBVIOUS
<1>11. w \in WorkRows /\ w.at = "publish" /\ w.id = k /\ w.op = v.op /\ w.source = v.source
  BY <1>4, <1>10, GoesToRow DEF LockSteps, Making
<1>12. command' = [command EXCEPT ![c] = w]
  BY <1>3, <1>10 DEF CopyFiles, Proceeds, Works, GoesTo, StepAfter
<1>13. SetWhole(k)'
  BY <1>1, <1>4, <1>7, <1>9 DEF Relies, SetWhole
<1>14. Relies(w)'
  BY <1>1, <1>3, <1>4, <1>7, <1>9, <1>11, <1>13 DEF Relies, Making, LockSteps
<1>. QED
  BY <1>1, <1>4, <1>9, <1>11, <1>12, <1>14, CommandStep DEF LockSteps, Making

\* The set gets its name: it is whole.
LEMMA PublishStep ==
  ASSUME BackupInv, NEW c \in Commands, Publish(c)
  PROVE  BackupInv'
<1>1. /\ command[c].at = "publish" /\ UNCHANGED <<row, file, temp, split, begun>>
      /\ command[c].at \in Making /\ command[c].at \in LockSteps
  BY DEF Publish, instance, Making, LockSteps
<1>2. PICK k \in SetIds : k = command[c].id
  BY <1>1, AtWork
<1>3. PICK v \in WorkRows : v = command[c]
  BY <1>1, AtWork
<1>4. /\ holder = c /\ Relies(v) /\ begun \in Nat /\ sets[k].state = "staging" /\ k <= begun
      /\ sets[k] \in SetRows /\ row \subseteq Media /\ file \subseteq Media /\ temp \subseteq Media
      /\ begun \in 0..MaxBackups /\ v.at = "publish" /\ v.id = k
  BY <1>1, <1>2, <1>3, AtWork
<1>5. PICK r : r = InState(sets[k], "complete")
  OBVIOUS
<1>6. r \in SetRows /\ r.state = "complete" /\ r.rows = sets[k].rows /\ r.parts = sets[k].parts
      /\ r.files = sets[k].files
  BY <1>4, <1>5, StateRow DEF SetStates
<1>7. sets' = [sets EXCEPT ![k] = r]
  BY <1>2, <1>5 DEF Publish, InState
<1>8. r.parts = "all" => r.rows \subseteq r.files \union split
  BY <1>4, <1>6 DEF Relies, SetWhole
<1>9. /\ sets' \in [SetIds -> SetRows] /\ sets'[k] = r
      /\ \A s \in SetIds \ {k} : sets'[s] = sets[s]
      /\ RowsHaveFiles'
  BY <1>1, <1>4, <1>6, <1>7, <1>8, SetChangesOnly
<1>10. CASE command[c].op = "create"
  BY <1>1, <1>4, <1>9, <1>10, EndingStep DEF Publish
<1>11. CASE command[c].op # "create"
  <2>1. PICK w : w = Sees(v, "mark", {})
    OBVIOUS
  <2>2. w \in WorkRows /\ w.at = "mark" /\ w.id = k /\ w.source = v.source
    BY <1>4, <2>1, SeesRow DEF LockSteps, Making
  <2>3. command' = [command EXCEPT ![c] = w] /\ holder' = holder
    BY <1>3, <1>11, <2>1 DEF Publish, Works, Sees
  <2>4. v.source \in SetIds /\ sets[v.source].state \in {"complete", "damaged"}
    BY <1>1, <1>3, <1>4, <1>11 DEF Relies
  <2>5. v.source # k
    BY <1>4, <2>4
  <2>6. Relies(w)'
    BY <1>9, <2>2, <2>4, <2>5 DEF Relies, Making, LockSteps
  <2>. QED
    BY <1>1, <1>4, <1>9, <2>2, <2>3, <2>6, CommandStep DEF LockSteps, Making
<1>. QED
  BY <1>10, <1>11

\* The staging directory is removed, or left.
LEMMA CreateFailsStep ==
  ASSUME BackupInv, NEW c \in Commands, CreateFails(c)
  PROVE  BackupInv'
<1>1. /\ command[c].at \in Making /\ command[c].at \in LockSteps /\ UNCHANGED <<row, file, temp, split, begun>>
      /\ Ends(c)
  BY DEF CreateFails, instance, Making, LockSteps
<1>2. PICK k \in SetIds : k = command[c].id
  BY <1>1, AtWork
<1>3. /\ holder = c /\ begun \in Nat /\ k <= begun
      /\ row \subseteq Media /\ file \subseteq Media /\ temp \subseteq Media
  BY <1>1, <1>2, AtWork
<1>4. PICK left \in {"none", "leftover"} : sets' = [sets EXCEPT ![k] = [NoSet EXCEPT !.state = left]]
  BY <1>2 DEF CreateFails
<1>5. PICK r : r = InState(NoSet, left)
  OBVIOUS
<1>6. r \in SetRows /\ r.state = left
  BY <1>5, SetRow, StateRow DEF SetStates
<1>7. sets' \in [SetIds -> SetRows] /\ RowsHaveFiles'
  BY <1>1, <1>3, <1>4, <1>5, <1>6, SetChangesOnly DEF InState
<1>. QED
  BY <1>1, <1>3, <1>7, EndingStep

-----------------------------------------------------------------------------
(* Retention.                                                              *)

\* A set of ids has a newest one.
LEMMA Greatest ==
  ASSUME NEW n \in Nat, NEW S \in SUBSET (1..n), S # {}
  PROVE  \E m \in S : \A s \in S : s <= m
<1> DEFINE Bounds == {k \in Nat : \A s \in S : s <= k}
<1>1. Bounds \subseteq Nat /\ n \in Bounds
  OBVIOUS
<1>2. PICK m \in Bounds : \A k \in Bounds : <<k, m>> \notin OpToRel(<, Nat)
  BY <1>1, NatLessThanWellFounded, WFMin, Zenon
<1>3. \A k \in Bounds : ~(k < m)
  BY <1>1, <1>2, Zenon DEF OpToRel
<1>4. m \in S
  <2> SUFFICES ASSUME m \notin S PROVE FALSE
    OBVIOUS
  <2>1. PICK s0 : s0 \in S
    OBVIOUS
  <2>2. s0 \in Nat /\ s0 > 0 /\ m \in Nat /\ s0 <= m
    BY <2>1
  <2>3. m - 1 \in Bounds
    BY <2>2
  <2>. QED
    BY <1>3, <2>2, <2>3
<1>. QED
  BY <1>4

\* plan_prune: whatever is asked to be kept, a plan that removes something
\* spares a set that verifies, and every set that is pinned.
LEMMA PlanSpares ==
  ASSUME NEW n \in Nat
  PROVE  /\ PlanPrune(n) \subseteq Verified
         /\ \A p \in PlanPrune(n) : ~sets[p].pinned
         /\ PlanPrune(n) # {} => Verified \ PlanPrune(n) # {}
<1>1. PlanPrune(n) \subseteq Verified /\ Verified \subseteq 1..MaxBackups
  BY DEF PlanPrune, Verified, SetIds
<1>2. \A p \in PlanPrune(n) : ~sets[p].pinned
  BY DEF PlanPrune, Protected
<1>3. ASSUME Verified # {} PROVE Verified \ PlanPrune(n) # {}
  <2>1. PICK m \in Verified : \A s \in Verified : s <= m
    BY <1>1, <1>3, Greatest, BackupAssumption
  <2>2. m \notin PlanPrune(n)
    BY <2>1 DEF PlanPrune, Protected
  <2>. QED
    BY <2>1, <2>2
<1>. QED
  BY <1>1, <1>2, <1>3

\* The work of a command that waits without the lock is dropped.
LEMMA DroppedStep ==
  ASSUME BackupInv, NEW c \in Commands, command[c].at \notin LockSteps,
         Works(c, NoWork), UNCHANGED <<sets, holder, row, file, temp, split, begun>>
  PROVE  BackupInv'
<1>1. command \in [Commands -> WorkRows] /\ NoWork \in WorkRows /\ NoWork.at \notin LockSteps /\ NoWork.id = 0
  BY WorkRow DEF BackupInv, SetTypes, LockSteps, Making
<1>2. command' \in [Commands -> WorkRows] /\ command'[c] = NoWork
      /\ \A d \in Commands \ {c} : command'[d] = command[d]
  BY <1>1 DEF Works
<1>3. SetTypes' /\ LockHeld'
  BY <1>1, <1>2 DEF BackupInv, SetTypes, LockHeld
<1>4. ASSUME NEW d \in Commands PROVE Relies(command[d])'
  <2>1. PICK w : w = command'[d]
    OBVIOUS
  <2>2. Relies(w)
    BY <1>1, <1>2, <2>1, WaitingRelies DEF BackupInv
  <2>3. Relies(w)'
    BY <2>2, SetsStay
  <2>. QED
    BY <2>1, <2>3 DEF Relies, SetWhole, Verified, FilesSeen
<1>5. RowsHaveFiles'
  BY SetsStay DEF BackupInv
<1>. QED
  BY <1>3, <1>4, <1>5 DEF BackupInv

LEMMA PruneShowsStep ==
  ASSUME BackupInv, NEW c \in Commands, NEW n \in 0..2, PruneShows(c, n)
  PROVE  BackupInv'
<1>1. /\ holder = NoOne /\ UNCHANGED <<sets, holder, row, file, temp, split, begun>>
  BY DEF PruneShows, Free, instance
<1>2. PICK w : w = [NoWork EXCEPT !.at = "confirm", !.op = "prune", !.keep = n, !.plan = PlanPrune(n)]
  OBVIOUS
<1>3. w \in WorkRows /\ w.at = "confirm" /\ w.id = 0
  <2>1. PlanPrune(n) \in SUBSET SetIds /\ n \in Nat
    BY DEF PlanPrune, Verified
  <2>2. NoWork \in WorkRows /\ NoWork.id = 0
    BY WorkRow
  <2>. QED
    BY <1>2, <2>1, <2>2 DEF WorkRows
<1>4. w.at \notin LockSteps
  BY <1>3 DEF LockSteps, Making
<1>5. Relies(w)' /\ RowsHaveFiles'
  BY <1>1, <1>3, <1>4, WaitingRelies, SetsStay DEF BackupInv
<1>6. command' = [command EXCEPT ![c] = w]
  BY <1>2 DEF PruneShows, Works
<1>7. sets' \in [SetIds -> SetRows] /\ begun' \in 0..MaxBackups
      /\ row' \subseteq Media /\ file' \subseteq Media /\ temp' \subseteq Media
  BY <1>1 DEF BackupInv, SetTypes
<1>. QED
  BY <1>1, <1>3, <1>4, <1>5, <1>6, <1>7, CommandStep

LEMMA PruneAppliesStep ==
  ASSUME BackupInv, NEW c \in Commands, PruneApplies(c)
  PROVE  BackupInv'
<1>1. /\ holder = NoOne /\ holder' = c /\ UNCHANGED <<sets, row, file, temp, split, begun>>
  BY DEF PruneApplies, instance
<1>2. PICK v \in WorkRows : v = command[c]
  BY DEF BackupInv, SetTypes
<1>3. PICK p : p = PlanPrune(v.keep)
  OBVIOUS
<1>4. /\ p \subseteq Verified /\ (\A s \in p : ~sets[s].pinned) /\ (p # {} => Verified \ p # {})
      /\ p \in SUBSET SetIds
  BY <1>3, PlanSpares, WorkRow DEF Verified
<1>5. PICK w : w = HasPlan(v, "remove", p)
  OBVIOUS
<1>6. w \in WorkRows /\ w.at = "remove" /\ w.plan = p
  BY <1>4, <1>5, PlansRow DEF LockSteps
<1>7. command' = [command EXCEPT ![c] = w]
  BY <1>2, <1>3, <1>5 DEF PruneApplies, Works, PlanApplied, HasPlan
<1>8. Relies(w)
  BY <1>4, <1>6 DEF Relies, Making, LockSteps
<1>9. Relies(w)' /\ RowsHaveFiles'
  BY <1>1, <1>8, SetsStay DEF BackupInv
<1>10. sets' \in [SetIds -> SetRows] /\ begun' \in 0..MaxBackups
      /\ row' \subseteq Media /\ file' \subseteq Media /\ temp' \subseteq Media
  BY <1>1 DEF BackupInv, SetTypes
<1>. QED
  BY <1>1, <1>6, <1>7, <1>9, <1>10, CommandStep DEF LockSteps

\* rmtree begins with a set of the plan; those the plan spares still verify.
LEMMA RemoveBeginsStep ==
  ASSUME BackupInv, NEW c \in Commands, RemoveBegins(c)
  PROVE  BackupInv'
<1>1. /\ command[c].at = "remove" /\ command[c].at \in LockSteps
      /\ UNCHANGED <<holder, row, file, temp, split, begun>>
  BY DEF RemoveBegins, instance, LockSteps
<1>2. PICK v \in WorkRows : v = command[c]
  BY <1>1, AtWork
<1>3. /\ holder = c /\ Relies(v) /\ begun \in Nat /\ begun \in 0..MaxBackups /\ sets \in [SetIds -> SetRows]
      /\ row \subseteq Media /\ file \subseteq Media /\ temp \subseteq Media /\ RowsHaveFiles
      /\ v.plan \subseteq SetIds /\ v.at = "remove"
  BY <1>1, <1>2, AtWork, WorkRow
<1>4. PICK p \in v.plan : /\ sets' = [sets EXCEPT ![p].state = "half"]
                          /\ Works(c, [v EXCEPT !.at = "removing", !.id = p, !.plan = @ \ {p}])
  BY <1>2 DEF RemoveBegins
<1>5. /\ v.plan \subseteq Verified /\ (\A s \in v.plan : ~sets[s].pinned) /\ Verified \ v.plan # {}
      /\ p \in SetIds /\ sets[p] \in SetRows /\ sets[p].state = "complete"
  BY <1>3, <1>4 DEF Relies, Verified
<1>6. PICK r : r = InState(sets[p], "half")
  OBVIOUS
<1>7. r \in SetRows /\ r.state = "half"
  BY <1>5, <1>6, StateRow DEF SetStates
<1>8. p <= begun
  <2>1. p \in Nat /\ ~(p > begun)
    BY <1>3, <1>5, BackupAssumption DEF RowsHaveFiles, SetIds
  <2>. QED
    BY <1>3, <2>1
<1>9. sets' = [sets EXCEPT ![p] = r]
  BY <1>4, <1>6 DEF InState
<1>10. /\ sets' \in [SetIds -> SetRows] /\ sets'[p] = r
       /\ \A s \in SetIds \ {p} : sets'[s] = sets[s]
       /\ RowsHaveFiles'
  BY <1>1, <1>5, <1>7, <1>8, <1>9, SetChangesOnly
<1>11. PICK w : w = [v EXCEPT !.at = "removing", !.id = p, !.plan = @ \ {p}]
  OBVIOUS
<1>12. w \in WorkRows /\ w.at = "removing" /\ w.id = p /\ w.plan = v.plan \ {p}
  <2>1. p \in 0..MaxBackups /\ v.plan \ {p} \in SUBSET SetIds /\ "removing" \in LockSteps
    BY <1>3, <1>5, BackupAssumption DEF SetIds, LockSteps
  <2>. QED
    BY <1>11, <2>1 DEF WorkRows
<1>13. /\ \A s \in v.plan \ {p} : s \in Verified' /\ ~sets'[s].pinned
       /\ Verified' \ (v.plan \ {p}) # {}
  <2>1. \A s \in Verified \ {p} : s \in Verified' /\ sets'[s] = sets[s]
    BY <1>10 DEF Verified
  <2>2. PICK u \in Verified : u \notin v.plan
    BY <1>5
  <2>3. u # p /\ u \in Verified'
    BY <1>4, <2>1, <2>2
  <2>. QED
    BY <1>5, <2>1, <2>2, <2>3
<1>14. Relies(w)'
  BY <1>5, <1>7, <1>10, <1>12, <1>13 DEF Relies, Making, LockSteps
<1>15. command' = [command EXCEPT ![c] = w]
  BY <1>4, <1>11 DEF Works
<1>. QED
  BY <1>1, <1>3, <1>10, <1>12, <1>14, <1>15, CommandStep DEF LockSteps

LEMMA RemoveEndsStep ==
  ASSUME BackupInv, NEW c \in Commands, RemoveEnds(c)
  PROVE  BackupInv'
<1>1. /\ command[c].at = "removing" /\ command[c].at \in LockSteps
      /\ UNCHANGED <<holder, row, file, temp, split, begun>>
  BY DEF RemoveEnds, instance, LockSteps
<1>2. PICK v \in WorkRows : v = command[c]
  BY <1>1, AtWork
<1>3. /\ holder = c /\ Relies(v) /\ begun \in Nat /\ begun \in 0..MaxBackups /\ sets \in [SetIds -> SetRows]
      /\ row \subseteq Media /\ file \subseteq Media /\ temp \subseteq Media /\ RowsHaveFiles /\ v.at = "removing"
  BY <1>1, <1>2, AtWork
<1>4. PICK k \in SetIds : k = v.id /\ sets[k].state = "half"
  BY <1>3 DEF Relies
<1>5. sets' = [sets EXCEPT ![k] = NoSet] /\ NoSet \in SetRows /\ NoSet.state = "none"
  BY <1>2, <1>4, SetRow DEF RemoveEnds
<1>6. k <= begun
  <2>1. k \in Nat /\ ~(k > begun)
    BY <1>3, <1>4, BackupAssumption DEF RowsHaveFiles, SetIds
  <2>. QED
    BY <1>3, <2>1
<1>7. /\ sets' \in [SetIds -> SetRows] /\ sets'[k] = NoSet
      /\ \A s \in SetIds \ {k} : sets'[s] = sets[s]
      /\ RowsHaveFiles'
  BY <1>1, <1>5, <1>6, SetChangesOnly
<1>8. PICK w : w = GoesTo(v, "remove")
  OBVIOUS
<1>9. w \in WorkRows /\ w.at = "remove" /\ w.plan = v.plan
  BY <1>8, GoesToRow DEF LockSteps
<1>10. command' = [command EXCEPT ![c] = w]
  BY <1>2, <1>8 DEF RemoveEnds, Works, GoesTo
<1>11. Verified' = Verified /\ \A s \in Verified : sets'[s] = sets[s]
  BY <1>4, <1>5, <1>7 DEF Verified
<1>12. Relies(w)'
  BY <1>3, <1>9, <1>11 DEF Relies, Making, LockSteps
<1>. QED
  BY <1>1, <1>3, <1>7, <1>9, <1>10, <1>12, CommandStep DEF LockSteps

LEMMA PruneEndsStep ==
  ASSUME BackupInv, NEW c \in Commands, PruneEnds(c)
  PROVE  BackupInv'
<1>1. /\ command[c].at \in LockSteps /\ Ends(c) /\ UNCHANGED <<sets, row, file, temp, split, begun>>
  BY DEF PruneEnds, instance, LockSteps
<1>2. /\ holder = c /\ sets' \in [SetIds -> SetRows] /\ row' \subseteq Media /\ file' \subseteq Media
      /\ temp' \subseteq Media /\ RowsHaveFiles'
  BY <1>1, AtWork, SetsStay
<1>. QED
  BY <1>1, <1>2, EndingStep

\* Pins and the clearing away of old staging directories.
LEMMA PinOrCleanupStep ==
  ASSUME BackupInv, NEW c \in Commands,
         (\E s \in SetIds : PinBackup(c, s)) \/ CleanupIncomplete(c)
  PROVE  BackupInv'
<1>1. /\ holder = NoOne /\ UNCHANGED <<command, holder, row, file, temp, split, begun>>
  BY DEF PinBackup, CleanupIncomplete, Free, instance
<1>2. sets \in [SetIds -> SetRows] /\ RowsHaveFiles /\ begun \in Nat
  BY BackupAssumption DEF BackupInv, SetTypes
<1>3. PICK k \in SetIds, r \in SetRows :
         /\ sets' = [sets EXCEPT ![k] = r] /\ sets[k].state \in {"complete", "leftover"}
         /\ \/ r.state = "none"
            \/ /\ sets[k].state = "complete" /\ r.state = "complete"
               /\ r.parts = sets[k].parts /\ r.rows = sets[k].rows /\ r.files = sets[k].files
  <2>1. CASE CleanupIncomplete(c)
    <3>1. PICK k \in SetIds : sets[k].state = "leftover" /\ sets' = [sets EXCEPT ![k] = NoSet]
      BY <2>1 DEF CleanupIncomplete
    <3>. QED
      BY <3>1, SetRow
  <2>2. ASSUME NEW s \in SetIds, PinBackup(c, s)
        PROVE  \E r \in SetRows :
                 /\ sets' = [sets EXCEPT ![s] = r] /\ sets[s].state = "complete" /\ r.state = "complete"
                 /\ r.parts = sets[s].parts /\ r.rows = sets[s].rows /\ r.files = sets[s].files
    <3>1. PICK r : r = [sets[s] EXCEPT !.pinned = ~@]
      OBVIOUS
    <3>2. sets[s] \in SetRows /\ sets[s].state = "complete"
      BY <1>2, <2>2 DEF PinBackup, Verified
    <3>3. /\ r \in SetRows /\ r.state = sets[s].state
          /\ r.parts = sets[s].parts /\ r.rows = sets[s].rows /\ r.files = sets[s].files
      BY <3>1, <3>2, PinRow
    <3>4. sets' = [sets EXCEPT ![s] = r]
      BY <2>2, <3>1 DEF PinBackup
    <3>. QED
      BY <3>2, <3>3, <3>4
  <2>. QED
    BY <2>1, <2>2
<1>4. k <= begun
  <2>1. k \in Nat /\ ~(k > begun)
    BY <1>2, <1>3, BackupAssumption DEF RowsHaveFiles, SetIds
  <2>. QED
    BY <1>2, <2>1
<1>5. r.state \in {"complete", "damaged"} /\ r.parts = "all" => r.rows \subseteq r.files \union split
  BY <1>2, <1>3 DEF RowsHaveFiles, SetWhole
<1>6. sets' \in [SetIds -> SetRows] /\ RowsHaveFiles'
  BY <1>1, <1>3, <1>4, <1>5, SetChangesOnly
<1>. QED
  BY <1>1, <1>6, LocklessStep

-----------------------------------------------------------------------------
(* Restoring a set.                                                        *)

LEMMA ApplyRestoreStep ==
  ASSUME BackupInv, NEW c \in Commands, NEW s \in SetIds, ApplyRestore(c, s)
  PROVE  BackupInv'
<1>1. holder = NoOne /\ holder' = c /\ UNCHANGED <<sets, row, file, temp, split, begun>>
  BY DEF ApplyRestore, Free, instance
<1>2. PICK w : w = [NoWork EXCEPT !.at = "stage", !.op = "restore", !.source = s]
  OBVIOUS
<1>3. w \in WorkRows /\ w.at = "stage"
  <2>1. s \in 0..MaxBackups /\ "stage" \in LockSteps /\ NoWork \in WorkRows
    BY WorkRow, BackupAssumption DEF SetIds, LockSteps
  <2>. QED
    BY <1>2, <2>1 DEF WorkRows
<1>4. Relies(w)
  BY <1>3 DEF Relies, Making, LockSteps
<1>5. Relies(w)' /\ RowsHaveFiles'
  BY <1>1, <1>4, SetsStay DEF BackupInv
<1>6. command' = [command EXCEPT ![c] = w]
  BY <1>2 DEF ApplyRestore, Works
<1>7. sets' \in [SetIds -> SetRows] /\ begun' \in 0..MaxBackups
      /\ row' \subseteq Media /\ file' \subseteq Media /\ temp' \subseteq Media
  BY <1>1 DEF BackupInv, SetTypes
<1>. QED
  BY <1>1, <1>3, <1>5, <1>6, <1>7, CommandStep DEF LockSteps

\* The work of a restore or a prune that goes on.
LEMMA ProceedingStep ==
  ASSUME BackupInv, NEW c \in Commands, command[c].at \in LockSteps, NEW w \in WorkRows,
         command' = [command EXCEPT ![c] = w], w.at \in LockSteps, Relies(w),
         UNCHANGED <<sets, holder, row, file, temp, split, begun>>
  PROVE  BackupInv'
<1>1. /\ holder = c /\ sets' \in [SetIds -> SetRows] /\ begun' \in 0..MaxBackups
      /\ row' \subseteq Media /\ file' \subseteq Media /\ temp' \subseteq Media
      /\ RowsHaveFiles' /\ Relies(w)'
  BY AtWork, SetsStay
<1>. QED
  BY <1>1, CommandStep

LEMMA StageRestoreStep ==
  ASSUME BackupInv, NEW c \in Commands, StageRestore(c)
  PROVE  BackupInv'
<1>1. /\ command[c].at = "stage" /\ command[c].at \in LockSteps
      /\ UNCHANGED <<row, file, temp, split>>
  BY DEF StageRestore, instance, LockSteps
<1>2. PICK v \in WorkRows : v = command[c]
  BY <1>1, AtWork
<1>3. /\ holder = c /\ Relies(v) /\ begun \in Nat /\ sets \in [SetIds -> SetRows] /\ begun \in 0..MaxBackups
      /\ row \subseteq Media /\ file \subseteq Media /\ temp \subseteq Media /\ RowsHaveFiles
  BY <1>1, <1>2, AtWork
<1>4. CASE v.source \notin Verified
  <2>1. Ends(c) /\ UNCHANGED <<sets, begun>>
    BY <1>2, <1>4 DEF StageRestore
  <2>2. RowsHaveFiles'
    BY <1>1, <1>3, <2>1, SetsStay
  <2>. QED
    BY <1>1, <1>3, <2>1, <2>2, EndingStep
<1>5. CASE v.source \in Verified
  <2>1. v.source \in SetIds /\ sets[v.source].state = "complete"
    BY <1>5 DEF Verified
  <2>2. v.source # begun + 1
    BY <1>3, <2>1 DEF RowsHaveFiles
  <2>3. CASE Stages(c, "all", v) /\ holder' = holder
    BY <1>1, <1>3, <2>1, <2>2, <2>3, StagesStep DEF Parts
  <2>4. CASE /\ command' = [command EXCEPT ![c] = [v EXCEPT !.at = "mark"]]
             /\ UNCHANGED <<sets, begun, holder>>
    <3>1. PICK w : w = GoesTo(v, "mark")
      OBVIOUS
    <3>2. w \in WorkRows /\ w.at = "mark" /\ w.source = v.source
      BY <3>1, GoesToRow DEF LockSteps
    <3>3. Relies(w)
      BY <2>1, <3>2 DEF Relies, Making, LockSteps
    <3>. QED
      BY <1>1, <2>4, <3>1, <3>2, <3>3, ProceedingStep DEF GoesTo, LockSteps
  <2>. QED
    BY <1>2, <1>5, <2>3, <2>4 DEF StageRestore, Works
<1>. QED
  BY <1>4, <1>5

LEMMA MarkRestoreStep ==
  ASSUME BackupInv, NEW c \in Commands, MarkRestore(c)
  PROVE  BackupInv'
<1>1. /\ command[c].at = "mark" /\ command[c].at \in LockSteps
      /\ UNCHANGED <<sets, holder, row, file, temp, split, begun>>
  BY DEF MarkRestore, instance, LockSteps
<1>2. PICK v \in WorkRows : v = command[c]
  BY <1>1, AtWork
<1>3. PICK w : w = GoesTo(v, "switch")
  OBVIOUS
<1>4. w \in WorkRows /\ w.at = "switch" /\ w.source = v.source
  BY <1>3, GoesToRow DEF LockSteps
<1>5. Relies(v) /\ v.at = "mark"
  BY <1>1, <1>2, AtWork
<1>6. Relies(w)
  BY <1>4, <1>5 DEF Relies, Making, LockSteps
<1>7. command' = [command EXCEPT ![c] = w]
  BY <1>2, <1>3 DEF MarkRestore, Works, GoesTo
<1>. QED
  BY <1>1, <1>4, <1>6, <1>7, ProceedingStep DEF LockSteps

\* The instance becomes what the set holds, and that has the files of its rows.
LEMMA SwitchEndsStep ==
  ASSUME BackupInv, NEW c \in Commands, SwitchEnds(c)
  PROVE  BackupInv'
<1>1. /\ command[c].at = "switch" /\ command[c].at \in LockSteps /\ Restored(command[c].source)
      /\ Ends(c) /\ UNCHANGED <<sets, begun>>
  BY DEF SwitchEnds, LockSteps
<1>2. PICK k \in SetIds : k = command[c].source /\ sets[k].state \in {"complete", "damaged"}
  BY <1>1, AtWork DEF Relies
<1>3. /\ holder = c /\ sets \in [SetIds -> SetRows] /\ row \subseteq Media /\ RowsHaveFiles
      /\ sets[k] \in SetRows
  BY <1>1, AtWork
<1>4. /\ sets[k].rows \subseteq Media /\ sets[k].files \subseteq Media /\ SetWhole(k)
  BY <1>2, <1>3, SetRow DEF RowsHaveFiles
<1>5. /\ row' \subseteq Media /\ file' \subseteq Media /\ temp' \subseteq Media
      /\ split \subseteq split' /\ row' \subseteq file' \union split'
  BY <1>1, <1>2, <1>3, <1>4 DEF Restored, SetWhole
<1>6. RowsHaveFiles'
  BY <1>1, <1>3, <1>5 DEF RowsHaveFiles, SetWhole
<1>. QED
  BY <1>1, <1>3, <1>5, <1>6, EndingStep

LEMMA SwitchUndoneStep ==
  ASSUME BackupInv, NEW c \in Commands, SwitchUndone(c)
  PROVE  BackupInv'
<1>1. /\ command[c].at \in LockSteps /\ Ends(c) /\ UNCHANGED <<sets, row, file, temp, split, begun>>
  BY DEF SwitchUndone, instance, LockSteps
<1>2. /\ holder = c /\ sets' \in [SetIds -> SetRows] /\ row' \subseteq Media /\ file' \subseteq Media
      /\ temp' \subseteq Media /\ RowsHaveFiles'
  BY <1>1, AtWork, SetsStay
<1>. QED
  BY <1>1, <1>2, EndingStep

LEMMA RecoverRestoreStep ==
  ASSUME BackupInv, NEW c \in Commands, RecoverRestore(c)
  PROVE  BackupInv'
<1>1. holder = NoOne /\ UNCHANGED <<sets, command, holder, row, file, temp, split, begun>>
  BY DEF RecoverRestore, Free, instance
<1>2. sets' \in [SetIds -> SetRows] /\ RowsHaveFiles'
  BY <1>1, SetsStay DEF BackupInv, SetTypes
<1>. QED
  BY <1>1, <1>2, LocklessStep

-----------------------------------------------------------------------------
(* Mishaps.                                                                *)

LEMMA CommandKilledStep ==
  ASSUME BackupInv, NEW c \in Commands, CommandKilled(c)
  PROVE  BackupInv'
<1>1. /\ sets' = [s \in SetIds |-> IF s = command[c].id /\ sets[s].state = "staging"
                                   THEN [NoSet EXCEPT !.state = "leftover"] ELSE sets[s]]
      /\ Works(c, NoWork) /\ holder' = (IF holder = c THEN NoOne ELSE holder)
      /\ UNCHANGED <<row, file, temp, split, begun>>
  BY DEF CommandKilled, instance
<1>2. /\ sets \in [SetIds -> SetRows] /\ RowsHaveFiles /\ row \subseteq Media /\ file \subseteq Media
      /\ temp \subseteq Media /\ begun \in Nat
  BY BackupAssumption DEF BackupInv, SetTypes
<1>3. CASE command[c].at \in LockSteps
  <2>1. PICK r : r = InState(NoSet, "leftover")
    OBVIOUS
  <2>2. r \in SetRows /\ r.state = "leftover"
    BY <2>1, SetRow, StateRow DEF SetStates
  <2>3. sets' = [s \in SetIds |-> IF s = command[c].id /\ sets[s].state = "staging" THEN r ELSE sets[s]]
    BY <1>1, <2>1 DEF InState
  <2>4. sets' \in [SetIds -> SetRows]
        /\ \A s \in SetIds : sets'[s] = sets[s] \/ (sets[s].state = "staging" /\ sets'[s] = r)
    BY <1>2, <2>2, <2>3
  <2>5. \A s \in SetIds : sets'[s].state \in {"complete", "damaged"} => SetWhole(s)'
    <3>1. ASSUME NEW s \in SetIds, sets'[s].state \in {"complete", "damaged"} PROVE SetWhole(s)'
      <4>1. sets'[s] = sets[s] /\ split' = split
        BY <1>1, <2>2, <2>4, <3>1
      <4>. QED
        BY <1>2, <3>1, <4>1 DEF RowsHaveFiles, SetWhole
    <3>. QED
      BY <3>1
  <2>6. \A s \in SetIds : s > begun' => sets'[s].state = "none"
    <3>1. ASSUME NEW s \in SetIds, s > begun PROVE sets'[s].state = "none"
      <4>1. sets[s].state = "none"
        BY <1>2, <3>1 DEF RowsHaveFiles
      <4>. QED
        BY <2>4, <4>1
    <3>. QED
      BY <1>1, <3>1
  <2>7. RowsHaveFiles'
    BY <1>1, <1>2, <2>5, <2>6 DEF RowsHaveFiles
  <2>8. holder = c /\ Ends(c)
    BY <1>1, <1>3, AtWork DEF Ends
  <2>. QED
    BY <1>1, <1>2, <2>4, <2>7, <2>8, EndingStep
<1>4. CASE command[c].at \notin LockSteps
  <2>1. command[c].id = 0 /\ holder # c
    BY <1>4 DEF BackupInv, Relies, LockHeld
  <2>2. \A s \in SetIds : s # command[c].id
    BY <2>1, BackupAssumption DEF SetIds
  <2>3. sets' = [s \in SetIds |-> sets[s]]
    BY <1>1, <2>2
  <2>4. sets' = sets /\ holder' = holder
    BY <1>1, <1>2, <2>1, <2>3
  <2>. QED
    BY <1>1, <1>4, <2>4, DroppedStep
<1>. QED
  BY <1>3, <1>4

LEMMA SetDamagedStep ==
  ASSUME BackupInv, NEW k \in SetIds, SetDamaged(k)
  PROVE  BackupInv'
<1>1. /\ sets[k].state = "complete" /\ sets' = [sets EXCEPT ![k].state = "damaged"]
      /\ \A c \in Commands : command[c].at \notin {"remove", "removing"}
      /\ UNCHANGED <<command, holder, row, file, temp, split, begun>>
  BY DEF SetDamaged, Verified, instance
<1>2. sets \in [SetIds -> SetRows] /\ RowsHaveFiles /\ begun \in Nat /\ sets[k] \in SetRows
  BY BackupAssumption DEF BackupInv, SetTypes
<1>3. PICK r : r = InState(sets[k], "damaged")
  OBVIOUS
<1>4. r \in SetRows /\ r.state = "damaged" /\ r.parts = sets[k].parts /\ r.rows = sets[k].rows
      /\ r.files = sets[k].files
  BY <1>2, <1>3, StateRow DEF SetStates
<1>5. sets' = [sets EXCEPT ![k] = r]
  BY <1>1, <1>3 DEF InState
<1>6. k <= begun
  <2>1. k \in Nat /\ ~(k > begun)
    BY <1>1, <1>2, BackupAssumption DEF RowsHaveFiles, SetIds
  <2>. QED
    BY <1>2, <2>1
<1>7. r.parts = "all" => r.rows \subseteq r.files \union split
  BY <1>1, <1>2, <1>4 DEF RowsHaveFiles, SetWhole
<1>8. /\ sets' \in [SetIds -> SetRows] /\ sets'[k] = r
      /\ \A s \in SetIds \ {k} : sets'[s] = sets[s] /\ (SetWhole(s)' <=> SetWhole(s))
      /\ RowsHaveFiles'
  BY <1>1, <1>4, <1>5, <1>6, <1>7, SetChangesOnly
<1>9. SetTypes' /\ LockHeld'
  BY <1>1, <1>8 DEF BackupInv, SetTypes, LockHeld
<1>10. ASSUME NEW c \in Commands PROVE Relies(command[c])'
  <2>1. PICK w : w = command[c] /\ w.at \notin {"remove", "removing"} /\ Relies(w)
    BY <1>1 DEF BackupInv
  <2>2. w.at \in Making => w.id # k
    BY <1>1, <2>1 DEF Relies
  <2>3. CASE w.at \in Making
    BY <1>1, <1>4, <1>8, <2>1, <2>2, <2>3 DEF Relies, Making, LockSteps, FilesSeen
  <2>4. CASE w.at \notin Making
    BY <1>1, <1>4, <1>8, <2>1, <2>4 DEF Relies, Making, LockSteps
  <2>. QED
    BY <2>3, <2>4
<1>. QED
  BY <1>8, <1>9, <1>10 DEF BackupInv

-----------------------------------------------------------------------------
(* What is proved about the sets.                                          *)

LEMMA BackupInitInv ==
  ASSUME BackupInit
  PROVE  BackupInv
<1>1. /\ sets = [s \in SetIds |-> NoSet] /\ command = [c \in Commands |-> NoWork] /\ holder = NoOne
      /\ row = {} /\ file = {} /\ temp = {} /\ begun = 0
  BY DEF BackupInit
<1>2. SetTypes
  BY <1>1, SetRow, WorkRow, BackupAssumption DEF SetTypes
<1>3. LockHeld
  BY <1>1, WorkRow, NoOneAssumption DEF LockHeld, LockSteps, Making
<1>4. RowsHaveFiles
  BY <1>1, SetRow DEF RowsHaveFiles
<1>5. ASSUME NEW c \in Commands PROVE Relies(command[c])
  BY <1>1, <1>5, WorkRow, WaitingRelies DEF LockSteps, Making
<1>. QED
  BY <1>2, <1>3, <1>4, <1>5 DEF BackupInv

LEMMA BackupStep ==
  ASSUME BackupInv, [BackupNext]_backupVars
  PROVE  BackupInv'
<1>1. CASE UNCHANGED backupVars
  <2>1. UNCHANGED <<sets, command, holder, row, file, temp, split, begun>>
    BY <1>1 DEF backupVars, instance
  <2>2. SetTypes' /\ LockHeld' /\ RowsHaveFiles'
    BY <2>1, SetsStay DEF BackupInv, SetTypes, LockHeld
  <2>3. ASSUME NEW c \in Commands PROVE Relies(command[c])'
    BY <2>1 DEF BackupInv, Relies, SetWhole, Verified, FilesSeen
  <2>. QED
    BY <2>2, <2>3 DEF BackupInv
<1>2. ASSUME NEW m \in Media, UploadBegins(m) \/ UploadReplaces(m) \/ UploadCommits(m) \/ UploadFails(m)
      PROVE  BackupInv'
  BY <1>2, UploadStep
<1>3. ASSUME NEW s \in SetIds, SetDamaged(s) PROVE BackupInv'
  BY <1>3, SetDamagedStep
<1>4. ASSUME NEW c \in Commands,
             \/ \E parts \in Parts : CreateBackup(c, parts)
             \/ ExportDatabase(c) \/ ScanTree(c) \/ CopyFiles(c) \/ Publish(c) \/ CreateFails(c)
      PROVE  BackupInv'
  BY <1>4, CreateBackupStep, ExportDatabaseStep, ScanTreeStep, CopyFilesStep, PublishStep, CreateFailsStep
<1>5. ASSUME NEW c \in Commands, PruneAborts(c) PROVE BackupInv'
  <2>1. command[c].at \notin LockSteps
    BY <1>5 DEF PruneAborts, LockSteps, Making
  <2>. QED
    BY <1>5, <2>1, DroppedStep DEF PruneAborts, instance
<1>6. ASSUME NEW c \in Commands,
             \/ \E n \in 0..2 : PruneShows(c, n)
             \/ PruneApplies(c) \/ RemoveBegins(c) \/ RemoveEnds(c) \/ PruneEnds(c)
             \/ (\E s \in SetIds : PinBackup(c, s)) \/ CleanupIncomplete(c)
      PROVE  BackupInv'
  BY <1>6, PruneShowsStep, PruneAppliesStep, RemoveBeginsStep, RemoveEndsStep, PruneEndsStep, PinOrCleanupStep
<1>7. ASSUME NEW c \in Commands,
             \/ \E s \in SetIds : ApplyRestore(c, s)
             \/ StageRestore(c) \/ MarkRestore(c) \/ SwitchEnds(c) \/ SwitchUndone(c)
             \/ RecoverRestore(c) \/ CommandKilled(c)
      PROVE  BackupInv'
  BY <1>7, ApplyRestoreStep, StageRestoreStep, MarkRestoreStep, SwitchEndsStep, SwitchUndoneStep,
     RecoverRestoreStep, CommandKilledStep
<1>. QED
  BY <1>1, <1>2, <1>3, <1>4, <1>5, <1>6, <1>7 DEF BackupNext

\* backup_lock admits one command, rows have files, and what each command under
\* the lock relies on holds, whatever is uploaded, killed or damaged.
THEOREM BackupInvariance == BackupSpec => []BackupInv
<1>. QED
  BY BackupInitInv, BackupStep, PTL DEF BackupSpec

\* A set that create_backup published can be put back: its archives hold the
\* file of every row in its database, save those that a restore tore apart.
THEOREM SetsAreConsistent == BackupSpec => []BackupConsistent
<1>1. BackupInv => BackupConsistent
  BY DEF BackupInv, RowsHaveFiles, BackupConsistent, SetWhole, Verified
<1>. QED
  BY <1>1, BackupInvariance, PTL

\* The sets a step may touch: only a removal of the plan, or damage from outside,
\* takes a set that verifies away.
LEMMA VerifiedStays ==
  ASSUME BackupInv, [BackupNext]_backupVars, NEW s \in Verified
  PROVE  \/ sets'[s].state = "complete"
         \/ sets'[s].state = "damaged"
         \/ \E c \in Commands : command[c].at = "remove" /\ s \in command[c].plan
<1>1. s \in SetIds /\ sets[s].state = "complete" /\ sets \in [SetIds -> SetRows]
      /\ (\A c \in Commands : Relies(command[c])) /\ ~(s > begun)
  BY DEF Verified, BackupInv, SetTypes, RowsHaveFiles
<1>2. CASE UNCHANGED sets
  BY <1>1, <1>2
<1>4. ASSUME NEW c \in Commands, NEW parts, NEW work, Stages(c, parts, work)
      PROVE  sets'[s].state = "complete"
  <2>1. s # begun + 1
    BY <1>1, BackupAssumption DEF BackupInv, SetTypes, SetIds
  <2>. QED
    BY <1>1, <1>4, <2>1 DEF Stages
<1>5. ASSUME NEW c \in Commands, ExportDatabase(c) \/ CopyFiles(c) \/ CreateFails(c)
      PROVE  sets'[s].state = "complete"
  <2>1. command[c].id # s
    BY <1>1, <1>5 DEF Relies, ExportDatabase, CopyFiles, CreateFails, Making
  <2>. QED
    BY <1>1, <1>5, <2>1 DEF ExportDatabase, CopyFiles, CreateFails
<1>6. ASSUME NEW c \in Commands, Publish(c) PROVE sets'[s].state = "complete"
  <2>1. command[c].id # s
    BY <1>1, <1>6 DEF Relies, Publish, Making
  <2>. QED
    BY <1>1, <1>6, <2>1 DEF Publish
<1>7. ASSUME NEW c \in Commands, RemoveBegins(c)
      PROVE  sets'[s].state = "complete" \/ (command[c].at = "remove" /\ s \in command[c].plan)
  BY <1>1, <1>7 DEF RemoveBegins
<1>8. ASSUME NEW c \in Commands, RemoveEnds(c) PROVE sets'[s].state = "complete"
  <2>1. command[c].id # s
    BY <1>1, <1>8 DEF Relies, RemoveEnds
  <2>. QED
    BY <1>1, <1>8, <2>1 DEF RemoveEnds
<1>9. ASSUME NEW c \in Commands, NEW k \in SetIds, PinBackup(c, k) PROVE sets'[s].state = "complete"
  <2>1. CASE k = s
    <3>1. sets'[s] = [sets[s] EXCEPT !.pinned = ~@] /\ sets[s] \in SetRows
      BY <1>1, <1>9, <2>1 DEF PinBackup
    <3>. QED
      BY <1>1, <3>1, PinRow
  <2>2. CASE k # s
    BY <1>1, <1>9, <2>2 DEF PinBackup
  <2>. QED
    BY <2>1, <2>2
<1>10. ASSUME NEW c \in Commands, CleanupIncomplete(c) PROVE sets'[s].state = "complete"
  BY <1>1, <1>10 DEF CleanupIncomplete
<1>11. ASSUME NEW c \in Commands, CommandKilled(c) PROVE sets'[s].state = "complete"
  BY <1>1, <1>11 DEF CommandKilled
<1>12. ASSUME NEW k \in SetIds, SetDamaged(k) PROVE sets'[s].state \in {"complete", "damaged"}
  <2>1. CASE k = s
    <3>1. sets'[s] = InState(sets[s], "damaged") /\ sets[s] \in SetRows
      BY <1>1, <1>12, <2>1 DEF SetDamaged, InState
    <3>. QED
      BY <3>1, StateRow DEF SetStates
  <2>2. CASE k # s
    BY <1>1, <1>12, <2>2 DEF SetDamaged
  <2>. QED
    BY <2>1, <2>2
<1>13. ASSUME NEW c \in Commands, StageRestore(c)
       PROVE  UNCHANGED sets \/ \E work : Stages(c, "all", work)
  BY <1>13 DEF StageRestore
<1>14. \/ UNCHANGED sets
       \/ \E c \in Commands :
            \/ \E parts, work : Stages(c, parts, work)
            \/ ExportDatabase(c) \/ CopyFiles(c) \/ CreateFails(c) \/ Publish(c)
            \/ RemoveBegins(c) \/ RemoveEnds(c) \/ (\E k \in SetIds : PinBackup(c, k))
            \/ CleanupIncomplete(c) \/ CommandKilled(c)
       \/ \E k \in SetIds : SetDamaged(k)
  BY <1>13 DEF BackupNext, backupVars, UploadBegins, UploadReplaces, UploadCommits, UploadFails, SetsKept,
     CreateBackup, ScanTree, PruneShows, PruneApplies, PruneAborts, PruneEnds, ApplyRestore, MarkRestore,
     SwitchEnds, SwitchUndone, RecoverRestore
<1>. QED
  BY <1>2, <1>4, <1>5, <1>6, <1>7, <1>8, <1>9, <1>10, <1>11, <1>12, <1>14

\* prune, pin, a kill or a failure never take the last set that verifies, and no
\* set that is pinned, even when it was pinned after prune showed its plan.
THEOREM SetsRemain == BackupSpec => BackupRemains
<1>1. BackupInv /\ [BackupNext]_backupVars =>
        /\ Verified # {} => Verified' # {} \/ \E s \in Verified : sets'[s].state = "damaged"
        /\ \A s \in Verified : sets[s].pinned => sets'[s].state \in {"complete", "damaged"}
  <2> SUFFICES ASSUME BackupInv, [BackupNext]_backupVars
               PROVE  /\ Verified # {} => Verified' # {} \/ \E s \in Verified : sets'[s].state = "damaged"
                      /\ \A s \in Verified : sets[s].pinned => sets'[s].state \in {"complete", "damaged"}
    OBVIOUS
  <2>1. ASSUME NEW c \in Commands, command[c].at = "remove"
        PROVE  /\ \A s \in command[c].plan : ~sets[s].pinned
               /\ command[c].plan # {} => Verified \ command[c].plan # {}
    <3>1. Relies(command[c])
      BY DEF BackupInv
    <3>. QED
      BY <2>1, <3>1 DEF Relies
  <2>2. \A s \in Verified : sets[s].pinned => sets'[s].state \in {"complete", "damaged"}
    BY <2>1, VerifiedStays
  <2>3. ASSUME NEW c \in Commands, NEW d \in Commands, command[c].at = "remove", command[d].at = "remove"
        PROVE  c = d
    BY <2>3 DEF BackupInv, LockHeld, LockSteps
  <2>4. ASSUME Verified # {} PROVE \E s \in Verified : sets'[s].state \in {"complete", "damaged"}
    <3>1. CASE \E c \in Commands : command[c].at = "remove" /\ command[c].plan # {}
      <4>1. PICK c \in Commands : command[c].at = "remove" /\ command[c].plan # {}
        BY <3>1
      <4>2. PICK s \in Verified : s \notin command[c].plan
        BY <2>1, <4>1
      <4>. QED
        BY <2>3, <4>1, <4>2, VerifiedStays
    <3>2. CASE ~\E c \in Commands : command[c].at = "remove" /\ command[c].plan # {}
      BY <2>4, <3>2, VerifiedStays
    <3>. QED
      BY <3>1, <3>2
  <2>5. \A s \in Verified : sets'[s].state = "complete" => s \in Verified'
    BY DEF Verified
  <2>. QED
    BY <2>2, <2>4, <2>5
<1>. QED
  BY <1>1, BackupInvariance, PTL DEF BackupSpec, BackupRemains

=============================================================================
