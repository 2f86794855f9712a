----------------------------- MODULE ThemeFiles -----------------------------
(***************************************************************************)
(* The theme editor (themes/management.py).  A theme of the package is     *)
(* never changed: an edit goes into its local child, one directory with a  *)
(* manifest that declares the files the child overrides.  save_override,   *)
(* reset_override and write_manifest_override take several file            *)
(* operations, each atomic by itself; a step that fails makes them put the *)
(* old files back, and a process that is killed puts nothing back.         *)
(*                                                                         *)
(* The functions do not await, so requests of one server process follow    *)
(* each other; an Editor is a server process (serve --workers).            *)
(***************************************************************************)
EXTENDS Integers

CONSTANTS Files,       \* templates and style sheets of the theme
          Editors,     \* server processes
          MaxThemeEdits, \* bound: edits
          MaxThemeCuts   \* bound: edits that are cut short by a kill

ASSUME ThemeAssumption == MaxThemeEdits \in Nat /\ MaxThemeCuts \in Nat

VARIABLES folder,   \* the child's directory is there
          manifest, \* its theme.toml
          local,    \* its files
          form,     \* what each editor's page showed when it was loaded
          editor,   \* where each edit stands
          backup,   \* the newest revision of each file
          edits, cuts,
          showing,  \* what the edits that returned say a reader should get
          overlap,  \* two server processes edited at the same time
          themeCut  \* the steps at which an edit was cut short

themeVars == <<folder, manifest, local, form, editor, backup, edits, cuts, showing, overlap, themeCut>>

Absent     == -1
Parent     == 0
Contents   == 1..MaxThemeEdits
NoManifest == [there |-> FALSE, files |-> {}]
Idle       == [at |-> "idle", op |-> "none", file |-> "none", content |-> Absent,
               declares |-> {}, before |-> Absent, old |-> NoManifest, read |-> {}]

ThemeInit ==
    /\ folder   = FALSE
    /\ manifest = NoManifest
    /\ local    = [f \in Files |-> Absent]
    /\ form     = [e \in Editors |-> [f \in Files |-> Parent]]
    /\ editor   = [e \in Editors |-> Idle]
    /\ backup   = [f \in Files |-> [before |-> Absent, after |-> Absent]]
    /\ edits    = 0
    /\ cuts     = 0
    /\ showing  = [f \in Files |-> Parent]
    /\ overlap  = FALSE
    /\ themeCut = {}

\* A manifest that declares a file that is not there does not validate, and
\* the registry no longer offers the theme.
Valid == manifest.there /\ \A f \in manifest.files : local[f] # Absent

\* _resolve_declared_file: the child's file if it is declared, else the parent's.
Effective(f) == IF Valid /\ f \in manifest.files THEN local[f] ELSE Parent

Editing == {e \in Editors : editor[e].at # "idle"}

-----------------------------------------------------------------------------
(* The requests.                                                           *)

\* theme_file_edit and theme_manifest_edit: a page is loaded.
ThemeFileEdit(e) ==
    /\ editor[e] = Idle
    /\ form[e] # [f \in Files |-> Effective(f)]
    /\ form' = [form EXCEPT ![e] = [f \in Files |-> Effective(f)]]
    /\ UNCHANGED <<folder, manifest, local, editor, backup, edits, cuts, showing, overlap, themeCut>>

Begins(e, row) ==
    /\ editor[e] = Idle
    /\ edits < MaxThemeEdits
    /\ edits' = edits + 1
    /\ editor' = [editor EXCEPT ![e] = row]
    /\ overlap' = (overlap \/ Editing # {})
    /\ UNCHANGED <<folder, manifest, local, form, backup, cuts, showing, themeCut>>

\* A child whose manifest does not validate is out of the editor's reach: the
\* next edit makes another one beside it.
Reachable == manifest.there => Valid

\* The file is the one that the page was loaded with.
CurrentText(e, f) == form[e][f] = Effective(f)

\* theme_file_save: save_override with the text of the form.
ThemeFileSave(e, f) ==
    /\ Reachable /\ CurrentText(e, f)
    /\ Begins(e, [Idle EXCEPT !.at = "ensure", !.op = "save", !.file = f, !.content = edits + 1])

\* theme_override_reset: reset_override.
ThemeOverrideReset(e, f) ==
    /\ Valid /\ local[f] # Absent
    /\ form[e][f] = local[f]
    /\ Begins(e, [Idle EXCEPT !.at = "undeclare", !.op = "reset", !.file = f,
                              !.before = local[f], !.old = manifest, !.read = manifest.files])

\* theme_manifest_save: write_manifest_override with the set of files declared.
ThemeManifestSave(e, files) ==
    /\ Reachable
    /\ \A f \in Files : CurrentText(e, f)
    /\ \A f \in files : local[f] # Absent
    /\ files # {} => manifest.there
    /\ Begins(e, [Idle EXCEPT !.at = "ensure", !.op = "manifest", !.declares = files,
                              !.old = [there |-> TRUE, files |-> manifest.files]])

\* theme_revision_restore: what the newest revision of a file replaced comes
\* back, as a save or as a reset, against the file as it is.
ThemeRevisionRestore(e, f) ==
    /\ Valid
    /\ backup[f].after # backup[f].before
    /\ IF backup[f].before = Absent
       THEN /\ local[f] # Absent /\ Effective(f) = local[f]
            /\ Begins(e, [Idle EXCEPT !.at = "undeclare", !.op = "reset", !.file = f,
                                      !.before = local[f], !.old = manifest,
                                      !.read = manifest.files])
       ELSE Begins(e, [Idle EXCEPT !.at = "ensure", !.op = "save", !.file = f,
                                   !.content = backup[f].before])

-----------------------------------------------------------------------------
(* The steps of an edit.                                                   *)

EditGoes(e, at)  == editor' = [editor EXCEPT ![e].at = at]
Leaves(e)    == editor' = [editor EXCEPT ![e] = Idle]
Kept         == UNCHANGED <<form, edits, cuts, themeCut>>

\* ensure_derived_theme: the child there is, or a new directory; a directory
\* without a manifest is a conflict.
EnsureDerivedTheme(e) ==
    /\ editor[e].at = "ensure"
    /\ IF manifest.there THEN EditGoes(e, "snapshot") /\ UNCHANGED folder
       ELSE IF folder    THEN Leaves(e) /\ UNCHANGED folder
       ELSE                   EditGoes(e, "create") /\ folder' = TRUE
    /\ Kept /\ UNCHANGED <<manifest, local, backup, showing, overlap>>

CreateManifest(e) ==
    /\ editor[e].at = "create"
    /\ manifest' = [there |-> TRUE, files |-> {}]
    /\ EditGoes(e, "snapshot")
    /\ Kept /\ UNCHANGED <<folder, local, backup, showing, overlap>>

\* Mutation: a file is declared before it is written.
OrderSwapped(at) == CASE at = "snapshot" -> "read"    [] at = "read"  -> "declare"
                      [] at = "declare"  -> "write"   [] at = "write" -> "validate"

\* The content is written first, the declaration after it.
Order(at) == CASE at = "snapshot" -> "write"   [] at = "write"   -> "read"
               [] at = "read"     -> "declare" [] at = "declare" -> "validate"

\* What a failure puts back is read.
Snapshot(e) ==
    LET row == editor[e] IN
    /\ row.at = "snapshot"
    /\ editor' = [editor EXCEPT ![e] =
         IF row.op = "save"
         THEN [row EXCEPT !.at = Order("snapshot"), !.before = local[row.file], !.old = manifest]
         ELSE [row EXCEPT !.at = "declare", !.read = row.declares]]
    /\ Kept /\ UNCHANGED <<folder, manifest, local, backup, showing, overlap>>

WriteFile(e) ==
    /\ editor[e].at = "write"
    /\ local' = [local EXCEPT ![editor[e].file] = editor[e].content]
    /\ EditGoes(e, Order("write"))
    /\ Kept /\ UNCHANGED <<folder, manifest, backup, showing, overlap>>

\* _update_derived_declaration reads the manifest, and writes it back with the
\* file added.
ReadManifest(e) ==
    /\ editor[e].at = "read"
    /\ editor' = [editor EXCEPT ![e].at = Order("read"),
                                ![e].read = manifest.files \cup {editor[e].file}]
    /\ Kept /\ UNCHANGED <<folder, manifest, local, backup, showing, overlap>>

WriteManifest(e) ==
    /\ editor[e].at = "declare"
    /\ manifest' = [there |-> TRUE, files |-> editor[e].read]
    /\ EditGoes(e, Order("declare"))
    /\ Kept /\ UNCHANGED <<folder, local, backup, showing, overlap>>

\* reset_override takes the declaration away before it unlinks the file.
Undeclare(e) ==
    /\ editor[e].at = "undeclare"
    /\ manifest' = [there |-> TRUE, files |-> editor[e].read \ {editor[e].file}]
    /\ EditGoes(e, "validate")
    /\ Kept /\ UNCHANGED <<folder, local, backup, showing, overlap>>

\* validate_theme, and what follows: an unlink, or the revision.
ValidateTheme(e) ==
    /\ editor[e].at = "validate"
    /\ EditGoes(e, IF ~Valid THEN "undo_manifest" ELSE IF editor[e].op = "reset" THEN "unlink" ELSE "revise")
    /\ Kept /\ UNCHANGED <<folder, manifest, local, backup, showing, overlap>>

Unlink(e) ==
    /\ editor[e].at = "unlink"
    /\ local' = [local EXCEPT ![editor[e].file] = Absent]
    /\ EditGoes(e, "revise")
    /\ Kept /\ UNCHANGED <<folder, manifest, backup, showing, overlap>>

\* _create_revision; the edit has succeeded.
CreateRevision(e) ==
    LET row == editor[e] IN
    /\ row.at = "revise"
    /\ Leaves(e)
    /\ backup' = IF row.op = "manifest" THEN backup
                   ELSE [backup EXCEPT ![row.file] = [before |-> row.before,
                           after |-> IF row.op = "save" THEN row.content ELSE Absent]]
    /\ showing' = [f \in Files |->
         CASE row.op = "save" /\ f = row.file  -> row.content
           [] row.op = "reset" /\ f = row.file -> Parent
           [] row.op = "manifest"              -> IF f \in row.declares THEN local[f] ELSE Parent
           [] OTHER                            -> showing[f]]
    /\ Kept /\ UNCHANGED <<folder, manifest, local, overlap>>

\* An exception.  Before the try block nothing is put back.
StepFails(e) ==
    /\ editor[e].at \in {"create", "write", "read", "declare", "undeclare", "validate", "unlink",
                         "revise"}
    /\ IF editor[e].at = "create" THEN Leaves(e) ELSE EditGoes(e, "undo_manifest")
    /\ Kept /\ UNCHANGED <<folder, manifest, local, backup, showing, overlap>>

UndoManifest(e) ==
    /\ editor[e].at = "undo_manifest"
    /\ manifest' = editor[e].old
    /\ IF editor[e].op = "manifest" THEN Leaves(e) ELSE EditGoes(e, "undo_file")
    /\ Kept /\ UNCHANGED <<folder, local, backup, showing, overlap>>

\* save_override restores or unlinks, reset_override restores what is gone.
Undone(row, now) == IF row.op = "reset" /\ now # Absent THEN now ELSE row.before

UndoFile(e) ==
    /\ editor[e].at = "undo_file"
    /\ local' = [local EXCEPT ![editor[e].file] = Undone(editor[e], @)]
    /\ Leaves(e)
    /\ Kept /\ UNCHANGED <<folder, manifest, backup, showing, overlap>>

\* The process is killed, or its undoing fails.
EditKilled(e) ==
    /\ editor[e] # Idle
    /\ cuts < MaxThemeCuts
    /\ cuts' = cuts + 1
    /\ themeCut' = themeCut \cup {<<editor[e].op, editor[e].at>>}
    /\ Leaves(e)
    /\ UNCHANGED <<folder, manifest, local, form, backup, edits, showing, overlap>>

ThemeNext ==
    \E e \in Editors :
      \/ ThemeFileEdit(e)
      \/ \E f \in Files : ThemeFileSave(e, f) \/ ThemeOverrideReset(e, f) \/ ThemeRevisionRestore(e, f)
      \/ \E files \in SUBSET Files : ThemeManifestSave(e, files)
      \/ EnsureDerivedTheme(e) \/ CreateManifest(e) \/ Snapshot(e) \/ WriteFile(e)
      \/ ReadManifest(e) \/ WriteManifest(e) \/ Undeclare(e) \/ ValidateTheme(e) \/ Unlink(e)
      \/ CreateRevision(e) \/ StepFails(e) \/ UndoManifest(e) \/ UndoFile(e) \/ EditKilled(e)

ThemeSpec == ThemeInit /\ [][ThemeNext]_themeVars

-----------------------------------------------------------------------------
(* Properties.                                                             *)

\* Whatever fails and wherever an edit is killed, the child stays a theme that
\* validates: it never declares a file that is not there.  Two server
\* processes that edit at once may break it, and so may the kill of a reset
\* that is being undone, which declares the file again before it is back.
\* Nobody who edits alone and is not killed finds the theme changed by an edit
\* that failed: every file shows what the last edit that returned made of it.
EditIsWhole ==
    ~overlap => /\ manifest.there /\ <<"reset", "undo_file">> \notin themeCut
                      => Valid \/ \E e \in Editors : editor[e].at = "undo_file"
                /\ Editing = {} /\ themeCut = {} => \A f \in Files : Effective(f) = showing[f]

=============================================================================
