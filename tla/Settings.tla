------------------------------- MODULE Settings -------------------------------
(***************************************************************************)
(* One row of site settings (core/site_settings.py) and the requests that  *)
(* change parts of it.  save_section writes the whole row, so a request    *)
(* that decides one field writes back every other field as it read it:     *)
(* from the row itself, locked (the theme pages, _locked_theme_settings),  *)
(* or from get_section, which answers out of the server process's cache    *)
(* for up to SITE_SETTINGS_CACHE_TTL_SECONDS (everybody else).             *)
(*                                                                         *)
(* The row is one of three: the theme, the WebAuthn policy with its guard  *)
(* against a change of the domain, or the mail settings, which stand for   *)
(* the other sections of the settings form too.  A field has one of two    *)
(* values, and a request that decides a field changes it.                  *)
(***************************************************************************)
EXTENDS Naturals

CONSTANTS Processes,  \* server processes
          Saves,      \* requests and commands that may run at one time
          MaxSaves    \* bound: requests and commands

ASSUME SettingsAssumption == MaxSaves \in Nat /\ "none" \notin Saves

VARIABLES section,  \* the row
          locks,    \* the database has row locks (SQLite has none)
          savedRow,   \* the row's fields
          cached,   \* _cache of each process
          save,     \* where each request stands
          holder,   \* the request that holds the row lock
          page,     \* the options that the administrator's form was made from
          saves,
          decided,  \* what was last decided about each field
          forgiven   \* fields written back by a request from a copy that it
                    \* could not know to be old

settingsVars == <<section, locks, savedRow, cached, save, holder, page, saves, decided, forgiven>>

Sections == {"theme", "webauthn", "mail"}
Fields(s) == CASE s = "theme"    -> {"active", "trusted_themes", "option_values"}
               [] s = "webauthn" -> {"policy", "rp_id"}
               [] s = "mail"     -> {"smtp", "profile"}
AllFields == UNION {Fields(s) : s \in Sections}

Cli     == "cli"
NoCopy  == [there |-> FALSE, row |-> [f \in AllFields |-> 0], missed |-> {}]
NoSave  == [at |-> "idle", process |-> Cli, decides |-> {}, locked |-> FALSE, copy |-> NoCopy]

SettingsInit ==
    /\ section \in Sections
    /\ locks   \in BOOLEAN
    /\ savedRow = [f \in AllFields |-> 0]
    /\ cached  = [p \in Processes |-> NoCopy]
    /\ save    = [r \in Saves |-> NoSave]
    /\ holder  = "none"
    /\ page    = 0
    /\ saves   = 0
    /\ decided = [f \in AllFields |-> 0]
    /\ forgiven = {}

-----------------------------------------------------------------------------
(* Reading.                                                                *)

\* get_section_uncached, _locked_theme_settings.
Fresh == [there |-> TRUE, row |-> savedRow, missed |-> {}]

\* get_section: the copy of the process, if it has one.
Section(p) == IF p # Cli /\ cached[p].there THEN cached[p] ELSE Fresh

\* The request has read its copy.
Reads(r, p, decides, locked, copy) ==
    /\ save[r].at = "idle"
    /\ saves < MaxSaves
    /\ saves' = saves + 1
    /\ save' = [save EXCEPT ![r] = [at |-> "read", process |-> p, decides |-> decides,
                                    locked |-> locked, copy |-> copy]]
    /\ UNCHANGED <<section, locks, savedRow, page, decided, forgiven>>

\* get_section also fills the cache.
ReadsCached(r, p, decides) ==
    /\ Reads(r, p, decides, FALSE, Section(p))
    /\ cached' = IF p = Cli THEN cached ELSE [cached EXCEPT ![p] = Section(p)]
    /\ UNCHANGED holder

\* Mutation: the theme pages read like everybody else.
LockedCopyCached(p) == Section(p)

LockedCopy(p) == Fresh

\* SELECT ... FOR UPDATE waits for the lock and keeps it.
ReadsLocked(r, p, decides) ==
    /\ holder = "none"
    /\ holder' = IF locks THEN r ELSE holder
    /\ Reads(r, p, decides, TRUE, LockedCopy(p))
    /\ UNCHANGED cached

-----------------------------------------------------------------------------
(* The requests.                                                           *)

ThemeActivate(r, p) == section = "theme" /\ ReadsLocked(r, p, {"active"})
ThemeTrust(r, p)    == section = "theme" /\ ReadsLocked(r, p, {"trusted_themes"})

\* theme_options_save, theme_options_reset: refused when the options are not
\* those of the page, by the row that was locked.
ThemeOptionsSave(r, p) ==
    /\ section = "theme"
    /\ page = LockedCopy(p).row["option_values"]
    /\ ReadsLocked(r, p, {"option_values"})

ThemeDetail ==
    /\ section = "theme" /\ page # savedRow["option_values"]
    /\ page' = savedRow["option_values"]
    /\ UNCHANGED <<section, locks, savedRow, cached, save, holder, saves, decided, forgiven>>

\* theme_revision_restore of a revision of the options: get_section, no lock.
ThemeRevisionRestoreOptions(r, p) == section = "theme" /\ ReadsCached(r, p, {"option_values"})

\* site_settings_save: the theme's part behind the lock, the others not.
SiteSettingsTheme(r, p) == section = "theme" /\ ReadsLocked(r, p, {"active"})
SiteSettingsSave(r, p)  == section = "mail"  /\ ReadsCached(r, p, {"smtp"})

\* The same in the section of the CAPTCHA, whose questions have their own page.
CaptchaSettingsSave(r, p) == section = "mail" /\ ReadsCached(r, p, {"profile"})

\* webauthn_update keeps the guard's fields as it read them.
WebauthnUpdate(r, p) == section = "webauthn" /\ ReadsCached(r, p, {"policy"})

WebauthnUnlockRpId(r, p) == section = "webauthn" /\ ReadsCached(r, p, {"rp_id"})

\* assert_rp_id_locked_match: a login adopts the domain, at first or when no
\* credential is at risk.
RpIdAdopt(r, p) == section = "webauthn" /\ ReadsCached(r, p, {"rp_id"})

\* webauthn_relock_rp_id writes everything back but the lock flag.
WebauthnRelockRpId(r, p) == section = "webauthn" /\ ReadsCached(r, p, {})

\* The command line starts with an empty cache.
WebauthnCliUnlock(r) == section = "webauthn" /\ ReadsCached(r, Cli, {"rp_id"})
MailProfileCli(r)    == section = "mail"     /\ ReadsCached(r, Cli, {"profile"})

-----------------------------------------------------------------------------
(* Writing.                                                                *)

\* A copy that does not hold what was just decided.
Older(copy, fields) == [copy EXCEPT !.missed = @ \cup fields]

\* The process that saved caches the row it wrote; the others keep theirs.
AfterSave(p, row, fields) ==
    [q \in Processes |-> IF q = p THEN [there |-> TRUE, row |-> row, missed |-> {}]
                                  ELSE Older(cached[q], fields)]

\* save_section.  The write waits for a lock that another request holds.
SaveSection(r) ==
    LET mine == save[r]
        row  == [f \in AllFields |-> IF f \in mine.decides THEN 1 - decided[f]
                                                           ELSE mine.copy.row[f]]
        lost == mine.copy.missed \ mine.decides
    IN
    /\ mine.at = "read"
    /\ holder \in {"none", r}
    /\ holder' = "none"
    /\ savedRow' = row
    /\ decided' = [f \in AllFields |-> IF f \in mine.decides THEN row[f] ELSE decided[f]]
    /\ forgiven' = (forgiven \ mine.decides) \cup (IF mine.locked /\ locks THEN {} ELSE lost)
    /\ cached' = AfterSave(mine.process, row, mine.decides)
    /\ save' = [s \in Saves |-> IF s = r THEN NoSave
                                ELSE [save[s] EXCEPT !.copy = Older(@, mine.decides)]]
    /\ UNCHANGED <<section, locks, page, saves>>

\* A request that is refused (a form that does not validate, a theme that is
\* gone, a missing confirmation) or that fails; its transaction ends.
SaveRefused(r) ==
    /\ save[r].at = "read"
    /\ save' = [save EXCEPT ![r] = NoSave]
    /\ holder' = IF holder = r THEN "none" ELSE holder
    /\ UNCHANGED <<section, locks, savedRow, cached, page, saves, decided, forgiven>>

\* Time passes, or the process starts again.
CacheExpires(p) ==
    /\ cached[p].there
    /\ cached' = [cached EXCEPT ![p] = NoCopy]
    /\ UNCHANGED <<section, locks, savedRow, save, holder, page, saves, decided, forgiven>>

\* Any page that needs the row fills the cache.
PageServed(p) ==
    /\ ~cached[p].there
    /\ cached' = [cached EXCEPT ![p] = Fresh]
    /\ UNCHANGED <<section, locks, savedRow, save, holder, page, saves, decided, forgiven>>

SettingsNext ==
    \/ ThemeDetail
    \/ \E p \in Processes : CacheExpires(p) \/ PageServed(p)
    \/ \E r \in Saves :
         \/ WebauthnCliUnlock(r) \/ MailProfileCli(r) \/ SaveSection(r) \/ SaveRefused(r)
         \/ \E p \in Processes :
              \/ ThemeActivate(r, p) \/ ThemeTrust(r, p) \/ ThemeOptionsSave(r, p)
              \/ ThemeRevisionRestoreOptions(r, p) \/ SiteSettingsTheme(r, p)
              \/ SiteSettingsSave(r, p) \/ CaptchaSettingsSave(r, p) \/ WebauthnUpdate(r, p)
              \/ WebauthnUnlockRpId(r, p)
              \/ WebauthnRelockRpId(r, p) \/ RpIdAdopt(r, p)

SettingsSpec == SettingsInit /\ [][SettingsNext]_settingsVars

-----------------------------------------------------------------------------
(* Properties.                                                             *)

\* Every field holds what was last decided about it.  A field is written back
\* to an older value only by a request that read it without a lock, from a
\* copy made before the other decision: out of the cache of another process
\* or in the midst of the other request.  In particular no theme page ever
\* takes back a trust that was revoked, except the restore of a revision of
\* the options; and one process, one request at a time, loses nothing.
DecisionsKept ==
    \A f \in Fields(section) : savedRow[f] # decided[f] => f \in forgiven

=============================================================================
