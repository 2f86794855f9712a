----------------------------- MODULE MCCommunity -----------------------------
(***************************************************************************)
(* Model-checking instance of what people write through the site: posts,   *)
(* comments and their moderation, the retried writes of applications, the  *)
(* files of a theme, the settings; and the live stream of a page.  A       *)
(* behaviour is about one of them, chosen at the start.                    *)
(***************************************************************************)
EXTENDS Comments, LiveSocket, Content, ApiWrites, ThemeFiles, Settings, TLC

VARIABLE subject

\* The settings have one initial state when a behaviour is not about them.
CommunityInit ==
  /\ subject \in {"comments", "live", "content", "api", "themes", "settings"}
  /\ CommentsInit /\ LiveInit /\ ContentInit /\ ApiInit /\ ThemeInit /\ SettingsInit
  /\ subject # "settings" => section = "mail" /\ locks

CommunityNext ==
  \/ /\ subject = "comments" /\ CommentsNext
     /\ UNCHANGED <<subject, liveVars, contentVars, apiVars, themeVars, settingsVars>>
  \/ /\ subject = "live" /\ LiveNext
     /\ UNCHANGED <<subject, commentVars, contentVars, apiVars, themeVars, settingsVars>>
  \/ /\ subject = "content" /\ ContentNext
     /\ UNCHANGED <<subject, commentVars, liveVars, apiVars, themeVars, settingsVars>>
  \/ /\ subject = "api" /\ ApiNext
     /\ UNCHANGED <<subject, commentVars, liveVars, contentVars, themeVars, settingsVars>>
  \/ /\ subject = "themes" /\ ThemeNext
     /\ UNCHANGED <<subject, commentVars, liveVars, contentVars, apiVars, settingsVars>>
  \/ /\ subject = "settings" /\ SettingsNext
     /\ UNCHANGED <<subject, commentVars, liveVars, contentVars, apiVars, themeVars>>

CommunitySpec ==
  /\ CommunityInit
  /\ [][CommunityNext]_<<subject, commentVars, liveVars, contentVars, apiVars, themeVars, settingsVars>>

\* The sets may have the same values in a cfg: no state holds members of two.
Symmetry == UNION {Permutations(S) : S \in {Moderators, Requests, Tickets, Sockets, PostRequests,
                                             Writers, Calls, Files, Editors, Processes, Saves}}
=============================================================================
