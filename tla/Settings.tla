------------------------------- MODULE Settings -------------------------------
(***************************************************************************)
(* The settings: their table (database/settings.go), settingsStore.ts, and *)
(* the one setting the user can change, the theme (ThemeSelector.tsx),     *)
(* which App.tsx paints.                                                   *)
(*                                                                         *)
(* The frontend asks for the settings once, when it is mounted, and does   *)
(* not wait for Startup.  A pick is written first and shown when the write *)
(* has returned; picks may overlap the loading and each other.             *)
(***************************************************************************)
EXTENDS Database, Sequences, SequencesExt

CONSTANTS
    Themes,         \* ids of themes
    Dracula,        \* the default: of the store, of the service and of the first migration
    MaxPicks        \* bound: picks, over all launches

ASSUME ThemesAssumption == Dracula \in Themes /\ None \notin Themes /\ MaxPicks \in Nat

VARIABLES
    stored,         \* the row 'theme' of the table settings, or None
    theme,          \* settingsStore.settings.theme
    painted,        \* the theme whose colours are on the screen
    loading,        \* loadSettings: "asked", "answered", "loaded" or "failed"
    answer,         \* what GetSettings returned
    updates,        \* updateSetting under way: value and stage
    picks,          \* how many there were
    mixed           \* history: a pick overlapped the loading or another pick

settingsVars == <<stored, theme, painted, loading, answer, updates, picks, mixed>>
otherThanUpdates == <<painted, loading, answer, picks, mixed>>

\* The state a new frontend starts with.
Mounted == [theme |-> Dracula, loading |-> "asked"]

SettingsInit ==
    /\ stored = None
    /\ theme = Mounted.theme
    /\ painted = Dracula
    /\ loading = Mounted.loading
    /\ answer = None
    /\ updates = <<>>
    /\ picks = 0
    /\ mixed = FALSE

-----------------------------------------------------------------------------
\* The first migration inserts the defaults where there is no row.
Seed(v) ==
    /\ stored' = IF stored = None /\ \A u \in Versions : v <= u THEN Dracula ELSE stored
    /\ UNCHANGED <<theme, painted, loading, answer, updates, picks, mixed>>

\* GetSettings of the service: the default where there is no row.
GetSettings ==
    /\ startup = "running"
    /\ loading = "asked"
    /\ loading' = "answered"
    /\ answer' = IF stored = None THEN Dracula ELSE stored
    /\ UNCHANGED <<stored, theme, painted, updates, picks, mixed>>

\* It came before Startup was done, or the database has an error.  Nothing asks again.
GetSettingsFails ==
    /\ startup # "off"
    /\ loading = "asked"
    /\ loading' = "failed"
    /\ UNCHANGED <<stored, theme, painted, answer, updates, picks, mixed>>

SettingsLoaded ==
    /\ loading = "answered"
    /\ loading' = "loaded"
    /\ theme' = answer
    /\ answer' = None
    /\ UNCHANGED <<stored, painted, updates, picks, mixed>>

\* A bug to catch: the pick is shown before it is written.
SelectAtOnce(t) ==
    /\ startup # "off"
    /\ picks < MaxPicks
    /\ picks' = picks + 1
    /\ updates' = Append(updates, [value |-> t, stage |-> "send"])
    /\ mixed' = (mixed \/ updates # <<>> \/ loading \in {"asked", "answered"})
    /\ theme' = t
    /\ UNCHANGED <<stored, painted, loading, answer>>

HandleSelect(t) ==
    /\ startup # "off"
    /\ picks < MaxPicks
    /\ picks' = picks + 1
    /\ updates' = Append(updates, [value |-> t, stage |-> "send"])
    /\ mixed' = (mixed \/ updates # <<>> \/ loading \in {"asked", "answered"})
    /\ UNCHANGED <<stored, theme, painted, loading, answer>>

SaveSetting(i) ==
    /\ startup = "running"
    /\ updates[i].stage = "send"
    /\ stored' = updates[i].value
    /\ updates' = [updates EXCEPT ![i].stage = "land"]
    /\ UNCHANGED <<theme, otherThanUpdates>>

\* An error is swallowed.
SaveSettingFails(i) ==
    /\ updates[i].stage = "send"
    /\ updates' = RemoveAt(updates, i)
    /\ UNCHANGED <<stored, theme, otherThanUpdates>>

SettingSaved(i) ==
    /\ updates[i].stage = "land"
    /\ theme' = updates[i].value
    /\ updates' = RemoveAt(updates, i)
    /\ UNCHANGED <<stored, otherThanUpdates>>

\* App's effect on settings.theme.
ApplyTheme ==
    /\ startup # "off"
    /\ painted # theme
    /\ painted' = theme
    /\ UNCHANGED <<stored, theme, loading, answer, updates, picks, mixed>>

SettingsStep ==
    \/ GetSettings \/ GetSettingsFails \/ SettingsLoaded \/ ApplyTheme
    \/ \E t \in Themes : HandleSelect(t)
    \/ \E i \in DOMAIN updates : SaveSetting(i) \/ SaveSettingFails(i) \/ SettingSaved(i)

\* The frontend ends with the process; the next one starts anew.
SettingsExit ==
    /\ theme' = Mounted.theme
    /\ painted' = Dracula
    /\ loading' = Mounted.loading
    /\ answer' = None
    /\ updates' = <<>>
    /\ mixed' = FALSE
    /\ UNCHANGED <<stored, picks>>

-----------------------------------------------------------------------------
(* Properties                                                              *)

SettingsTypeOK ==
    /\ stored \in Themes \cup {None}
    /\ theme \in Themes
    /\ painted \in Themes
    /\ loading \in {"asked", "answered", "loaded", "failed"}
    /\ answer \in Themes \cup {None}
    /\ loading = "answered" => answer # None
    /\ updates \in Seq([value : Themes, stage : {"send", "land"}])
    /\ picks \in Nat
    /\ mixed \in BOOLEAN

\* What is painted is what the next launch will paint, once everything has returned,
\* failed writes included.  Overlapping picks may land in another order than they were
\* written in, and the loading may land on a pick: those histories are left out.
ScreenIsStored ==
    loading = "loaded" /\ updates = <<>> /\ painted = theme /\ ~mixed => painted = stored
=============================================================================
