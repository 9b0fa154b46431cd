------------------------------ MODULE Application ------------------------------
(***************************************************************************)
(* One installation of the application over several launches: Startup      *)
(* (internal/app/app.go) opens the database, migrates it, gets the master  *)
(* key and creates the services, while the frontend is already running.    *)
(* It may quit or be killed at any time.                                   *)
(***************************************************************************)
EXTENDS Credentials, Settings

CONSTANTS MaxLaunches       \* bound: launches

ASSUME LaunchesAssumption == MaxLaunches \in Nat

VARIABLES launches

vars == <<databaseVars, credentialVars, settingsVars, launches>>

Init ==
    /\ DatabaseInit
    /\ CredentialsInit
    /\ SettingsInit
    /\ launches = 0

-----------------------------------------------------------------------------
NewLaunch ==
    /\ launches < MaxLaunches
    /\ launches' = launches + 1
    /\ Launch
    /\ UNCHANGED <<credentialVars, settingsVars>>

\* A committed migration takes its inserts with it.
CommitMigration ==
    /\ Commit
    /\ IF recorded' = recorded THEN UNCHANGED settingsVars ELSE Seed(tx.version)

\* The first half of Startup.
OpenDatabase ==
    /\ \/ (Open \/ RunMigrations) /\ UNCHANGED settingsVars
       \/ CommitMigration
    /\ UNCHANGED <<credentialVars, launches>>

\* The second half.
StartServices == GetOrCreateMasterKey /\ UNCHANGED <<settingsVars, launches>>

Startup == OpenDatabase \/ StartServices

UseCredentials == CredentialStep /\ UNCHANGED <<databaseVars, keyVars, settingsVars, launches>>

UseSettings == SettingsStep /\ UNCHANGED <<databaseVars, credentialVars, launches>>

Quit == Exit /\ CredentialsExit /\ SettingsExit /\ UNCHANGED launches

Next == NewLaunch \/ Startup \/ UseCredentials \/ UseSettings \/ Quit

Spec == Init /\ [][Next]_vars

-----------------------------------------------------------------------------
(* Properties: these, and MigrationsWhole, SecretsReadable and              *)
(* ScreenIsStored of the modules above.                                     *)

TypeOK == DatabaseTypeOK /\ CredentialsTypeOK /\ SettingsTypeOK /\ launches \in Nat

\* The key that lasts on macOS is that of the keychain, elsewhere that of the launch.
CurrentKey == IF platform = "darwin" THEN keychain ELSE key

SecretState(row, current) ==
    CASE row = None -> "none"
      [] row = Gone -> "gone"
      [] row \in Nat -> IF row = current THEN "readable" ELSE "sealed"

Secrets == [c \in Creds |-> SecretState(credentials[c], CurrentKey)]

Installed == INSTANCE Installation WITH
    Default <- Dracula,
    schema <- executed,
    setting <- stored,
    secrets <- Secrets,
    lasting <- platform = "darwin",
    up <- startup = "running"

\* Through any number of launches, each of which may fail or be killed at any step of
\* Startup or with calls under way, the database and the keychain keep what
\* Installation promises of migrations, secrets and the theme.
ImplementsInstallation == Installed!Spec
=============================================================================
