------------------------------- MODULE Database -------------------------------
(***************************************************************************)
(* Opening the database and bringing its schema up to date                 *)
(* (internal/infrastructure/database/sqlite.go), the first half of Startup *)
(* (internal/app/app.go).                                                  *)
(*                                                                         *)
(* Each migration file runs in a transaction of its own, which also        *)
(* records its version.  The process may end between any two steps; what   *)
(* was committed stays, the rest of a transaction is rolled back.          *)
(***************************************************************************)
EXTENDS Integers, FiniteSets

CONSTANTS
    Versions,       \* the versions of the *.up.sql files
    Statements,     \* how many statements each file has
    None            \* no transaction, no key, no value

ASSUME VersionsAssumption ==
    /\ Versions \subseteq Nat
    /\ Versions # {}
    /\ IsFiniteSet(Versions)
    /\ Statements \in Nat \ {0}
    /\ None \notin Nat

VARIABLES
    startup,        \* how far Startup is; "off" when there is no process
    recorded,       \* the versions in schema_migrations
    executed,       \* [Versions -> statements of the file that are in the database]
    known,          \* the versions getAppliedVersions returned
    tx              \* the open transaction: version and statements so far, or None

databaseVars == <<startup, recorded, executed, known, tx>>

Stages == {"off", "opening", "listing", "migrating", "migrated", "adding", "running", "failed"}

DatabaseInit ==
    /\ startup = "off"
    /\ recorded = {}
    /\ executed = [v \in Versions |-> 0]
    /\ known = {}
    /\ tx = None

\* An early return of Startup: the services stay nil, and every call fails.
Fail ==
    /\ startup' = "failed"
    /\ tx' = None
    /\ UNCHANGED <<recorded, executed, known>>

Launch ==
    /\ startup = "off"
    /\ startup' = "opening"
    /\ UNCHANGED <<recorded, executed, known, tx>>

\* Open and ensureMigrationTable.
Open ==
    /\ startup = "opening"
    /\ \/ startup' = "listing" /\ UNCHANGED <<recorded, executed, known, tx>>
       \/ Fail

\* A bug to catch: the versions are not read, every file is run again.
GetNoVersions ==
    /\ startup = "listing"
    /\ startup' = "migrating"
    /\ known' = {}
    /\ UNCHANGED <<recorded, executed, tx>>

GetAppliedVersions ==
    /\ startup = "listing"
    /\ startup' = "migrating"
    /\ known' = recorded
    /\ UNCHANGED <<recorded, executed, tx>>

\* The files are sorted by version; those that are known are skipped.
NextVersion(v) ==
    /\ v \in Versions \ known
    /\ \A u \in Versions \ known : v <= u

Begin ==
    /\ startup = "migrating"
    /\ tx = None
    /\ \E v \in Versions :
        /\ NextVersion(v)
        /\ tx' = [version |-> v, done |-> 0]
    /\ UNCHANGED <<startup, recorded, executed, known>>

\* tx.Exec of one statement; an error rolls back and ends Startup.
Exec ==
    /\ startup = "migrating"
    /\ tx # None
    /\ tx.done < Statements
    /\ \/ tx' = [tx EXCEPT !.done = @ + 1] /\ UNCHANGED <<startup, recorded, executed, known>>
       \/ Fail

\* The version is recorded and the transaction committed, or rolled back.
Commit ==
    /\ startup = "migrating"
    /\ tx # None
    /\ tx.done = Statements
    /\ \/ /\ recorded' = recorded \cup {tx.version}
          /\ executed' = [executed EXCEPT ![tx.version] = @ + tx.done]
          /\ known' = known \cup {tx.version}   \* the loop goes on to the next file
          /\ tx' = None
          /\ UNCHANGED startup
       \/ Fail

\* RunMigrations returns.
Migrated ==
    /\ startup = "migrating"
    /\ tx = None
    /\ Versions \subseteq known
    /\ startup' = "migrated"
    /\ UNCHANGED <<recorded, executed, known, tx>>

RunMigrations == GetAppliedVersions \/ Begin \/ Exec \/ Migrated

\* The application quits, or the process is killed.
Exit ==
    /\ startup # "off"
    /\ startup' = "off"
    /\ known' = {}
    /\ tx' = None
    /\ UNCHANGED <<recorded, executed>>

-----------------------------------------------------------------------------
(* Properties                                                              *)

DatabaseTypeOK ==
    /\ startup \in Stages
    /\ recorded \subseteq Versions
    /\ executed \in [Versions -> Nat]
    /\ known \subseteq Versions
    /\ tx \in [version : Versions, done : 0..Statements] \cup {None}

\* Whenever the process ends: a migration is in the database wholly, once, and
\* recorded, or not at all; and the later ones build on the earlier ones.
MigrationsWhole ==
    \A v \in Versions :
        /\ executed[v] = IF v \in recorded THEN Statements ELSE 0
        /\ v \in recorded => \A u \in Versions : u < v => u \in recorded
=============================================================================
