--------------------------- MODULE ApplicationProofs ---------------------------
(***************************************************************************)
(* Migrations are whole, saved secrets stay readable and the theme on the  *)
(* screen is the stored one, for any number of launches, versions,         *)
(* statements, credentials and themes.                                     *)
(***************************************************************************)
EXTENDS Application, SequenceTheorems, TLAPS

LEMMA RemoveAtIsSeq ==
    ASSUME NEW S, NEW s \in Seq(S), NEW i \in DOMAIN s
    PROVE  /\ RemoveAt(s, i) \in Seq(S)
           /\ \A k \in DOMAIN RemoveAt(s, i) : \E j \in DOMAIN s : RemoveAt(s, i)[k] = s[j]
<1> DEFINE front == SubSeq(s, 1, i - 1)
           back == SubSeq(s, i + 1, Len(s))
<1>1. i \in 1..Len(s) /\ Len(s) \in Nat
  BY LenProperties
<1>2. /\ front \in Seq(S) /\ Len(front) = i - 1
      /\ \A k \in 1..(i - 1) : front[k] = s[k]
  BY <1>1, SubSeqProperties
<1>3. /\ back \in Seq(S) /\ Len(back) = Len(s) - i
      /\ \A k \in 1..(Len(s) - i) : back[k] = s[i + k]
  BY <1>1, SubSeqProperties
<1>4. RemoveAt(s, i) = front \o back
  BY DEF RemoveAt
<1> HIDE DEF front, back
<1>5. RemoveAt(s, i) \in Seq(S) /\ Len(RemoveAt(s, i)) = Len(s) - 1
  BY <1>1, <1>2, <1>3, <1>4, ConcatProperties
<1>6. ASSUME NEW k \in DOMAIN RemoveAt(s, i)
      PROVE  \E j \in DOMAIN s : RemoveAt(s, i)[k] = s[j]
  <2>1. k \in 1..(Len(s) - 1)
    BY <1>5, LenProperties
  <2>2. (front \o back)[k] = IF k <= Len(front) THEN front[k] ELSE back[k - Len(front)]
    <3>1. \A m \in 1..(Len(front) + Len(back)) :
            (front \o back)[m] = IF m <= Len(front) THEN front[m] ELSE back[m - Len(front)]
      BY <1>2, <1>3, ConcatProperties
    <3>2. k \in 1..(Len(front) + Len(back))
      BY <1>1, <1>2, <1>3, <2>1
    <3> QED  BY <3>1, <3>2
  <2>3. CASE k <= i - 1
    <3>1. RemoveAt(s, i)[k] = s[k] /\ k \in DOMAIN s
      BY <1>1, <1>2, <1>4, <2>1, <2>2, <2>3
    <3> QED  BY <3>1
  <2>4. CASE k > i - 1
    <3>1. k - Len(front) \in 1..(Len(s) - i) /\ i + (k - Len(front)) = k + 1
      BY <1>1, <1>2, <2>1, <2>4
    <3>2. back[k - Len(front)] = s[k + 1]
      BY <1>3, <3>1
    <3>3. ~(k <= Len(front)) /\ k + 1 \in DOMAIN s
      BY <1>1, <1>2, <2>1, <2>4
    <3> QED  BY <1>4, <2>2, <3>2, <3>3
  <2> QED  BY <1>1, <2>1, <2>3, <2>4
<1> QED  BY <1>5, <1>6

-----------------------------------------------------------------------------
(* The database                                                             *)

MigrationInv ==
    /\ DatabaseTypeOK
    /\ MigrationsWhole
    /\ startup = "migrating" => known = recorded
    /\ tx # None => startup = "migrating" /\ NextVersion(tx.version)

\* Which steps touch the database.
LEMMA DatabaseCases ==
    ASSUME [Next]_vars
    PROVE  \/ Launch \/ Open \/ GetAppliedVersions \/ Begin \/ Exec \/ Commit
           \/ Migrated \/ Exit \/ Fail
           \/ (tx' = tx /\ startup \in {"migrated", "adding"} /\ startup' \in {"adding", "running"}
               /\ UNCHANGED <<recorded, executed, known>>)
           \/ UNCHANGED databaseVars
<1>1. CASE NewLaunch
  BY <1>1 DEF NewLaunch
<1>2. CASE OpenDatabase
  BY <1>2 DEF OpenDatabase, RunMigrations, CommitMigration
<1>3. CASE StartServices
  BY <1>3 DEF StartServices, GetOrCreateMasterKey, QueryKeychain, AddKey, GenerateKey, Services
<1>4. CASE UseCredentials \/ UseSettings
  BY <1>4 DEF UseCredentials, UseSettings
<1>5. CASE Quit
  BY <1>5 DEF Quit
<1>6. CASE UNCHANGED vars
  BY <1>6 DEF vars
<1> QED  BY <1>1, <1>2, <1>3, <1>4, <1>5, <1>6 DEF Next, Startup

LEMMA MigrationStep ==
    ASSUME MigrationInv, [Next]_vars
    PROVE  MigrationInv'
<1> USE VersionsAssumption DEF MigrationInv, DatabaseTypeOK
<1>1. CASE Launch \/ Open \/ Migrated \/ Exit \/ Fail \/ UNCHANGED databaseVars
  <2>1. DatabaseTypeOK'
    BY <1>1 DEF Launch, Open, Migrated, Exit, Fail, databaseVars, Stages
  <2>2. (startup = "migrating" => known = recorded)'
    BY <1>1 DEF Launch, Open, Migrated, Exit, Fail, databaseVars
  <2>3. (tx # None => startup = "migrating" /\ NextVersion(tx.version))'
    BY <1>1 DEF Launch, Open, Migrated, Exit, Fail, databaseVars, NextVersion
  <2>4. MigrationsWhole'
    BY <1>1 DEF Launch, Open, Migrated, Exit, Fail, databaseVars, MigrationsWhole
  <2> QED  BY <2>1, <2>2, <2>3, <2>4
<1>2. CASE GetAppliedVersions
  BY <1>2 DEF GetAppliedVersions, MigrationsWhole, Stages
<1>3. CASE Begin
  <2>1. PICK v \in Versions : NextVersion(v) /\ tx' = [version |-> v, done |-> 0]
    BY <1>3 DEF Begin
  <2>2. tx' \in [version : Versions, done : 0..Statements] /\ tx'.version = v
    BY <2>1
  <2>3. NextVersion(v)'
    BY <1>3, <2>1 DEF Begin, NextVersion
  <2> QED  BY <1>3, <2>2, <2>3 DEF Begin, MigrationsWhole, Stages
<1>4. CASE Exec
  <2>1. CASE Fail
    BY <1>1, <2>1
  <2>2. CASE tx' = [tx EXCEPT !.done = @ + 1] /\ UNCHANGED <<startup, recorded, executed, known>>
    <3>1. tx \in [version : Versions, done : 0..Statements] /\ tx.done < Statements
      BY <1>4 DEF Exec
    <3>2. tx' \in [version : Versions, done : 0..Statements] /\ tx'.version = tx.version
      BY <2>2, <3>1
    <3>3. NextVersion(tx.version)'
      BY <1>4, <2>2, <3>2 DEF Exec, NextVersion
    <3> QED  BY <1>4, <2>2, <3>2, <3>3 DEF Exec, MigrationsWhole
  <2> QED  BY <1>4, <2>1, <2>2 DEF Exec
<1>5. CASE Commit
  <2>1. CASE Fail
    BY <1>1, <2>1
  <2>2. CASE ~Fail
    <3> DEFINE v == tx.version
    <3>1. /\ v \in Versions /\ tx.done = Statements /\ tx' = None
          /\ startup = "migrating" /\ startup' = startup
          /\ recorded' = recorded \cup {v} /\ known' = known \cup {v}
          /\ executed' = [executed EXCEPT ![v] = @ + tx.done]
      BY <1>5, <2>2 DEF Commit
    <3>2. v \notin recorded /\ \A u \in Versions \ recorded : v <= u
      BY <1>5, <3>1 DEF Commit, NextVersion
    <3>3. executed[v] = 0 /\ executed' = [executed EXCEPT ![v] = Statements]
      <4>1. executed[v] = 0
        BY <3>1, <3>2 DEF MigrationsWhole
      <4>2. executed[v] + tx.done = Statements
        BY <3>1, <4>1
      <4> QED  BY <3>1, <4>1, <4>2
    <3> HIDE DEF v
    <3>4. DatabaseTypeOK'
      BY <3>1, <3>3
    <3>5. ASSUME NEW w \in Versions
          PROVE  /\ executed'[w] = IF w \in recorded' THEN Statements ELSE 0
                 /\ w \in recorded' => \A u \in Versions : u < w => u \in recorded'
      <4>1. CASE w = v
        <5>1. executed'[w] = Statements /\ w \in recorded'
          BY <3>1, <3>3, <4>1
        <5>2. \A u \in Versions : u < v => u \in recorded
          BY <3>1, <3>2
        <5> QED  BY <3>1, <4>1, <5>1, <5>2
      <4>2. CASE w # v
        BY <3>1, <3>2, <3>3, <4>2 DEF MigrationsWhole
      <4> QED  BY <4>1, <4>2
    <3>6. MigrationsWhole'
      BY <3>5 DEF MigrationsWhole
    <3> QED  BY <3>1, <3>4, <3>6
  <2> QED  BY <2>1, <2>2
<1>6. CASE /\ tx' = tx /\ startup \in {"migrated", "adding"} /\ startup' \in {"adding", "running"}
           /\ UNCHANGED <<recorded, executed, known>>
  BY <1>6 DEF MigrationsWhole, NextVersion, Stages
<1> QED  BY DatabaseCases, <1>1, <1>2, <1>3, <1>4, <1>5, <1>6

LEMMA MigrationInit == Init => MigrationInv
  BY VersionsAssumption DEF Init, DatabaseInit, MigrationInv, DatabaseTypeOK, MigrationsWhole, Stages

\* Whenever the process ends, a migration is in the database wholly, once, and recorded,
\* or not at all (Database.RunMigrations, sqlite.go).
THEOREM MigrationsAreWhole == Spec => []MigrationsWhole
<1>1. MigrationInv => MigrationsWhole
  BY DEF MigrationInv
<1> QED  BY <1>1, MigrationInit, MigrationStep, PTL DEF Spec

-----------------------------------------------------------------------------
(* The master key                                                           *)

SecretsInv ==
    /\ platform \in {"darwin", "other"}
    /\ keychain \in Nat \cup {None}
    /\ keys \in Nat
    /\ key \in Nat \cup {None}
    /\ startup \in {"adding", "running"} => key \in Nat
    /\ startup = "adding" => platform = "darwin" /\ keychain = None
    /\ credentials \in [Creds -> Nat \cup {None, Gone}]
    /\ platform = "darwin" =>
        /\ startup = "running" => keychain = key
        /\ \A c \in Creds : Stored(c) => keychain = credentials[c]

\* Which steps touch the keys and the rows.
LEMMA KeyCases ==
    ASSUME [Next]_vars
    PROVE  \/ QueryKeychain \/ AddKey \/ GenerateKey
           \/ startup = "running" /\ SaveCredential /\ UNCHANGED <<startup, keyVars>>
           \/ \E i \in DOMAIN credCalls :
                  DeleteCredential(credCalls[i].id) /\ UNCHANGED <<startup, keyVars>>
           \/ Exit /\ CredentialsExit
           \/ /\ {startup, startup'} \cap {"adding", "running"} = {} \/ startup' = startup
              /\ UNCHANGED <<keyVars, credentials>>
<1>1. CASE NewLaunch
  BY <1>1 DEF NewLaunch, Launch, credentialVars, credVars
<1>2. CASE OpenDatabase
  BY <1>2 DEF OpenDatabase, RunMigrations, CommitMigration, Open, GetAppliedVersions, Begin,
              Exec, Commit, Migrated, Fail, credentialVars, credVars
<1>3. CASE StartServices
  BY <1>3 DEF StartServices, GetOrCreateMasterKey
<1>4. CASE UseCredentials
  <2>1. CASE KeyManager
    BY <1>4, <2>1 DEF UseCredentials, KeyManager, LoadCredentials, AddCredential, RemoveCredential,
                      CredentialOperation, databaseVars
  <2>2. ASSUME NEW i \in DOMAIN credCalls, RunCredentialCall(i)
        PROVE  \/ startup = "running" /\ SaveCredential /\ UNCHANGED <<startup, keyVars>>
               \/ DeleteCredential(credCalls[i].id) /\ UNCHANGED <<startup, keyVars>>
    BY <1>4, <2>2 DEF UseCredentials, RunCredentialCall, databaseVars
  <2>3. ASSUME NEW i \in DOMAIN credCalls,
               ListCredentials(i) \/ CredentialCallFails(i) \/ CredentialsLand(i)
        PROVE  UNCHANGED <<startup, keyVars, credentials>>
    BY <1>4, <2>3 DEF UseCredentials, ListCredentials, CredentialCallFails, CredentialsLand,
                      databaseVars
  <2> QED  BY <1>4, <2>1, <2>2, <2>3 DEF UseCredentials, CredentialStep
<1>5. CASE UseSettings
  BY <1>5 DEF UseSettings, databaseVars, credentialVars, credVars
<1>6. CASE Quit
  BY <1>6 DEF Quit
<1>7. CASE UNCHANGED vars
  BY <1>7 DEF vars, databaseVars, credentialVars, credVars
<1> QED  BY <1>1, <1>2, <1>3, <1>4, <1>5, <1>6, <1>7 DEF Next, Startup

LEMMA SecretsStep ==
    ASSUME SecretsInv, [Next]_vars
    PROVE  SecretsInv'
<1> USE VersionsAssumption, CredsAssumption DEF SecretsInv, Stored
<1>1. CASE QueryKeychain
  BY <1>1 DEF QueryKeychain, Services, Fail, credVars
<1>2. CASE AddKey
  BY <1>2 DEF AddKey, Services, Fail, credVars
<1>3. CASE GenerateKey
  BY <1>3 DEF GenerateKey, Services, credVars
<1>4. CASE startup = "running" /\ SaveCredential /\ UNCHANGED <<startup, keyVars>>
  <2>1. PICK d \in Creds : credentials' = [credentials EXCEPT ![d] = key]
    BY <1>4 DEF SaveCredential
  <2>2. credentials' \in [Creds -> Nat \cup {None, Gone}]
    BY <1>4, <2>1
  <2>3. ASSUME NEW c \in Creds PROVE credentials'[c] = IF c = d THEN key ELSE credentials[c]
    BY <2>1
  <2> QED  BY <1>4, <2>2, <2>3 DEF keyVars
<1>5. ASSUME NEW i \in DOMAIN credCalls, DeleteCredential(credCalls[i].id),
             UNCHANGED <<startup, keyVars>>
      PROVE  SecretsInv'
  <2> DEFINE d == credCalls[i].id
  <2>1. credentials' = [credentials EXCEPT ![d] = Gone]
    BY <1>5 DEF DeleteCredential
  <2> HIDE DEF d
  <2>2. credentials' \in [Creds -> Nat \cup {None, Gone}]
    BY <2>1
  <2>3. ASSUME NEW c \in Creds PROVE credentials'[c] \in {Gone, credentials[c]}
    BY <2>1
  <2> QED  BY <1>5, <2>2, <2>3 DEF keyVars
<1>6. CASE Exit /\ CredentialsExit
  BY <1>6 DEF Exit, CredentialsExit
<1>7. CASE /\ {startup, startup'} \cap {"adding", "running"} = {} \/ startup' = startup
           /\ UNCHANGED <<keyVars, credentials>>
  BY <1>7 DEF keyVars
<1> QED  BY KeyCases, <1>1, <1>2, <1>3, <1>4, <1>5, <1>6, <1>7

LEMMA SecretsInit == Init => SecretsInv
  BY VersionsAssumption DEF Init, DatabaseInit, CredentialsInit, SecretsInv, Stored

\* On macOS every stored secret opens under the key of the launch that is running
\* (GetOrCreateMasterKey, keychain.go).
THEOREM SecretsStayReadable == Spec => []SecretsReadable
<1>1. SecretsInv => SecretsReadable
  BY DEF SecretsInv, SecretsReadable, Readable
<1> QED  BY <1>1, SecretsInit, SecretsStep, PTL DEF Spec

-----------------------------------------------------------------------------
(* Types                                                                    *)

CredCall == [op : {"load", "save", "delete"}, id : Creds \cup {None}, rows : SUBSET Creds,
             stage : {"send", "list", "land"}]

LEMMA CredentialTypes ==
    ASSUME CredentialsTypeOK, SecretsInv', [Next]_vars
    PROVE  CredentialsTypeOK'
<1> USE DEF CredentialsTypeOK, SecretsInv
<1>1. CASE UNCHANGED <<credList, credCalls, saves>>
  BY <1>1
<1>2. CASE CredentialsExit
  BY <1>2, EmptySeq DEF CredentialsExit
<1>3. CASE UseCredentials
  <2>1. credCalls \in Seq(CredCall)
    BY DEF CredCall
  <2>2. CASE KeyManager
    <3>1. PICK x \in CredCall : /\ credCalls' = Append(credCalls, x)
                                /\ x.op = "delete" => x.id # None
      <4>1. CASE LoadCredentials
        <5>1. [op |-> "load", id |-> None, rows |-> {}, stage |-> "list"] \in CredCall
          BY DEF CredCall
        <5> QED  BY <4>1, <5>1 DEF LoadCredentials
      <4>2. ASSUME NEW op \in {"save", "delete"}, NEW c \in Creds \cup {None},
                   op = "delete" => c # None, CredentialOperation(op, c)
            PROVE  \E x \in CredCall : /\ credCalls' = Append(credCalls, x)
                                       /\ x.op = "delete" => x.id # None
        <5>1. [op |-> op, id |-> c, rows |-> {}, stage |-> "send"] \in CredCall
          BY DEF CredCall
        <5> QED  BY <4>2, <5>1 DEF CredentialOperation
      <4>3. CASE AddCredential
        BY <4>2, <4>3 DEF AddCredential
      <4>4. ASSUME NEW c \in Creds, RemoveCredential(c)
            PROVE  \E x \in CredCall : /\ credCalls' = Append(credCalls, x)
                                       /\ x.op = "delete" => x.id # None
        BY <4>2, <4>4, CredsAssumption DEF RemoveCredential
      <4> QED  BY <2>2, <4>1, <4>3, <4>4 DEF KeyManager
    <3>2. /\ credCalls' \in Seq(CredCall)
          /\ \A i \in DOMAIN credCalls' : credCalls'[i] \in {x} \cup {credCalls[j] : j \in DOMAIN credCalls}
      BY <2>1, <3>1, AppendProperties
    <3>3. credList' = credList /\ saves' = saves + 1
      BY <2>2 DEF KeyManager, LoadCredentials, AddCredential, RemoveCredential, CredentialOperation
    <3> QED  BY <3>1, <3>2, <3>3 DEF CredCall
  <2>3. ASSUME NEW i \in DOMAIN credCalls, RunCredentialCall(i) \/ ListCredentials(i)
        PROVE  CredentialsTypeOK'
    <3>1. credCalls[i] \in CredCall
      BY <2>1, ElementOfSeq, LenProperties
    <3>2. PICK x \in CredCall : /\ credCalls' = [credCalls EXCEPT ![i] = x]
                                /\ x.op = credCalls[i].op /\ x.id = credCalls[i].id
      <4>1. CASE RunCredentialCall(i)
        <5>1. credCalls' = [credCalls EXCEPT ![i] = [credCalls[i] EXCEPT !.stage = "list"]]
          BY <4>1 DEF RunCredentialCall
        <5>2. [credCalls[i] EXCEPT !.stage = "list"] \in CredCall
          BY <3>1 DEF CredCall
        <5> QED  BY <3>1, <5>1, <5>2 DEF CredCall
      <4>2. CASE ListCredentials(i)
        <5>1. credCalls' = [credCalls EXCEPT ![i] = [credCalls[i] EXCEPT !.stage = "land",
                                                         !.rows = {c \in Creds : Stored(c)}]]
          BY <4>2 DEF ListCredentials
        <5>2. [credCalls[i] EXCEPT !.stage = "land", !.rows = {c \in Creds : Stored(c)}] \in CredCall
          BY <3>1 DEF CredCall
        <5> QED  BY <3>1, <5>1, <5>2 DEF CredCall
      <4> QED  BY <2>3, <4>1, <4>2
    <3>3. credCalls' \in Seq(CredCall) /\ DOMAIN credCalls' = DOMAIN credCalls
      BY <2>1, <3>2, ExceptSeq
    <3>4. ASSUME NEW k \in DOMAIN credCalls
          PROVE  credCalls'[k].op = "delete" => credCalls'[k].id # None
      BY <2>1, <3>2
    <3>5. credList' = credList /\ saves' = saves
      BY <2>3 DEF RunCredentialCall, ListCredentials
    <3> QED  BY <3>3, <3>4, <3>5 DEF CredCall
  <2>4. ASSUME NEW i \in DOMAIN credCalls, CredentialCallFails(i) \/ CredentialsLand(i)
        PROVE  CredentialsTypeOK'
    <3>1. credCalls[i] \in CredCall
      BY <2>1, ElementOfSeq, LenProperties
    <3>2. credCalls' = RemoveAt(credCalls, i) /\ saves' = saves
      BY <2>4 DEF CredentialCallFails, CredentialsLand
    <3>3. credCalls' \in Seq(CredCall)
          /\ \A k \in DOMAIN credCalls' : \E j \in DOMAIN credCalls : credCalls'[k] = credCalls[j]
      BY <2>1, <3>2, RemoveAtIsSeq
    <3>4. credList' \in SUBSET Creds
      BY <2>4, <3>1 DEF CredentialCallFails, CredentialsLand, CredCall
    <3> QED  BY <3>2, <3>3, <3>4 DEF CredCall
  <2> QED  BY <1>3, <2>2, <2>3, <2>4 DEF UseCredentials, CredentialStep
<1>4. UNCHANGED <<credList, credCalls, saves>> \/ CredentialsExit \/ UseCredentials
  BY DEF Next, NewLaunch, Startup, OpenDatabase, StartServices, GetOrCreateMasterKey, QueryKeychain,
         AddKey, GenerateKey, UseSettings, Quit, vars, credentialVars, credVars
<1> QED  BY <1>1, <1>2, <1>3, <1>4

Update == [value : Themes, stage : {"send", "land"}]

LEMMA SettingTypes ==
    ASSUME SettingsTypeOK, [Next]_vars
    PROVE  SettingsTypeOK'
<1> USE ThemesAssumption DEF SettingsTypeOK, settingsVars
<1>1. CASE UNCHANGED settingsVars
  BY <1>1
<1>2. CASE SettingsExit
  BY <1>2, EmptySeq DEF SettingsExit, Mounted
<1>3. CASE Seed(tx.version)
  BY <1>3 DEF Seed
<1>4. CASE SettingsStep
  <2>1. updates \in Seq(Update)
    BY DEF Update
  <2>2. CASE GetSettings \/ GetSettingsFails \/ SettingsLoaded \/ ApplyTheme
    <3>1. CASE SettingsLoaded
      BY <3>1 DEF SettingsLoaded
    <3>2. CASE GetSettings \/ GetSettingsFails \/ ApplyTheme
      BY <3>2 DEF GetSettings, GetSettingsFails, ApplyTheme
    <3> QED  BY <2>2, <3>1, <3>2
  <2>3. ASSUME NEW t \in Themes, HandleSelect(t) PROVE SettingsTypeOK'
    <3>1. updates' \in Seq(Update)
      BY <2>1, <2>3, AppendProperties DEF HandleSelect, Update
    <3>2. picks' \in Nat /\ mixed' \in BOOLEAN
      BY <2>3 DEF HandleSelect
    <3> QED  BY <2>3, <3>1, <3>2 DEF HandleSelect, Update
  <2>4. ASSUME NEW i \in DOMAIN updates, SaveSetting(i) \/ SaveSettingFails(i) \/ SettingSaved(i)
        PROVE  SettingsTypeOK'
    <3>1. updates[i] \in Update
      BY <2>1, ElementOfSeq, LenProperties
    <3>2. CASE SaveSetting(i)
      <4>1. updates' = [updates EXCEPT ![i] = [updates[i] EXCEPT !.stage = "land"]]
        BY <3>2 DEF SaveSetting
      <4>2. updates' \in Seq(Update)
        BY <2>1, <3>1, <4>1, ExceptSeq DEF Update
      <4> QED  BY <3>1, <3>2, <4>2 DEF SaveSetting, otherThanUpdates, Update
    <3>3. CASE SaveSettingFails(i) \/ SettingSaved(i)
      <4>1. updates' \in Seq(Update)
        BY <2>1, <3>3, RemoveAtIsSeq DEF SaveSettingFails, SettingSaved
      <4> QED  BY <3>1, <3>3, <4>1 DEF SaveSettingFails, SettingSaved, otherThanUpdates, Update
    <3> QED  BY <2>4, <3>2, <3>3
  <2> QED  BY <1>4, <2>2, <2>3, <2>4 DEF SettingsStep
<1>5. UNCHANGED settingsVars \/ SettingsExit \/ Seed(tx.version) \/ SettingsStep
  BY DEF Next, NewLaunch, Startup, OpenDatabase, CommitMigration, StartServices, UseCredentials,
         UseSettings, Quit, vars
<1> QED  BY <1>1, <1>2, <1>3, <1>4, <1>5

\* Every variable of database, keys, credentials and settings keeps its type.
THEOREM TypesOfApplication == Spec => []TypeOK
<1>1. Init => CredentialsTypeOK /\ SettingsTypeOK /\ launches \in Nat
  <2>1. CredentialsInit => CredentialsTypeOK
    BY EmptySeq DEF CredentialsInit, CredentialsTypeOK
  <2>2. SettingsInit => SettingsTypeOK
    <3>1. Mounted.theme = Dracula /\ Mounted.loading = "asked"
      BY DEF Mounted
    <3>2. SettingsInit => updates \in Seq([value : Themes, stage : {"send", "land"}])
      BY EmptySeq DEF SettingsInit
    <3>3. SettingsInit => /\ stored = None /\ theme \in Themes /\ painted \in Themes
                          /\ loading = "asked" /\ answer = None /\ picks = 0
      BY <3>1, ThemesAssumption DEF SettingsInit
    <3>4. SettingsInit => mixed \in BOOLEAN
      BY Zenon DEF SettingsInit
    <3> QED  BY <3>2, <3>3, <3>4 DEF SettingsTypeOK
  <2> QED  BY <2>1, <2>2 DEF Init
<1>2. ASSUME TypeOK, SecretsInv', MigrationInv', [Next]_vars PROVE TypeOK'
  <2>1. launches' \in Nat
    BY <1>2 DEF TypeOK, Next, NewLaunch, Startup, OpenDatabase, StartServices, UseCredentials,
                UseSettings, Quit, vars
  <2> QED  BY <1>2, <2>1, CredentialTypes, SettingTypes DEF TypeOK, MigrationInv
<1>3. MigrationInv => DatabaseTypeOK
  BY DEF MigrationInv
<1> QED  BY <1>1, <1>2, <1>3, MigrationInit, MigrationStep, SecretsInit, SecretsStep, PTL
         DEF Spec, TypeOK

-----------------------------------------------------------------------------
(* The settings                                                             *)

\* A pick that overlapped nothing: the theme follows what is stored, and only while the
\* pick is under way is it a step behind.
OnePick ==
    \/ /\ updates = <<>>
       /\ loading = "answered" => answer = stored
       /\ loading = "loaded" => theme = stored
    \/ /\ Len(updates) = 1
       /\ loading \in {"loaded", "failed"}
       /\ IF updates[1].stage = "send" THEN loading = "loaded" => theme = stored
          ELSE updates[1].value = stored

\* The service reads the settings only when the first migration has stored the default.
SettingsInv ==
    /\ startup \in {"migrated", "adding", "running"} => recorded = Versions
    /\ recorded # {} => stored # None
    /\ loading \in {"answered", "loaded"} => stored # None
    /\ mixed = FALSE => OnePick

LEMMA SettingsInitially == Init => SettingsInv
<1> SUFFICES ASSUME Init PROVE SettingsInv
  OBVIOUS
<1>1. startup = "off" /\ recorded = {} /\ updates = <<>> /\ loading = "asked"
  BY DEF Init, DatabaseInit, SettingsInit, Mounted
<1> QED  BY <1>1 DEF SettingsInv, OnePick

\* Which steps touch the settings.
LEMMA SettingCases ==
    ASSUME [Next]_vars
    PROVE  \/ Commit /\ recorded' # recorded /\ Seed(tx.version)
           \/ SettingsStep /\ UNCHANGED databaseVars
           \/ SettingsExit /\ Exit
           \/ UNCHANGED settingsVars /\ (recorded' = recorded \/ ~Commit)
<1>1. CASE NewLaunch \/ StartServices \/ UseCredentials \/ Quit
  BY <1>1 DEF NewLaunch, Launch, StartServices, UseCredentials, Quit, GetOrCreateMasterKey,
              QueryKeychain, AddKey, GenerateKey, Services, Fail, databaseVars
<1>2. CASE OpenDatabase
  BY <1>2 DEF OpenDatabase, RunMigrations, CommitMigration, Open, GetAppliedVersions, Begin, Exec,
              Migrated, Fail
<1>3. CASE UseSettings
  BY <1>3 DEF UseSettings
<1>4. CASE UNCHANGED vars
  BY <1>4 DEF vars, databaseVars
<1> QED  BY <1>1, <1>2, <1>3, <1>4 DEF Next, Startup

\* Startup goes past the migrations only when every one is recorded.
LEMMA RunningIsMigrated ==
    ASSUME MigrationInv, SettingsInv, [Next]_vars
    PROVE  /\ startup' \in {"migrated", "adding", "running"} => recorded' = Versions
           /\ recorded' = recorded \/ Commit
<1> USE DEF MigrationInv, DatabaseTypeOK, SettingsInv
<1>1. CASE Launch \/ Open \/ GetAppliedVersions \/ Begin \/ Exec \/ Exit \/ Fail \/ UNCHANGED databaseVars
  BY <1>1 DEF Launch, Open, GetAppliedVersions, Begin, Exec, Exit, Fail, databaseVars
<1>2. CASE Commit
  BY <1>2 DEF Commit, Fail
<1>3. CASE Migrated
  BY <1>3 DEF Migrated
<1>4. CASE /\ tx' = tx /\ startup \in {"migrated", "adding"} /\ startup' \in {"adding", "running"}
           /\ UNCHANGED <<recorded, executed, known>>
  BY <1>4
<1> QED  BY DatabaseCases, <1>1, <1>2, <1>3, <1>4

LEMMA UpdatesUnderWay ==
    ASSUME SettingsTypeOK
    PROVE  /\ updates \in Seq(Update)
           /\ Len(updates) \in Nat /\ DOMAIN updates = 1..Len(updates)
           /\ \A i \in DOMAIN updates : updates[i] \in Update
<1>1. updates \in Seq(Update)
  BY DEF SettingsTypeOK, Update
<1>2. Len(updates) \in Nat /\ DOMAIN updates = 1..Len(updates)
  BY <1>1, LenProperties
<1> QED  BY <1>1, <1>2, ElementOfSeq

\* The steps of the store, one by one.
LEMMA SettingsStepKeeps ==
    ASSUME SettingsTypeOK, SettingsInv, SettingsStep, UNCHANGED databaseVars
    PROVE  /\ recorded' # {} => stored' # None
           /\ loading' \in {"answered", "loaded"} => stored' # None
           /\ mixed' = FALSE => OnePick'
<1>1. updates \in Seq(Update) /\ Len(updates) \in Nat /\ DOMAIN updates = 1..Len(updates)
      /\ \A i \in DOMAIN updates : updates[i] \in Update
  BY UpdatesUnderWay
<1>2. CASE GetSettings
  <2>1. stored # None
    BY <1>2, VersionsAssumption DEF GetSettings, SettingsInv
  <2> QED  BY <1>1, <1>2, <2>1 DEF GetSettings, SettingsInv, OnePick
<1>3. CASE GetSettingsFails
  BY <1>3 DEF GetSettingsFails, SettingsInv, OnePick, databaseVars
<1>4. CASE SettingsLoaded
  BY <1>4 DEF SettingsLoaded, SettingsInv, OnePick, databaseVars
<1>5. CASE ApplyTheme
  BY <1>5 DEF ApplyTheme, SettingsInv, OnePick, databaseVars
<1>6. ASSUME NEW t \in Themes, HandleSelect(t)
      PROVE  /\ recorded' # {} => stored' # None
             /\ loading' \in {"answered", "loaded"} => stored' # None
             /\ mixed' = FALSE => OnePick'
  <2>1. mixed' = (mixed \/ updates # <<>> \/ loading \in {"asked", "answered"})
    BY <1>6 DEF HandleSelect
  <2>2. mixed' = FALSE => mixed = FALSE /\ updates = <<>> /\ loading \notin {"asked", "answered"}
    <3>1. mixed \in BOOLEAN
      BY DEF SettingsTypeOK
    <3> QED  BY <2>1, <3>1, Zenon
  <2>3. UNCHANGED <<stored, theme, loading, answer>>
    BY <1>6 DEF HandleSelect
  <2>4. ASSUME mixed' = FALSE PROVE OnePick'
    <3>1. updates' = Append(updates, [value |-> t, stage |-> "send"])
      BY <1>6 DEF HandleSelect
    <3>2. Len(updates') = 1 /\ updates'[1].stage = "send"
      BY <2>2, <2>4, <3>1
    <3>3. loading \in {"loaded", "failed"} /\ (loading = "loaded" => theme = stored)
      BY <2>2, <2>4 DEF SettingsTypeOK, SettingsInv, OnePick
    <3> QED  BY <2>3, <3>2, <3>3 DEF OnePick
  <2> QED  BY <2>3, <2>4 DEF SettingsInv, databaseVars
<1>7. ASSUME NEW i \in DOMAIN updates, SaveSetting(i) \/ SaveSettingFails(i) \/ SettingSaved(i)
      PROVE  /\ recorded' # {} => stored' # None
             /\ loading' \in {"answered", "loaded"} => stored' # None
             /\ mixed' = FALSE => OnePick'
  <2>1. UNCHANGED <<loading, answer, mixed, recorded>>
    BY <1>7 DEF SaveSetting, SaveSettingFails, SettingSaved, otherThanUpdates, databaseVars
  <2>2. stored' = stored \/ stored' # None
    BY <1>1, <1>7, ThemesAssumption DEF SaveSetting, SaveSettingFails, SettingSaved, Update
  <2>3. ASSUME mixed' = FALSE PROVE OnePick'
    <3>1. OnePick /\ updates # <<>>
      BY <1>1, <2>1, <2>3, EmptySeq DEF SettingsInv
    <3>2. Len(updates) = 1 /\ i = 1
      BY <1>1, <3>1 DEF OnePick
    <3>3. CASE SaveSetting(i)
      <4>1. /\ updates' = [updates EXCEPT ![1] = [updates[1] EXCEPT !.stage = "land"]]
            /\ stored' = updates[1].value
        BY <3>2, <3>3 DEF SaveSetting
      <4>2. LET e == [updates[1] EXCEPT !.stage = "land"]
            IN  e \in Update /\ e.stage = "land" /\ e.value = updates[1].value
        BY <1>1, <3>2 DEF Update
      <4>3. Len(updates') = 1 /\ updates'[1].stage = "land" /\ updates'[1].value = stored'
        BY <1>1, <3>2, <4>1, <4>2, ExceptSeq
      <4> QED  BY <2>1, <3>1, <4>3 DEF OnePick
    <3>4. CASE SaveSettingFails(i) \/ SettingSaved(i)
      <4>1. updates' = <<>>
        <5>1. updates' = RemoveAt(updates, 1)
          BY <3>2, <3>4 DEF SaveSettingFails, SettingSaved
        <5>2. SubSeq(updates, 1, 0) = <<>> /\ SubSeq(updates, 2, 1) = <<>>
          BY <1>1, SubSeqProperties
        <5> QED  BY <3>2, <5>1, <5>2 DEF RemoveAt
      <4>2. (loading = "loaded" => theme' = stored') /\ loading # "answered"
        BY <3>1, <3>2, <3>4 DEF OnePick, SaveSettingFails, SettingSaved, otherThanUpdates
      <4> QED  BY <2>1, <4>1, <4>2 DEF OnePick
    <3> QED  BY <1>7, <3>3, <3>4
  <2> QED  BY <2>1, <2>2, <2>3 DEF SettingsInv
<1> QED  BY <1>2, <1>3, <1>4, <1>5, <1>6, <1>7 DEF SettingsStep

LEMMA SettingsStepInv ==
    ASSUME MigrationInv, SettingsTypeOK, SettingsInv, [Next]_vars
    PROVE  SettingsInv'
<1>1. startup' \in {"migrated", "adding", "running"} => recorded' = Versions
  BY RunningIsMigrated
<1>2. CASE Commit /\ recorded' # recorded /\ Seed(tx.version)
  <2>1. stored' # None
    <3>1. CASE recorded # {}
      BY <1>2, <3>1 DEF SettingsInv, Seed
    <3>2. CASE recorded = {}
      <4>1. \A u \in Versions : tx.version <= u
        BY <1>2, <3>2 DEF MigrationInv, NextVersion, Commit
      <4> QED  BY <1>2, <4>1, ThemesAssumption DEF Seed
    <3> QED  BY <3>1, <3>2
  <2>2. mixed' = FALSE => OnePick'
    <3>1. UNCHANGED <<theme, loading, answer, updates, mixed>>
      BY <1>2 DEF Seed
    <3>2. stored' = stored \/ stored = None
      BY <1>2 DEF Seed
    <3>3. Len(updates) = 1 => updates[1].value # None
      BY UpdatesUnderWay, ThemesAssumption DEF Update
    <3>4. loading \in {"answered", "loaded"} => stored # None
      BY DEF SettingsInv
    <3> QED  BY <3>1, <3>2, <3>3, <3>4 DEF SettingsInv, OnePick
  <2> QED  BY <1>1, <2>1, <2>2 DEF SettingsInv
<1>3. CASE SettingsStep /\ UNCHANGED databaseVars
  BY <1>1, <1>3, SettingsStepKeeps DEF SettingsInv
<1>4. CASE SettingsExit /\ Exit
  <2>1. recorded' = recorded /\ stored' = stored /\ loading' = "asked" /\ updates' = <<>>
    BY <1>4 DEF SettingsExit, Exit, Mounted
  <2> QED  BY <1>1, <2>1 DEF SettingsInv, OnePick
<1>5. CASE UNCHANGED settingsVars /\ (recorded' = recorded \/ ~Commit)
  <2>1. recorded' = recorded
    BY <1>5, RunningIsMigrated
  <2> QED  BY <1>1, <1>5, <2>1 DEF SettingsInv, OnePick, settingsVars
<1> QED  BY <1>2, <1>3, <1>4, <1>5, SettingCases

\* Once everything has returned, what is painted is what the next launch will paint:
\* for any number of launches, failed writes and crashes included, as long as picks and
\* the loading did not overlap (settingsStore.ts, App.tsx).
THEOREM ThemeIsStored == Spec => []ScreenIsStored
<1>1. SettingsTypeOK /\ SettingsInv => ScreenIsStored
  <2>1. SettingsTypeOK /\ SettingsInv /\ ~mixed => OnePick
    <3>1. SettingsTypeOK /\ ~mixed => mixed = FALSE
      BY Zenon DEF SettingsTypeOK
    <3> QED  BY <3>1 DEF SettingsInv
  <2>2. OnePick /\ updates = <<>> /\ loading = "loaded" => theme = stored
    BY EmptySeq DEF OnePick
  <2> QED  BY <2>1, <2>2 DEF ScreenIsStored
<1>2. TypeOK => SettingsTypeOK
  BY DEF TypeOK
<1>3. MigrationInv /\ TypeOK /\ SettingsInv /\ [Next]_vars => SettingsInv'
  BY SettingsStepInv DEF TypeOK
<1> QED
  BY <1>1, <1>2, <1>3, TypesOfApplication, MigrationInit, MigrationStep, SettingsInitially, PTL DEF Spec

-----------------------------------------------------------------------------
(* Application implements Installation.                                     *)

\* No row was encrypted with a key that is still to be generated, and where keys do not
\* last there is one only while the services run.
KeysInv ==
    /\ \A c \in Creds : credentials[c] \in Nat => credentials[c] <= keys
    /\ key \in Nat => key <= keys
    /\ keychain \in Nat => keychain <= keys
    /\ platform = "other" /\ key # None => startup = "running"

\* The credentials the frontend can name were saved once.
Known(call, rows) ==
    /\ call.id # None => rows[call.id] # None
    /\ \A c \in call.rows : rows[c] # None

KnownIds ==
    /\ \A c \in credList : credentials[c] # None
    /\ \A i \in DOMAIN credCalls : Known(credCalls[i], credentials)

LEMMA KeysStep ==
    ASSUME SecretsInv, KeysInv, [Next]_vars
    PROVE  KeysInv'
<1> USE VersionsAssumption, CredsAssumption DEF SecretsInv, KeysInv
<1>1. CASE QueryKeychain
  BY <1>1 DEF QueryKeychain, Services, Fail, credVars
<1>2. CASE AddKey
  BY <1>2 DEF AddKey, Services, Fail, credVars
<1>3. CASE GenerateKey
  BY <1>3 DEF GenerateKey, Services, credVars
<1>4. CASE startup = "running" /\ SaveCredential /\ UNCHANGED <<startup, keyVars>>
  <2>1. PICK d \in Creds : credentials' = [credentials EXCEPT ![d] = key]
    BY <1>4 DEF SaveCredential
  <2>2. ASSUME NEW c \in Creds PROVE credentials'[c] = IF c = d THEN key ELSE credentials[c]
    BY <2>1
  <2> QED  BY <1>4, <2>2 DEF keyVars
<1>5. ASSUME NEW i \in DOMAIN credCalls, DeleteCredential(credCalls[i].id),
             UNCHANGED <<startup, keyVars>>
      PROVE  KeysInv'
  <2> DEFINE d == credCalls[i].id
  <2>1. credentials' = [credentials EXCEPT ![d] = Gone]
    BY <1>5 DEF DeleteCredential
  <2> HIDE DEF d
  <2>2. ASSUME NEW c \in Creds PROVE credentials'[c] \in {Gone, credentials[c]}
    BY <2>1
  <2> QED  BY <1>5, <2>2 DEF keyVars
<1>6. CASE Exit /\ CredentialsExit
  BY <1>6 DEF Exit, CredentialsExit
<1>7. CASE /\ {startup, startup'} \cap {"adding", "running"} = {} \/ startup' = startup
           /\ UNCHANGED <<keyVars, credentials>>
  <2>1. platform = "other" /\ key # None => startup' = "running"
    BY <1>7
  <2> QED  BY <1>7, <2>1 DEF keyVars
<1> QED  BY KeyCases, <1>1, <1>2, <1>3, <1>4, <1>5, <1>6, <1>7

\* A row is never removed; a deleted one is marked.
LEMMA RowsStay ==
    ASSUME SecretsInv, [Next]_vars, NEW c \in Creds, credentials[c] # None
    PROVE  credentials'[c] # None
<1> USE VersionsAssumption, CredsAssumption DEF SecretsInv
<1>1. CASE UNCHANGED credentials
  BY <1>1
<1>2. CASE startup = "running" /\ SaveCredential
  BY <1>2 DEF SaveCredential
<1>3. ASSUME NEW i \in DOMAIN credCalls, DeleteCredential(credCalls[i].id)
      PROVE  credentials'[c] # None
  BY <1>3 DEF DeleteCredential
<1>4. QueryKeychain \/ AddKey \/ GenerateKey \/ CredentialsExit => UNCHANGED credentials
  BY DEF QueryKeychain, AddKey, GenerateKey, CredentialsExit, credVars
<1> QED  BY <1>1, <1>2, <1>3, <1>4, KeyCases

LEMMA KnownIdsStep ==
    ASSUME SecretsInv, CredentialsTypeOK, KnownIds, [Next]_vars
    PROVE  KnownIds'
<1>1. /\ credCalls \in Seq(CredCall) /\ credList \subseteq Creds
      /\ \A i \in DOMAIN credCalls : credCalls[i] \in CredCall /\ Known(credCalls[i], credentials)
  <2>1. credCalls \in Seq(CredCall) /\ credList \subseteq Creds
    BY DEF CredentialsTypeOK, CredCall
  <2>2. \A i \in DOMAIN credCalls : credCalls[i] \in CredCall
    BY <2>1, ElementOfSeq, LenProperties
  <2> QED  BY <2>1, <2>2 DEF KnownIds
<1>2. ASSUME NEW x \in CredCall, Known(x, credentials) PROVE Known(x, credentials')
  BY <1>2, RowsStay DEF CredCall, Known
<1>3. \A c \in credList : credentials'[c] # None
  BY <1>1, RowsStay DEF KnownIds
<1>4. SUFFICES /\ \A c \in credList' : credentials'[c] # None
               /\ \A i \in DOMAIN credCalls' : Known(credCalls'[i], credentials')
  BY DEF KnownIds
<1>5. CASE UNCHANGED <<credList, credCalls>>
  BY <1>1, <1>2, <1>3, <1>5
<1>6. CASE CredentialsExit
  BY <1>6, EmptySeq DEF CredentialsExit
<1>7. CASE UseCredentials
  <2>1. CASE KeyManager
    <3>1. PICK x : credCalls' = Append(credCalls, x) /\ x \in CredCall /\ Known(x, credentials)
      <4>1. CASE LoadCredentials
        <5>1. [op |-> "load", id |-> None, rows |-> {}, stage |-> "list"] \in CredCall
          BY DEF CredCall
        <5> QED  BY <4>1, <5>1 DEF LoadCredentials, Known
      <4>2. CASE AddCredential
        <5>1. [op |-> "save", id |-> None, rows |-> {}, stage |-> "send"] \in CredCall
          BY DEF CredCall
        <5> QED  BY <4>2, <5>1 DEF AddCredential, CredentialOperation, Known
      <4>3. ASSUME NEW c \in Creds, RemoveCredential(c)
            PROVE  \E x : credCalls' = Append(credCalls, x) /\ x \in CredCall /\ Known(x, credentials)
        <5>1. [op |-> "delete", id |-> c, rows |-> {}, stage |-> "send"] \in CredCall
          BY DEF CredCall
        <5>2. credentials[c] # None
          BY <4>3 DEF RemoveCredential, KnownIds
        <5> QED  BY <4>3, <5>1, <5>2 DEF RemoveCredential, CredentialOperation, Known
      <4> QED  BY <2>1, <4>1, <4>2, <4>3 DEF KeyManager
    <3>2. \A i \in DOMAIN credCalls' : credCalls'[i] \in {x} \cup {credCalls[j] : j \in DOMAIN credCalls}
      BY <1>1, <3>1, AppendProperties
    <3>3. credList' = credList
      BY <2>1 DEF KeyManager, LoadCredentials, AddCredential, RemoveCredential, CredentialOperation
    <3> QED  BY <1>1, <1>2, <1>3, <3>1, <3>2, <3>3
  <2>2. ASSUME NEW i \in DOMAIN credCalls, RunCredentialCall(i) \/ ListCredentials(i)
        PROVE  /\ \A c \in credList' : credentials'[c] # None
               /\ \A k \in DOMAIN credCalls' : Known(credCalls'[k], credentials')
    <3>1. PICK x \in CredCall : credCalls' = [credCalls EXCEPT ![i] = x] /\ Known(x, credentials)
      <4>1. CASE RunCredentialCall(i)
        <5>1. credCalls' = [credCalls EXCEPT ![i] = [credCalls[i] EXCEPT !.stage = "list"]]
          BY <4>1 DEF RunCredentialCall
        <5>2. credCalls[i] \in CredCall /\ Known(credCalls[i], credentials)
          BY <1>1
        <5>3. [credCalls[i] EXCEPT !.stage = "list"] \in CredCall
          BY <5>2 DEF CredCall
        <5>4. Known([credCalls[i] EXCEPT !.stage = "list"], credentials)
          BY <5>2 DEF CredCall, Known
        <5> QED  BY <5>1, <5>3, <5>4
      <4>2. CASE ListCredentials(i)
        <5>1. credCalls' = [credCalls EXCEPT ![i] = [credCalls[i] EXCEPT !.stage = "land",
                                                         !.rows = {c \in Creds : Stored(c)}]]
          BY <4>2 DEF ListCredentials
        <5>2. \A c \in Creds : Stored(c) => credentials[c] # None
          BY VersionsAssumption DEF Stored
        <5>3. credCalls[i] \in CredCall /\ Known(credCalls[i], credentials)
          BY <1>1
        <5>4. [credCalls[i] EXCEPT !.stage = "land", !.rows = {c \in Creds : Stored(c)}] \in CredCall
          BY <5>3 DEF CredCall
        <5>5. Known([credCalls[i] EXCEPT !.stage = "land", !.rows = {c \in Creds : Stored(c)}],
                    credentials)
          BY <5>2, <5>3 DEF CredCall, Known
        <5> QED  BY <5>1, <5>4, <5>5
      <4> QED  BY <2>2, <4>1, <4>2
    <3>2. \A k \in DOMAIN credCalls' : k \in DOMAIN credCalls
                                       /\ credCalls'[k] = IF k = i THEN x ELSE credCalls[k]
      BY <3>1
    <3>3. credList' = credList
      BY <2>2 DEF RunCredentialCall, ListCredentials
    <3> QED  BY <1>1, <1>2, <1>3, <3>1, <3>2, <3>3
  <2>3. ASSUME NEW i \in DOMAIN credCalls, CredentialCallFails(i) \/ CredentialsLand(i)
        PROVE  /\ \A c \in credList' : credentials'[c] # None
               /\ \A k \in DOMAIN credCalls' : Known(credCalls'[k], credentials')
    <3>1. credCalls' = RemoveAt(credCalls, i) /\ credList' \in {credList, credCalls[i].rows}
      BY <2>3 DEF CredentialCallFails, CredentialsLand
    <3>2. \A k \in DOMAIN credCalls' : \E j \in DOMAIN credCalls : credCalls'[k] = credCalls[j]
      BY <1>1, <3>1, RemoveAtIsSeq
    <3>3. \A c \in credCalls[i].rows : credentials'[c] # None
      BY <1>1, <1>2 DEF Known
    <3> QED  BY <1>1, <1>2, <1>3, <3>1, <3>2, <3>3
  <2> QED  BY <1>7, <2>1, <2>2, <2>3 DEF UseCredentials, CredentialStep
<1>8. UNCHANGED <<credList, credCalls>> \/ CredentialsExit \/ UseCredentials
  BY DEF Next, NewLaunch, Startup, OpenDatabase, StartServices, GetOrCreateMasterKey, QueryKeychain,
         AddKey, GenerateKey, UseSettings, Quit, vars, credentialVars, credVars
<1> QED  BY <1>5, <1>6, <1>7, <1>8

-----------------------------------------------------------------------------

\* What a row is to the user, told from the key in use.
LEMMA StateOfRow ==
    \A current :
        /\ SecretState(None, current) = "none"
        /\ SecretState(Gone, current) = "gone"
        /\ \A row \in Nat : SecretState(row, current) = IF row = current THEN "readable" ELSE "sealed"
BY VersionsAssumption, CredsAssumption DEF SecretState

\* A step that leaves the rows and the key in use alone shows nothing of itself, as far
\* as secrets go.
LEMMA SecretsSame ==
    ASSUME UNCHANGED <<credentials, CurrentKey>>
    PROVE  UNCHANGED Secrets
BY DEF Secrets

InstalledInv ==
    /\ MigrationInv
    /\ SecretsInv
    /\ TypeOK
    /\ SettingsInv
    /\ KeysInv
    /\ KnownIds

LEMMA InstalledInit == Init => Installed!Init
<1> SUFFICES ASSUME Init PROVE Installed!Init
  OBVIOUS
<1>1. Secrets = [c \in Creds |-> "none"]
  BY StateOfRow DEF Init, CredentialsInit, Secrets
<1> QED  BY <1>1 DEF Init, DatabaseInit, CredentialsInit, SettingsInit, Installed!Init

\* A commit is the whole migration at once.
LEMMA InstalledMigrates ==
    ASSUME InstalledInv, CommitMigration, UNCHANGED credentialVars
    PROVE  [Installed!Next]_(Installed!vars)
<1>1. UNCHANGED Secrets /\ platform' = platform
  BY SecretsSame DEF credentialVars, keyVars, credVars, CurrentKey
<1>2. CASE Fail
  <2>1. startup = "migrating" /\ startup' = "failed" /\ recorded' = recorded /\ executed' = executed
    BY <1>2 DEF CommitMigration, Commit, Fail
  <2>2. stored' = stored
    BY <2>1 DEF CommitMigration, settingsVars
  <2> QED  BY <1>1, <2>1, <2>2 DEF Installed!vars
<1>3. CASE ~Fail
  <2> DEFINE v == tx.version
  <2>1. /\ v \in Versions /\ startup = "migrating" /\ startup' = startup /\ NextVersion(v)
        /\ known = recorded
        /\ recorded' = recorded \cup {v}
        /\ executed' = [executed EXCEPT ![v] = @ + Statements]
    BY <1>3 DEF CommitMigration, Commit, InstalledInv, MigrationInv, DatabaseTypeOK
  <2> HIDE DEF v
  <2>2. v \notin recorded /\ \A u \in Versions \ recorded : v <= u
    BY <2>1 DEF NextVersion
  <2>3. executed[v] = 0 /\ \A u \in Versions : u < v => executed[u] = Statements
    BY <2>1, <2>2, VersionsAssumption DEF InstalledInv, MigrationInv, MigrationsWhole
  <2>4. executed' = [executed EXCEPT ![v] = Statements]
    BY <2>1, <2>3, VersionsAssumption DEF InstalledInv, MigrationInv, DatabaseTypeOK
  <2>5. stored' = IF stored = None THEN Dracula ELSE stored
    <3>1. Seed(v)
      BY <2>1, <2>2 DEF CommitMigration, v
    <3>2. CASE recorded = {}
      BY <2>2, <3>1, <3>2 DEF Seed
    <3>3. CASE recorded # {}
      BY <3>1, <3>3 DEF Seed, InstalledInv, SettingsInv
    <3> QED  BY <3>2, <3>3
  <2>6. Installed!Migrate(v)
    BY <1>1, <2>1, <2>3, <2>4, <2>5 DEF Installed!Migrate
  <2> QED  BY <2>1, <2>6 DEF Installed!Next
<1> QED  BY <1>2, <1>3

\* The services start once the key is known, and with it what can be read.
LEMMA InstalledStarts ==
    ASSUME InstalledInv, StartServices
    PROVE  [Installed!Next]_(Installed!vars)
<1>1. /\ startup \in {"migrated", "adding"} /\ UNCHANGED <<executed, stored, platform, credentials>>
      /\ startup' \in {"adding", "running", "failed"}
  BY DEF StartServices, GetOrCreateMasterKey, QueryKeychain, AddKey, GenerateKey, Services, Fail,
         settingsVars, credVars
<1>2. UNCHANGED Secrets
  <2>1. CASE QueryKeychain
    BY <2>1, SecretsSame DEF QueryKeychain, CurrentKey, credVars
  <2>2. CASE AddKey
    <3>1. platform = "darwin" /\ keychain = None /\ keychain' \in Nat \cup {None}
      BY <2>2 DEF AddKey, InstalledInv, SecretsInv
    <3>2. \A c \in Creds : credentials[c] \in {None, Gone}
      BY <3>1, VersionsAssumption DEF InstalledInv, SecretsInv, Stored
    <3> QED  BY <1>1, <3>2, StateOfRow DEF Secrets
  <2>3. CASE GenerateKey
    <3>1. /\ platform = "other" /\ key = None /\ key' = keys + 1
      BY <2>3 DEF GenerateKey, InstalledInv, KeysInv
    <3>2. ASSUME NEW c \in Creds, credentials[c] \in Nat
          PROVE  credentials[c] # key /\ credentials[c] # key'
      BY <3>1, <3>2, VersionsAssumption DEF InstalledInv, KeysInv, SecretsInv
    <3>3. CurrentKey = key /\ CurrentKey' = key'
      BY <1>1, <3>1 DEF CurrentKey
    <3>4. ASSUME NEW c \in Creds
          PROVE  SecretState(credentials[c], CurrentKey) = SecretState(credentials[c], CurrentKey')
      <4>1. credentials[c] \in Nat \/ credentials[c] = None \/ credentials[c] = Gone
        BY DEF InstalledInv, SecretsInv
      <4> QED  BY <3>2, <3>3, <4>1, StateOfRow
    <3> QED  BY <1>1, <3>4 DEF Secrets
  <2> QED  BY <2>1, <2>2, <2>3 DEF StartServices, GetOrCreateMasterKey
<1>3. CASE startup' = "running"
  <2>1. recorded = Versions
    BY <1>1 DEF InstalledInv, SettingsInv
  <2>2. \A v \in Versions : executed[v] = Statements
    BY <2>1 DEF InstalledInv, MigrationInv, MigrationsWhole
  <2>3. Installed!Start
    BY <1>1, <1>2, <1>3, <2>2 DEF Installed!Start
  <2> QED  BY <2>3 DEF Installed!Next
<1>4. CASE startup' # "running"
  BY <1>1, <1>2, <1>4 DEF Installed!vars
<1> QED  BY <1>3, <1>4

LEMMA InstalledCredentials ==
    ASSUME InstalledInv, UseCredentials
    PROVE  [Installed!Next]_(Installed!vars)
<1>1. UNCHANGED <<startup, executed, stored, platform, keychain, key>>
  BY DEF UseCredentials, databaseVars, keyVars, settingsVars
<1>2. CurrentKey' = CurrentKey
  BY <1>1 DEF CurrentKey
<1>3. CASE credentials' = credentials
  <2>1. UNCHANGED Secrets
    BY <1>2, <1>3, SecretsSame
  <2> QED  BY <1>1, <2>1 DEF Installed!vars
<1>4. ASSUME NEW c \in Creds, NEW row \in Nat \cup {Gone}, startup = "running",
             credentials' = [credentials EXCEPT ![c] = row],
             IF row = Gone THEN credentials[c] # None
                           ELSE row = key /\ credentials[c] = None
      PROVE  [Installed!Next]_(Installed!vars)
  <2>1. credentials \in [Creds -> Nat \cup {None, Gone}]
    BY DEF InstalledInv, SecretsInv
  <2>2. Secrets' = [Secrets EXCEPT ![c] = SecretState(row, CurrentKey)]
    <3>1. \A d \in Creds : credentials'[d] = IF d = c THEN row ELSE credentials[d]
      BY <1>4, <2>1
    <3> QED  BY <1>2, <3>1 DEF Secrets
  <2>3. CASE row = Gone
    <3>1. Secrets[c] # "none"
      BY <1>4, <2>1, <2>3, StateOfRow DEF Secrets
    <3>2. Secrets' = [Secrets EXCEPT ![c] = "gone"]
      BY <2>2, <2>3, StateOfRow
    <3>3. Installed!DeleteSecret(c)
      BY <1>1, <1>4, <3>1, <3>2 DEF Installed!DeleteSecret
    <3> QED  BY <3>3 DEF Installed!Next
  <2>4. CASE row # Gone
    <3>1. row \in Nat /\ row = key /\ credentials[c] = None
      BY <1>4, <2>4
    <3>2. CurrentKey = row
      BY <1>4, <3>1 DEF CurrentKey, InstalledInv, SecretsInv
    <3>3. Secrets[c] = "none" /\ Secrets' = [Secrets EXCEPT ![c] = "readable"]
      BY <2>2, <3>1, <3>2, StateOfRow DEF Secrets
    <3>4. Installed!SaveSecret(c)
      BY <1>1, <1>4, <3>3 DEF Installed!SaveSecret
    <3> QED  BY <3>4 DEF Installed!Next
  <2> QED  BY <2>3, <2>4
<1>5. ASSUME NEW i \in DOMAIN credCalls, RunCredentialCall(i)
      PROVE  [Installed!Next]_(Installed!vars)
  <2>1. startup = "running" /\ key \in Nat
    BY <1>5 DEF RunCredentialCall, InstalledInv, SecretsInv
  <2>2. CASE credCalls[i].op = "save"
    <3>1. PICK c \in Creds : credentials[c] = None /\ credentials' = [credentials EXCEPT ![c] = key]
      BY <1>5, <2>2 DEF RunCredentialCall, SaveCredential
    <3> QED  BY <1>4, <2>1, <3>1, CredsAssumption
  <2>3. CASE credCalls[i].op # "save"
    <3> DEFINE d == credCalls[i].id
    <3>1. credentials' = [credentials EXCEPT ![d] = Gone]
      BY <1>5, <2>3 DEF RunCredentialCall, DeleteCredential
    <3>2. credCalls[i] \in CredCall
      <4>1. credCalls \in Seq(CredCall)
        BY DEF InstalledInv, TypeOK, CredentialsTypeOK, CredCall
      <4> QED  BY <4>1, ElementOfSeq, LenProperties
    <3>3. credCalls[i].stage = "send"
      BY <1>5 DEF RunCredentialCall
    <3>4. d \in Creds \cup {None}
      BY <3>2 DEF CredCall
    <3>5. d # None => credentials[d] # None
      BY DEF InstalledInv, KnownIds, Known
    <3> HIDE DEF d
    <3>6. CASE d \in Creds
      BY <1>4, <2>1, <3>1, <3>5, <3>6, CredsAssumption
    <3>7. CASE d \notin Creds
      <4>1. credentials' = credentials
        BY <3>1, <3>7 DEF InstalledInv, SecretsInv
      <4> QED  BY <1>3, <4>1
    <3> QED  BY <3>6, <3>7
  <2> QED  BY <2>2, <2>3
<1>6. CASE KeyManager
  BY <1>3, <1>6 DEF KeyManager, LoadCredentials, AddCredential, RemoveCredential, CredentialOperation
<1>7. ASSUME NEW i \in DOMAIN credCalls,
             ListCredentials(i) \/ CredentialCallFails(i) \/ CredentialsLand(i)
      PROVE  [Installed!Next]_(Installed!vars)
  BY <1>3, <1>7 DEF ListCredentials, CredentialCallFails, CredentialsLand
<1> QED  BY <1>5, <1>6, <1>7 DEF UseCredentials, CredentialStep

LEMMA InstalledSettings ==
    ASSUME InstalledInv, UseSettings
    PROVE  [Installed!Next]_(Installed!vars)
<1>1. UNCHANGED <<startup, executed, platform, Secrets>>
  BY SecretsSame DEF UseSettings, databaseVars, credentialVars, keyVars, credVars, CurrentKey
<1>2. ASSUME NEW i \in DOMAIN updates, SaveSetting(i) PROVE [Installed!Next]_(Installed!vars)
  <2>1. updates[i].value \in Themes
    BY UpdatesUnderWay DEF InstalledInv, TypeOK, Update
  <2>2. Installed!SetTheme(updates[i].value)
    BY <1>1, <1>2 DEF SaveSetting, Installed!SetTheme
  <2> QED  BY <2>1, <2>2 DEF Installed!Next
<1>3. CASE stored' = stored
  BY <1>1, <1>3 DEF Installed!vars
<1> QED
  BY <1>2, <1>3 DEF UseSettings, SettingsStep, GetSettings, GetSettingsFails, SettingsLoaded,
     ApplyTheme, HandleSelect, SaveSettingFails, SettingSaved

\* Where the key does not last, what was saved is sealed when the process ends.
LEMMA InstalledStops ==
    ASSUME InstalledInv, Quit
    PROVE  [Installed!Next]_(Installed!vars)
<1>1. /\ startup # "off" /\ startup' = "off" /\ key' = None
      /\ UNCHANGED <<executed, stored, platform, keychain, credentials>>
  BY DEF Quit, Exit, CredentialsExit, SettingsExit
<1>2. credentials \in [Creds -> Nat \cup {None, Gone}] /\ platform \in {"darwin", "other"}
  BY DEF InstalledInv, SecretsInv
<1>3. CASE platform = "darwin"
  <2>1. UNCHANGED Secrets
    BY <1>1, <1>3, SecretsSame DEF CurrentKey
  <2>2. Secrets = [c \in Creds |-> Secrets[c]]
    BY DEF Secrets
  <2>3. CASE startup = "running"
    <3>1. Installed!Stop
      BY <1>1, <1>3, <2>1, <2>2, <2>3 DEF Installed!Stop
    <3> QED  BY <3>1 DEF Installed!Next
  <2>4. CASE startup # "running"
    BY <1>1, <2>1, <2>4 DEF Installed!vars
  <2> QED  BY <2>3, <2>4
<1>4. CASE platform = "other"
  <2>1. CurrentKey = key /\ CurrentKey' = None
    BY <1>1, <1>4 DEF CurrentKey
  <2>2. ASSUME NEW c \in Creds
        PROVE  SecretState(credentials[c], None) =
                 IF SecretState(credentials[c], key) = "readable" THEN "sealed"
                 ELSE SecretState(credentials[c], key)
    <3>1. credentials[c] \in Nat \/ credentials[c] = None \/ credentials[c] = Gone
      BY <1>2
    <3> QED  BY <3>1, StateOfRow, VersionsAssumption
  <2>3. Secrets' = [c \in Creds |-> IF Secrets[c] = "readable" THEN "sealed" ELSE Secrets[c]]
    BY <1>1, <2>1, <2>2 DEF Secrets
  <2>4. CASE startup = "running"
    <3>1. Installed!Stop
      BY <1>1, <1>4, <2>3, <2>4 DEF Installed!Stop
    <3> QED  BY <3>1 DEF Installed!Next
  <2>5. CASE startup # "running"
    <3>1. key = None
      BY <1>4, <2>5 DEF InstalledInv, KeysInv
    <3>2. UNCHANGED Secrets
      BY <1>1, <2>1, <3>1, SecretsSame
    <3> QED  BY <1>1, <2>5, <3>2 DEF Installed!vars
  <2> QED  BY <2>4, <2>5
<1> QED  BY <1>2, <1>3, <1>4

LEMMA InstalledStep == InstalledInv /\ [Next]_vars => [Installed!Next]_(Installed!vars)
<1> SUFFICES ASSUME InstalledInv, [Next]_vars PROVE [Installed!Next]_(Installed!vars)
  OBVIOUS
<1>1. CASE NewLaunch
  <2>1. /\ startup = "off" /\ startup' = "opening" /\ UNCHANGED <<executed, stored, platform>>
        /\ UNCHANGED Secrets
    BY <1>1, SecretsSame DEF NewLaunch, Launch, credentialVars, keyVars, credVars, settingsVars,
       CurrentKey
  <2> QED  BY <2>1 DEF Installed!vars
<1>2. CASE OpenDatabase
  <2>1. CASE CommitMigration
    BY <1>2, <2>1, InstalledMigrates DEF OpenDatabase
  <2>2. CASE (Open \/ RunMigrations) /\ UNCHANGED settingsVars
    <3>1. /\ startup # "running" /\ startup' # "running" /\ UNCHANGED <<executed, stored>>
      BY <2>2 DEF Open, RunMigrations, GetAppliedVersions, Begin, Exec, Migrated, Fail, settingsVars
    <3>2. UNCHANGED Secrets /\ platform' = platform
      BY <1>2, SecretsSame DEF OpenDatabase, credentialVars, keyVars, credVars, CurrentKey
    <3> QED  BY <3>1, <3>2 DEF Installed!vars
  <2> QED  BY <1>2, <2>1, <2>2 DEF OpenDatabase
<1>3. CASE StartServices
  BY <1>3, InstalledStarts
<1>4. CASE UseCredentials
  BY <1>4, InstalledCredentials
<1>5. CASE UseSettings
  BY <1>5, InstalledSettings
<1>6. CASE Quit
  BY <1>6, InstalledStops
<1>7. CASE UNCHANGED vars
  <2>1. UNCHANGED <<startup, executed, stored, platform>> /\ UNCHANGED Secrets
    BY <1>7, SecretsSame DEF vars, databaseVars, credentialVars, keyVars, credVars, settingsVars,
       CurrentKey
  <2> QED  BY <2>1 DEF Installed!vars
<1> QED  BY <1>1, <1>2, <1>3, <1>4, <1>5, <1>6, <1>7 DEF Next, Startup

\* Launches that fail or are killed anywhere, transactions, keychain errors and calls
\* under way together keep what Installation promises, for any versions, credentials and
\* themes and any number of launches (app.go, sqlite.go, keychain.go).
THEOREM RefinesInstallation == Spec => ImplementsInstallation
<1>1. Init => KeysInv /\ KnownIds /\ Installed!Init
  BY InstalledInit, EmptySeq, VersionsAssumption
     DEF Init, CredentialsInit, DatabaseInit, KeysInv, KnownIds
<1>2. TypeOK => SettingsTypeOK /\ CredentialsTypeOK
  BY DEF TypeOK
<1>3. MigrationInv /\ SecretsInv /\ TypeOK /\ SettingsInv /\ KeysInv /\ KnownIds => InstalledInv
  BY DEF InstalledInv
<1> QED
  BY <1>1, <1>2, <1>3, TypesOfApplication, MigrationInit, MigrationStep, SecretsInit, SecretsStep,
     SettingsInitially, SettingsStepInv, KeysStep, KnownIdsStep, InstalledStep, PTL
     DEF Spec, ImplementsInstallation, Installed!Spec
=============================================================================
