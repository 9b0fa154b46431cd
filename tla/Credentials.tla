------------------------------ MODULE Credentials ------------------------------
(***************************************************************************)
(* Saved credentials: the master key (crypto/keychain.go), the encrypted   *)
(* rows (service/credential_service.go, database/credentials.go) and their *)
(* list in the frontend (credentialStore.ts).  KeyManager.tsx, which adds  *)
(* and removes credentials, is modelled though no view shows it yet.       *)
(*                                                                         *)
(* A key is a number, a row is the key its secrets were encrypted with.    *)
(* GCM opens what was sealed with the same key and nothing else.  On macOS *)
(* the key is kept in the keychain, elsewhere each launch has a new one.   *)
(***************************************************************************)
EXTENDS Database, Sequences, SequencesExt

CONSTANTS
    Creds,          \* ids of credentials
    MaxSaves,       \* bound: operations of credentialStore, over all launches
    Gone            \* a credential that was deleted; ids are not used again

ASSUME CredsAssumption ==
    /\ MaxSaves \in Nat
    /\ None \notin Creds
    /\ Gone \notin Nat \cup {None}

VARIABLES
    platform,       \* "darwin" or "other", for good
    keychain,       \* the key in the keychain, or None
    key,            \* the key of this launch's encryptor, or None
    keys,           \* how many keys were ever generated
    credentials,    \* the table: [Creds -> row, None or Gone]
    credList,       \* credentialStore.credentials
    credCalls,      \* its operations under way
    saves           \* how many were started

keyVars == <<platform, keychain, key, keys>>
credVars == <<credentials, credList, credCalls, saves>>
credentialVars == <<keyVars, credVars>>

Stored(c) == credentials[c] \in Nat

CredentialsInit ==
    /\ platform \in {"darwin", "other"}
    /\ keychain = None
    /\ key = None
    /\ keys = 0
    /\ credentials = [c \in Creds |-> None]
    /\ credList = {}
    /\ credCalls = <<>>
    /\ saves = 0

-----------------------------------------------------------------------------
(* GetOrCreateMasterKey and the rest of Startup                             *)

Services == startup' = "running" /\ UNCHANGED <<recorded, executed, known, tx>>

\* A bug to catch: whatever the keychain answers, a key that was not got is made.
QueryOrGenerate ==
    /\ startup = "migrated"
    /\ platform = "darwin"
    /\ \/ /\ keychain # None
          /\ key' = keychain
          /\ keys' = keys
          /\ Services
       \/ /\ key' = keys + 1
          /\ keys' = keys + 1
          /\ startup' = "adding"
          /\ UNCHANGED <<recorded, executed, known, tx>>
    /\ UNCHANGED <<platform, keychain, credVars>>

\* getOrCreateMasterKeyDarwin: only a key that is known not to be there is generated;
\* any other answer of the keychain ends Startup.
QueryKeychain ==
    /\ startup = "migrated"
    /\ platform = "darwin"
    /\ \/ /\ keychain # None
          /\ key' = keychain
          /\ keys' = keys
          /\ Services
       \/ /\ keychain = None
          /\ key' = keys + 1
          /\ keys' = keys + 1
          /\ startup' = "adding"
          /\ UNCHANGED <<recorded, executed, known, tx>>
       \/ Fail /\ UNCHANGED <<key, keys>>
    /\ UNCHANGED <<platform, keychain, credVars>>

\* setKeychainKeyImpl, before the key is used for anything.
AddKey ==
    /\ startup = "adding"
    /\ \/ keychain' = key /\ Services
       \/ Fail /\ UNCHANGED keychain
    /\ UNCHANGED <<platform, key, keys, credVars>>

\* getOrCreateMasterKeyFallback.
GenerateKey ==
    /\ startup = "migrated"
    /\ platform = "other"
    /\ key' = keys + 1
    /\ keys' = keys + 1
    /\ Services
    /\ UNCHANGED <<platform, keychain, credVars>>

GetOrCreateMasterKey == QueryKeychain \/ AddKey \/ GenerateKey

-----------------------------------------------------------------------------
(* credentialStore, from await to await, and the backend's part             *)

\* A connection form or KeyManager is shown.
LoadCredentials ==
    /\ startup # "off"
    /\ saves < MaxSaves
    /\ saves' = saves + 1
    /\ credCalls' = Append(credCalls, [op |-> "load", id |-> None, rows |-> {}, stage |-> "list"])
    /\ UNCHANGED <<credentials, credList>>

\* The form has a new credential, a row of the list its bin.
CredentialOperation(op, c) ==
    /\ startup # "off"
    /\ saves < MaxSaves
    /\ saves' = saves + 1
    /\ credCalls' = Append(credCalls, [op |-> op, id |-> c, rows |-> {}, stage |-> "send"])
    /\ UNCHANGED <<credentials, credList>>

AddCredential == CredentialOperation("save", None)

RemoveCredential(c) == c \in credList /\ CredentialOperation("delete", c)

KeyManager == LoadCredentials \/ AddCredential \/ \E c \in Creds : RemoveCredential(c)

\* SaveCredential of a credential without an id: encrypted, then inserted.
SaveCredential ==
    \E c \in Creds :
        /\ credentials[c] = None
        /\ credentials' = [credentials EXCEPT ![c] = key]

DeleteCredential(c) == credentials' = [credentials EXCEPT ![c] = Gone]

RunCredentialCall(i) ==
    /\ startup = "running"
    /\ credCalls[i].stage = "send"
    /\ IF credCalls[i].op = "save" THEN SaveCredential ELSE DeleteCredential(credCalls[i].id)
    /\ credCalls' = [credCalls EXCEPT ![i].stage = "list"]
    /\ UNCHANGED <<credList, saves>>

\* The backend's ListCredentials: no secrets.
ListCredentials(i) ==
    /\ startup = "running"
    /\ credCalls[i].stage = "list"
    /\ credCalls' = [credCalls EXCEPT ![i].stage = "land", ![i].rows = {c \in Creds : Stored(c)}]
    /\ UNCHANGED <<credentials, credList, saves>>

\* The call fails: it came before Startup was done, or the database has an error.
CredentialCallFails(i) ==
    /\ credCalls[i].stage \in {"send", "list"}
    /\ credCalls' = RemoveAt(credCalls, i)
    /\ UNCHANGED <<credentials, credList, saves>>

CredentialsLand(i) ==
    /\ credCalls[i].stage = "land"
    /\ credList' = credCalls[i].rows
    /\ credCalls' = RemoveAt(credCalls, i)
    /\ UNCHANGED <<credentials, saves>>

CredentialStep ==
    \/ KeyManager
    \/ \E i \in DOMAIN credCalls :
        \/ RunCredentialCall(i) \/ ListCredentials(i) \/ CredentialCallFails(i) \/ CredentialsLand(i)

\* The process ends, and with it the key in its memory and the frontend.
CredentialsExit ==
    /\ key' = None
    /\ credList' = {}
    /\ credCalls' = <<>>
    /\ UNCHANGED <<platform, keychain, keys, credentials, saves>>

-----------------------------------------------------------------------------
(* Properties                                                              *)

CredentialsTypeOK ==
    /\ platform \in {"darwin", "other"}
    /\ keychain \in Nat \cup {None}
    /\ key \in Nat \cup {None}
    /\ keys \in Nat
    /\ credentials \in [Creds -> Nat \cup {None, Gone}]
    /\ credList \subseteq Creds
    /\ credCalls \in Seq([op : {"load", "save", "delete"}, id : Creds \cup {None},
                         rows : SUBSET Creds, stage : {"send", "list", "land"}])
    /\ \A i \in DOMAIN credCalls : credCalls[i].op = "delete" => credCalls[i].id # None
    /\ saves \in Nat

\* GetCredential: the secret fields open under this launch's key.
Readable(c) == credentials[c] = key

\* On macOS what was saved can be read back for good, through crashes of Startup between
\* the keychain's answer and the key's storing, errors of the keychain and new launches.
\* Elsewhere no launch can read what another one saved.
SecretsReadable ==
    startup = "running" /\ platform = "darwin" =>
        \A c \in Creds : Stored(c) => Readable(c)
=============================================================================
