------------------------------ MODULE Installation ------------------------------
(***************************************************************************)
(* What one installation promises to its user over all its launches,       *)
(* without Startup, transactions, calls under way, keys or crashes.  Each   *)
(* migration happens at once, in the order of the versions and for good;    *)
(* the services run only on the whole schema; a secret that was saved can   *)
(* be read until it is deleted, on a platform where keys last, and until    *)
(* the services stop on the others; the theme is the default until one is   *)
(* written.  Application is shown to implement this module.                 *)
(***************************************************************************)
EXTENDS Naturals

CONSTANTS
    Versions,       \* the versions of the migrations
    Statements,     \* how many statements each has
    Creds,          \* ids of credentials
    Themes,         \* ids of themes
    Default,        \* the theme that the first migration inserts
    None            \* no theme yet

VARIABLES
    schema,         \* [Versions -> statements of it that are in the database]
    setting,        \* the theme in the table, or None
    secrets,        \* [Creds -> "none", "readable", "sealed" or "gone"]
    lasting,        \* whether the platform keeps the key
    up              \* whether the services run

vars == <<schema, setting, secrets, lasting, up>>

Init ==
    /\ schema = [v \in Versions |-> 0]
    /\ setting = None
    /\ secrets = [c \in Creds |-> "none"]
    /\ lasting \in BOOLEAN
    /\ up = FALSE

Migrate(v) ==
    /\ ~up
    /\ schema[v] = 0
    /\ \A u \in Versions : u < v => schema[u] = Statements
    /\ schema' = [schema EXCEPT ![v] = Statements]
    /\ setting' = IF setting = None THEN Default ELSE setting
    /\ UNCHANGED <<secrets, lasting, up>>

Start ==
    /\ ~up
    /\ \A v \in Versions : schema[v] = Statements
    /\ up' = TRUE
    /\ UNCHANGED <<schema, setting, secrets, lasting>>

SaveSecret(c) ==
    /\ up
    /\ secrets[c] = "none"
    /\ secrets' = [secrets EXCEPT ![c] = "readable"]
    /\ UNCHANGED <<schema, setting, lasting, up>>

DeleteSecret(c) ==
    /\ up
    /\ secrets[c] # "none"
    /\ secrets' = [secrets EXCEPT ![c] = "gone"]
    /\ UNCHANGED <<schema, setting, lasting, up>>

SetTheme(t) ==
    /\ up
    /\ setting' = t
    /\ UNCHANGED <<schema, secrets, lasting, up>>

Stop ==
    /\ up
    /\ up' = FALSE
    /\ secrets' = [c \in Creds |->
                      IF secrets[c] = "readable" /\ ~lasting THEN "sealed" ELSE secrets[c]]
    /\ UNCHANGED <<schema, setting, lasting>>

Next ==
    \/ \E v \in Versions : Migrate(v)
    \/ Start \/ Stop
    \/ \E c \in Creds : SaveSecret(c) \/ DeleteSecret(c)
    \/ \E t \in Themes : SetTheme(t)

Spec == Init /\ [][Next]_vars
=================================================================================
