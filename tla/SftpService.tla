------------------------------ MODULE SftpService ------------------------------
(***************************************************************************)
(* The backend of SFTP: the explorers of SftpService                       *)
(* (internal/service/sftp_service.go) on the SSH client of one session,    *)
(* and the copy loops of uploads and downloads                             *)
(* (internal/infrastructure/sftp/operations.go).                           *)
(*                                                                         *)
(* An explorer is an SFTP client on a channel of the session's SSH client. *)
(* Every call looks its explorer up under the lock and uses the client     *)
(* after the unlock, so the explorer may be closed meanwhile, and the      *)
(* session may end at any time without the service being told.             *)
(***************************************************************************)
EXTENDS Naturals

CONSTANTS
    Explorers,      \* explorer ids
    Transfers,      \* transfer ids
    Size,           \* chunks of a file
    None

ASSUME SizeAssumption == Size \in Nat \ {0}
ASSUME NoneAssumption == None \notin Explorers \cup 0..Size

VARIABLES
    session,        \* the SSH client of the session: "up" or "gone"
    opening,        \* explorers with a client, not yet in the map
    explorers,      \* SftpService.explorers: the keys
    client,         \* [Explorers -> SftpClient: "none", "open", "closed"]
    closeCalls,     \* CloseSftpExplorer calls that have not run yet
    closing,        \* explorers that CloseExplorer has taken out of the map
    shutdown,       \* CloseAllExplorers has run
    transfer,       \* [Transfers -> progress of Upload or Download]
    of,             \* [Transfers -> the explorer, or None]
    isUpload,       \* [Transfers -> BOOLEAN]
    written         \* [Transfers -> chunks in the destination file, or None]

serviceVars == <<session, opening, explorers, client, closeCalls, closing, shutdown>>
copyVars == <<transfer, of, isUpload, written>>

\* The client still answers.
Works(e) == client[e] = "open" /\ session = "up"

-----------------------------------------------------------------------------
ServiceInit ==
    /\ session = "up"
    /\ opening = {}
    /\ explorers = {}
    /\ client = [e \in Explorers |-> "none"]
    /\ closeCalls = {}
    /\ closing = {}
    /\ shutdown = FALSE
    /\ transfer = [t \in Transfers |-> "idle"]
    /\ of = [t \in Transfers |-> None]
    /\ isUpload = [t \in Transfers |-> TRUE]
    /\ written = [t \in Transfers |-> None]

\* OpenExplorer: a client on the session's SSH client, then the map.
NewClient(e) ==
    /\ session = "up"
    /\ client[e] = "none"
    /\ client' = [client EXCEPT ![e] = "open"]
    /\ opening' = opening \cup {e}
    /\ UNCHANGED <<session, explorers, closeCalls, closing, shutdown, copyVars>>

Register(e) ==
    /\ e \in opening
    /\ opening' = opening \ {e}
    /\ explorers' = explorers \cup {e}
    /\ UNCHANGED <<session, client, closeCalls, closing, shutdown, copyVars>>

\* A bug to catch: the explorer is left in the map.
UnregisterLate(e) ==
    /\ e \in closeCalls
    /\ closeCalls' = closeCalls \ {e}
    /\ closing' = IF e \in explorers THEN closing \cup {e} ELSE closing
    /\ UNCHANGED <<session, opening, explorers, client, shutdown, copyVars>>

\* CloseExplorer: out of the map; unknown ids are refused.
Unregister(e) ==
    /\ e \in closeCalls
    /\ closeCalls' = closeCalls \ {e}
    /\ explorers' = explorers \ {e}
    /\ closing' = IF e \in explorers THEN closing \cup {e} ELSE closing
    /\ UNCHANGED <<session, opening, client, shutdown, copyVars>>

\* Then its client is closed.  If the session has ended the close fails, and nothing
\* is left of the client either.
CloseClient(e) ==
    /\ e \in closing
    /\ closing' = closing \ {e}
    /\ client' = [client EXCEPT ![e] = "closed"]
    /\ UNCHANGED <<session, opening, explorers, closeCalls, shutdown, copyVars>>

\* CloseAllExplorers, under the lock over all of its closes.
Shutdown ==
    /\ ~shutdown
    /\ shutdown' = TRUE
    /\ explorers' = {}
    /\ client' = [e \in Explorers |-> IF e \in explorers THEN "closed" ELSE client[e]]
    /\ UNCHANGED <<session, opening, closeCalls, closing, copyVars>>

\* The session's client is closed, or its connection lost.  (After CloseAllExplorers,
\* the application closes the sessions.)
SessionEnds ==
    /\ session = "up"
    /\ session' = "gone"
    /\ UNCHANGED <<opening, explorers, client, closeCalls, closing, shutdown, copyVars>>

-----------------------------------------------------------------------------
(* Upload and Download                                                     *)

\* The lookup of the explorer.
LookUp(t) ==
    /\ transfer[t] = "called"
    /\ transfer' = [transfer EXCEPT ![t] = IF of[t] \in explorers THEN "opening" ELSE "error"]
    /\ UNCHANGED <<serviceVars, of, isUpload, written>>

\* Source and destination are opened; the destination is created or truncated.
CreateFile(t) ==
    /\ transfer[t] = "opening"
    /\ Works(of[t])
    /\ transfer' = [transfer EXCEPT ![t] = "copying"]
    /\ written' = [written EXCEPT ![t] = 0]
    /\ UNCHANGED <<serviceVars, of, isUpload>>

\* One turn of the loop: a chunk is read and written, and reported.
CopyChunk(t) ==
    /\ transfer[t] = "copying"
    /\ Works(of[t])
    /\ written[t] < Size
    /\ written' = [written EXCEPT ![t] = @ + 1]
    /\ UNCHANGED <<serviceVars, transfer, of, isUpload>>

\* The read returns io.EOF; that of a download is the server's answer.
Finish(t) ==
    /\ transfer[t] = "copying"
    /\ written[t] = Size
    /\ isUpload[t] \/ Works(of[t])
    /\ transfer' = [transfer EXCEPT ![t] = "ok"]
    /\ UNCHANGED <<serviceVars, of, isUpload, written>>

\* A bug to catch: a write that failed is tried again for ever.
RetryForEver(t) ==
    /\ transfer[t] \in {"opening", "copying"}
    /\ Works(of[t])
    /\ transfer' = [transfer EXCEPT ![t] = "error"]
    /\ UNCHANGED <<serviceVars, of, isUpload, written>>

\* Any call on either file fails; what was written stays under the final name.
Fail(t) ==
    /\ transfer[t] \in {"opening", "copying"}
    /\ transfer' = [transfer EXCEPT ![t] = "error"]
    /\ UNCHANGED <<serviceVars, of, isUpload, written>>

Copy(t) == CreateFile(t) \/ CopyChunk(t) \/ Finish(t)

Backend ==
    \/ \E e \in Explorers : Register(e) \/ Unregister(e) \/ CloseClient(e)
    \/ Shutdown \/ SessionEnds
    \/ \E t \in Transfers : LookUp(t) \/ Copy(t) \/ Fail(t)

-----------------------------------------------------------------------------
(* Properties                                                              *)

ServiceTypeOK ==
    /\ session \in {"up", "gone"}
    /\ opening \in SUBSET Explorers
    /\ explorers \in SUBSET Explorers
    /\ client \in [Explorers -> {"none", "open", "closed"}]
    /\ closeCalls \in SUBSET Explorers
    /\ closing \in SUBSET Explorers
    /\ shutdown \in BOOLEAN
    /\ transfer \in [Transfers -> {"idle", "called", "opening", "copying", "ok", "error"}]
    /\ of \in [Transfers -> Explorers \cup {None}]
    /\ isUpload \in [Transfers -> BOOLEAN]
    /\ written \in [Transfers -> 0..Size \cup {None}]

\* The open clients are those of explorers that are being opened, are in the map or are
\* being closed, each in one of these places only: none is forgotten, none is closed
\* twice, and no call finds a closed one in the map.
ClientsAccountedFor ==
    /\ {e \in Explorers : client[e] = "open"} = opening \cup explorers \cup closing
    /\ opening \cap explorers = {}
    /\ (opening \cup explorers) \cap closing = {}
=============================================================================
