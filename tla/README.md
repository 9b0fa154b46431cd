# next-terminal: TLA+ models and proofs

next-terminal is a desktop SSH client: a Go backend (`internal/`) and a React frontend
(`frontend/src/`) in one process, joined by Wails. Bound methods carry calls from the frontend to
the backend, and each call runs in a goroutine of its own; events carry messages both ways. This
directory holds models of the parts where goroutines, callbacks, awaits and locks meet, the TLC
runs that check them, and the TLAPS proofs of what matters most for every size.

## 1. Inventory

| Component | State | Operations | What makes it hard | What makes it correct |
|---|---|---|---|---|
| SessionService (`service/session_service.go`) | `activeSessions`, `mu`; rows of `session_history` | StartSession, CloseSession, CloseAllSessions, removeSession, SetTabVisibility | every call in its own goroutine; removal by the pumps, the waiter, the user and the shutdown; a lock held across network closes | one closer per session, no forgotten connection, the end recorded after the end, everyone who waits gets through |
| SSHSessionBridge (`infrastructure/terminal/session.go`) | context, `sync.Once`, visibility, buffer of hidden output | Start, Close, readPump, wait, SetVisible | three goroutines that end each other; errors that are the echo of the own close; a buffer shared by two pumps | own closes are silent, pumps end, output is bounded, ordered and the newest |
| MFA (`infrastructure/ssh/mfa.go`, `App.tsx`, `MfaPrompt.tsx`) | pending challenges by session id, one channel each; one prompt slot | CreateCallback, SubmitResponse, prompt events, the form | timeout against answer; a look-up used after its lock was released; several sessions, one prompt | an answer reaches its own challenge, once; no challenge outlives its dial |
| Tabs (`stores/terminalStore.ts`, `TabBar.tsx`) | tabs, the active one, session ids | openTab, openSftpTab, closeTab, setActiveTab, drag and drop | state written after an await; calls that are sent and forgotten | a closed tab ends its session; the tab in front is open and its output is shown |
| Dialer and jump hosts (`infrastructure/ssh/client.go`, `jump.go`) | a chain of SSH clients | Dial, DialSimple, DialWithJump, TestConnection | partial failure in a chain, ownership of the hops, credentials resolved twice | the chain is whole while it is used, its end is closed after a failure or the session |
| SFTP backend (`service/sftp_service.go`, `infrastructure/sftp/`) | explorers | OpenExplorer, transfers, CloseExplorer, CloseAllExplorers | explorers live on a session's client; transfers outlive them | no explorer on a closed client, nothing half-written reported as done |
| SFTP store (`stores/sftpStore.ts`) | explorers with path and history, transfers | navigateTo, goBack, upload, download, progress events | listings that land out of order or late; progress without an id | the path shown is the one asked for, a transfer is completed by its own end |
| Directory tree (`components/sftp/FileTree.tsx`) | nodes, open paths | mount, toggle, listings | a tree that is replaced by one made from an older rendering | an open node shows its directory |
| Connections, groups (`service/connection_service.go`, `database/connections.go`, `groups.go`, `connectionStore.ts`, `Sidebar.tsx`, `ConnectionForm.tsx`) | two tables, their copies in a store, a form | create, update, soft delete, list; toggling, renaming, editing, jump hosts | rows written whole from what was on the screen, dangling groups, overlapping reloads, swallowed errors | lists come to agree with the tables, an edit undoes nothing else, what exists can be shown |
| Credentials (`service/credential_service.go`, `crypto/`, `credentialStore.ts`, `KeyManager.tsx`) | encrypted rows, the master key, the keychain | save, get, delete, list; GetOrCreateMasterKey | a key that is lost between its making and its storing, errors taken for absence | what was saved can be read back |
| Database (`database/sqlite.go`) | tables, applied versions | Open, RunMigrations | a crash or an error between steps | a migration is applied once and wholly, in order |
| Settings (`service/settings_service.go`, `settingsStore.ts`, `ThemeSelector.tsx`) | one row per setting, their copy in a store, what is painted | load, update | the loading does not wait for Startup, picks overlap it | what is painted is what is stored |
| Terminal widget (`XtermTerminal.tsx`) | the terminal of a tab | mount, output event, unmount | subscribes while output is being emitted | nothing is lost after the mounting |
| Application (`app/app.go`) | the services | Startup, Shutdown, bound methods | the frontend runs before Startup is done, calls still run at the shutdown, crashes | services only on a whole database, everything closed before it |
| Themes, layout, generated bindings | - | - | - | not modelled (section 8) |

**Interaction.** A tab's `openTab` calls StartSession, which dials (perhaps through MFA callbacks
that ask the frontend), starts a bridge, registers it, writes the history row and returns the id
the tab stores. The bridge's pumps send output as events, or buffer it while the tab is hidden. A
session ends by the user (closeTab, CloseSession), by the remote side (waiter and pumps, through
the `onError` callback into `removeSession`), or by the shutdown (CloseAllSessions). SFTP explorers
use the client of a session they do not own. The stores of the frontend call the backend, await the
answer and load their lists again; the backend never tells them of a change by itself.

`PROJECT.json` lists the hazards line by line, each with the properties that watch it.

## 2. Modules

| Module | Models |
|---|---|
| `SessionLifecycle` | the abstract promise about a session: connected once, closed again if the start is refused, listed at most once and after it was connected, withdrawn for good, closed once, its end recorded, if at all, after both |
| `TerminalSession` | SessionService and the goroutines of its bridges: 25 actions, one per critical section, blocking call or return |
| `TerminalSessionProofs` | its inductive invariant, and the refinement of `SessionLifecycle` |
| `OutputBridge` | the output path of one bridge: pumps, visibility, buffer, what is emitted |
| `TerminalScreen` | extends it by the events it emits, each decoded by itself, and the terminal of the tab, which they reach if it is mounted |
| `TerminalScreenProofs` | of `OutputBridge`: lemmas about the newest part of a sequence, and what never gets lost; of `TerminalScreen`: what is on the screen is what was received since, but for characters that were torn, and the refinement of `OutputBridge` |
| `MfaExchange` | the abstract promise about MFA: one challenge of a session at a time, at most one answer to it, used for it alone, lost only when the dial is over |
| `MfaRegistry` | challenges, answers, timeouts, and the one prompt on the screen |
| `TabStore` | the tabs of the frontend against the sessions, visibility flags and explorers of the backend |
| `TabStoreProofs` | a tab is in front, no session is left behind, clicks decide what is shown, for any number of tabs |
| `Dialer` | one dial: the chain of SSH clients through jump hosts, its failures, its end, TestConnection |
| `SshDial` | composes the two for one session: the questions of its target come in the middle of the dial |
| `SshProofs` | of `MfaRegistry`: where the one answer of a challenge can be, and the refinement of `MfaExchange`; of `Dialer`: the chain is whole while it is used, for lists of jump hosts of any length; of `SshDial`: it implements both, and nobody is connected past a question |
| `FileTransfers` | the abstract promise about uploads and downloads: what the list of transfers shows of a file that is made, grows and is whole, and of an outcome |
| `SftpService` | the backend of SFTP: explorers of SftpService, the copy loops of uploads and downloads |
| `SftpStore` | extends it by the frontend: sftpStore's records, listings, transfers and progress events |
| `SftpProofs` | what backend and store agree on, for any number of explorers, transfers and listings; the refinement of `FileTransfers`; what becomes of the tabs as they are |
| `FileTree` | the directory tree beside an explorer |
| `FileTreeProofs` | nodes have the directories they should have, and no answer is lost, for trees of any depth |
| `Catalog` | connections and groups: tables, store, sidebar, form |
| `CatalogProofs` | deletions last, jump lists are sound, lists become true, edits of groups are kept |
| `Database` | opening the database, RunMigrations, crashes |
| `Credentials` | the master key, encrypted rows and their list |
| `Settings` | the theme, from its row to the screen |
| `Installation` | the abstract promise about what is on the disk: each migration at once and in order, secrets that stay readable, a setting, services on the whole schema only |
| `Application` | composes the three before it: Startup, over several launches |
| `ApplicationProofs` | migrations are whole, secrets stay readable, the theme on the screen is stored; the refinement of `Installation` |
| `MCTerminalSession`, `MCOutputBridge` (of `TerminalScreen`), `MCTrim` (of `OutputBridge`), `MCSshDial`, `MCTabStore`, `MCSftpStore`, `MCFileTree`, `MCCatalog`, `MCApplication` | what TLC instantiates |

**How state and actions correspond to the code.**

*TerminalSession.* `start[s]` is the progress of one StartSession: `idle` -> `dialing` -> `dialed` ->
`started` (goroutines running) -> `listed` -> `recorded` -> `returned`, or `failed`. `active` is
the map. `once`, `cancelled` and `conn` are the bridge's `sync.Once`, context and client;
`pump[s][p]` and `waiter[s]` are the program counters of readPump and wait; `caller[s][c]` those of
the frontend's CloseSession calls; `history[s]` is the row. `mu` is not a variable: every critical
section but one is a single step, and CloseAllSessions, the exception, holds it exactly while
`shutdown = "locked"`, so every other critical section has the guard `MuFree`. The body of `once.Do`
is two steps (cancel the context; close session and client), because pumps and waiter look at the
context in between. Which of the callers in Close runs the body makes no difference to the state:
`InClose` says that there is one. The remote side may half-close its output, exit with status 0, or
fail; the SSH library is modelled by what Read and Wait then return. A statement on the history may fail at any
time: an end that could not be written leaves its CloseSession at `unwritten`, and the row as it was.

*OutputBridge.* A unit of output is one byte, named by its stream and position. `shown` is what
`onOutput` was given; `received` is a history variable, the output in the order the pumps handed it
on. PumpDelivers and SetVisible are the two critical sections of the bridge's mutex.

*MfaRegistry.* A challenge is named by its session and round; the code's map has only the session
id. An answer carries the challenge that was on the screen when it was submitted and the one its
text was typed for. LookUp and Send are the two halves of SubmitResponse, around the unlock.

*TabStore.* Each tab opens one session and both have one name. `open[t]` is the progress of openTab
or openSftpTab from await to await. `calls` holds what was sent to the backend without an await, in
no order. `meant` is a history variable: what the clicks want of a session's output, "unsure" where it
hangs on the order of calls. Close Others and Close All call closeTab in a loop without an await, so each is one step; what
is left of the tab bar is given with what is closed. The other modules' view of a session is reduced to
none, live or gone.

*Dialer.* Clients are numbered in the order they are dialled. `top` is the newest, the code's
`currentClient`; `alive` has those whose connection is open, so a client the code forgets stays in
it. `resolve` and `dial` alternate for each hop and the target. A host may end its connection at any
time (`dropped` remembers whose did), and what ran over it breaks. TestConnection reaches Dial with a context that has no session id: it
fails, or panics, and never returns a client.

*SshDial.* The callback is an authentication method of the target, and runs inside `NewClientConn` in the
goroutine of the dial. So `TargetAsks` needs the whole chain, and until the callback has returned the dial does
nothing, even if a hop is lost; `RoundFails` is the dial after the callback's error. The other sessions of
`MfaRegistry`, the prompt and the handlers go on meanwhile (`Elsewhere`).

*SftpService.* OpenExplorer and CloseExplorer are two steps each, around the lock: `opening` has the
explorers with a client and no entry yet, `closing` those whose entry is gone and whose client is
open. Upload and Download share one progress (`transfer`), told apart by `isUpload` only where the
end of the source is seen; `written` counts the chunks in the destination.

*SftpStore.* Each operation of the store is cut at its awaits. `views` are its records; a listing is
in flight in a slot of `requests` from navigateTo's first part to its last (Answer), which runs in
whatever state the store is then in. A record that was deleted and is spread again has no path
(`HollowView`), and a panel that renders it throws (`Crashed`). Two specifications share the actions:
`Spec` has the callers that sftpStore was written for (openExplorer, upload, download), although no
component of the repository calls them, and `AppSpec` the program as it is put together, where a tab
opens its explorer by itself. Safety and transfers are checked of `Spec`, which allows more.

*TerminalScreen.* Whatever `onOutput` is given in one call is one event; `ends` has where those on the way end in
`shown`. An event is made a string by itself (`Decoded`): `Joined` tells which bytes do not end their
character, and a byte whose character the event has not all of, one byte after the other, is shown as
`Damaged`. That is U+FFFD, or by chance another character: the halves of two characters may meet. `torn` is a history variable: the bytes
whose character did not come in one read. `delivered` counts the units of `shown` that the frontend has got;
the runtime delivers one session's events in order. A unit that is delivered while no terminal listens is lost.
`first` remembers how much that was at the mounting. After the unmounting nothing is counted any more.

*FileTree.* A node is known by its path; `Below` gives what is under each, at any depth. `tree` is what was rendered last, `queue` the answers that
React has not rendered yet. `Open` computes a new tree from the rendered one, as `toggleNode` does with
the `tree` of its closure, so what is queued is lost; an answer (`Render`) is applied to the tree there
then is, as `setTree(prev => ...)` is. `spoiled` remembers the nodes this can leave empty.

*Catalog.* An operation of connectionStore is an element of `calls`, at one of three stages: its write
has been sent, its list has been asked for, its list is on the way. Each step may fail, and then the
operation returns as if it had not (`Continue`), because the store swallows errors. `Rows` is what the
two List queries return, `list` the store's copy. A row travels whole: a toggle or a rename sends the
group as the list showed it, a form sends what it has fields for (`tuned` stands for the columns it has
none for). The form is modal; `editing` is the group whose name is being typed. `intent`, `overlapped`
and `stale` are history variables for the properties: what the clicks on each group meant, which
groups had clicks whose outcome was not awaited, and which lists do not hold the last reading.
Connections are read by index of the row, never by text.

*Database, Credentials, Settings, Application.* `startup` is how far Startup is, `off` between two
launches; an early return is `failed`, in which the frontend runs on without services. `tx` is the open
transaction; `executed` and `recorded` are what was committed, and survive `Exit`, which may come
between any two steps. A key is a number and a stored credential is the number of the key it was
encrypted with. `platform` is chosen once: on macOS the key is kept in the keychain, whose answers may
be errors. A setting is picked (`HandleSelect`), written, then shown; `loading` follows the one call of
loadSettings.

The modules also define, just before the action each replaces, variants "to catch": the code with a
plausible bug. None takes part in a specification. For each property there is one that TLC finds to
violate it, so no property holds by the shape of the model alone.

## 3. Runs

| Run | Checks | Bounds, and why they are enough |
|---|---|---|
| `session` | four invariants, refinement of SessionLifecycle, three liveness properties | one session, two CloseSession callers, both pumps. A third caller can only be refused like the second. Sessions share only `mu` and the shutdown; what two of them could do to each other there is left to the theorems, which are for any number |
| `output` | order and loss of output from the pumps to the screen, end of the pumps | limit 4, reads of at most 2, 3 bytes on one stream and 2 on the other, the last two of each one character: the buffer is filled exactly, overflows, and the newest half (2) is larger than the smallest read; a character is read whole or torn by a read, and the other stream's output may come between its halves |
| `trim` | NewestThreeQuartersKept, violated | limit 8, one stream, reads of one byte: the full buffer and one byte more |
| `ssh_dial` | four invariants, refinement of MfaExchange, two liveness properties | two sessions, two rounds each: an answer can be late for its round and another session can take the prompt. One of them over up to three jump hosts: a first, a last and one between, which differs from both |
| `tabs` | three invariants, one liveness property | a terminal tab, an SFTP tab and three clicks: a tab is hidden, shown again and hidden again, and the calls of one click run before, between or after those of the next. Tabs share nothing but the tab bar; what more of them change, "the last one" of several for example, is left to the theorems |
| `sftp` | refinement of FileTransfers, one liveness property | two transfers of one chunk on one explorer: they are completed by each other's events or not at all. One directory and one listing at a time; navigation is the next run's |
| `sftp_nav` | three invariants | a root and a directory, two listings in flight, one modification, one transfer whose refresh lands between; histories of three paths, one more than goBack needs |
| `sftp_blank` | PanelShowsExplorer, violated | one explorer |
| `tree` | two invariants, one liveness property | three directories on two levels and a file, three listings at a time: a parent, its child and a sibling |
| `catalog` | three invariants, one action property, one liveness property | one stored connection, ids for two more, one group with two names; four operations, the first loading included, three at a time: two edits overlap each other or a loading |
| `catalog_lost` | NoConnectionLost, violated | as `catalog`, with one operation less |
| `storage` | two invariants, refinement of Installation | three launches: one that fails half-way, one that saves, one that reads; two migrations of two statements; two credentials, two operations on them, two themes, two picks |

Deadlock is not checked: a system in which every session has ended and nobody opens another one
stops, and rightly so. What must not stop is stated as liveness.

**What the passing runs show.** With any interleaving of two closers, the shutdown, the remote side,
pumps and waiter: one closer gets the bridge; no open connection is forgotten except where the remote
side half-closed it, and no session is listed without a connection except where its shell ended; the end is
recorded after the close, unless the statement fails; closing never reports an error of its own;
Close returns to all who wait in it although one of them holds `mu`. Hidden output is bounded, is
always the newest, and is complete up to the limit; until then no byte is lost on the way to the screen, and
none is damaged but those of a character that no read had whole. An MFA answer reaches the challenge it was
submitted for although it is looked up by session id, is sent after the lock was released, and may
race the timeout. A closed tab that knew its session id ends its session, and
the last click decides what is shown although its calls are not awaited, unless they overlap. Nobody is connected past
a question that was not answered, and a question that is not answered ends its dial. A chain of jump hosts is
never cut by the program while it is used. Every SFTP client is closed once; the list of files is
always that of the path shown; a transfer ends although its session does not tell it of its end, and
its last status is its outcome, which nothing changes any more. The tree never drops the answer that an
open node waits for, unless a click overtakes its rendering.

The lists of the sidebar are the tables as soon as the last reading has landed; no click on a group
undoes another that was awaited; a deleted connection is not brought back by an edit that comes after;
a form does not stay at "Saving...". A crash of Startup leaves every migration whole, and on macOS every
stored secret readable; what is painted is what is stored unless picks overlap.

**What the violated runs show** (quoted with their documents in `PROJECT.json`, findings):

1. `trim`: a full buffer is cut to half of the limit, where the comment speaks of 75%.
2. `sftp_blank`: the list of files of an SFTP tab is never shown; only the tree beside it lists by itself.
3. `catalog_lost`: a connection whose group was deleted is shown nowhere.

**Seen while modelling**, and without a run of its own. Of sessions: an ended session can stay in the
map, because it is registered after its goroutines started (session_service.go:148-150), or because
wait's own Close silences the pump that would have removed it (session.go:152, 197). A tab closed while
connecting leaves its session running (terminalStore.ts:51-55, 108); a tab that comes to the front because
another was closed, or whose two visibility calls swap, keeps its output hidden (terminalStore.ts:112-115,
124-130). The hops before the last one are never closed (jump.go:45), and their keepAlive goroutines run as long as their
hosts answer (client.go:127). TestConnection dials with a context
without a session id and cannot succeed (client.go:32). The last output of a shell that exits by itself
can be cut off (session.go:152), and a character that two reads share is shown as replacement characters
(session.go:210); the end of a session is not written if the statement fails, and nobody hears of it
(session_service.go:209); the MFA challenge of a second session replaces the prompt of the first
(App.tsx:37), and the form keeps what was typed for it (MfaPrompt.tsx:21).

Of files: goBack appends the path it goes back to, so a second goBack stays (sftpStore.ts:155-167); a
listing that lands after its explorer was closed makes a record without a path, whose panel cannot be
rendered (sftpStore.ts:138-144); a directory whose listing failed is shown as empty and not asked for
again (FileTree.tsx:83), and one whose answer was queued when another was opened stays loading (66-74).

Of the catalogue: an edit of a connection clears what the form has no field for, keep-alive and timeout
among it, and a password that was left empty although the form says that this keeps it
(ConnectionForm.tsx:48-63, 197; connections.go:103); a form that is cancelled while it saves and opened
for another connection is closed by the first one's answer (ConnectionForm.tsx:73); two overlapping reloads may leave the older
list (connectionStore.ts:40-57). KeyManager, where credentials are added, is mounted by no view. Calls
of the frontend that come before Startup is done fail, and the first lists and settings are then not
asked for again.

## 4. Fairness

Weak fairness, on each goroutine by itself: Go's scheduler runs what can run. It is assumed of the
rest of StartSession after the dial, of a dial whose MFA callback returned an error, of SFTP calls on a
connection that is gone (every read and write fails), of the closing of an explorer, of pumps, waiter
and Close, of a CloseSession that has found its session, of the shutdown once it holds the lock, of the MFA timer and callback, of event delivery,
of the frontend's event loop and React's rendering, and of the answers of the backend to the calls of
the stores and of the tree, with an error or without. In the tabs it is assumed of CloseSession calls
only, which end however their session is. It is *not* assumed of dials (a handshake has no deadline), of
visibility calls, of Startup, of the remote side, of PumpReads (a remote need not send), of an SFTP server's
answers (but in `tree`, which asks what becomes of them), or of anything the user does. Strong fairness is
nowhere needed: the only lock that is held over other steps is released by a process that waits for
no lock.

## 5. Proofs

All theorems are for arbitrary sets of sessions, pumps, callers, connections, versions, directories and so
on, and arbitrary limits. Every invariant a run checks is proved, and so are the refinements of the five
abstract specifications: `SessionLifecycle`, `OutputBridge` (by TerminalScreen), `MfaExchange`,
`FileTransfers` and `Installation`. Type correctness is proved of every module with theorems; of
TerminalScreen as part of its invariant.

*TerminalSessionProofs.* The invariant of the runs is not inductive: that an error comes from the
remote side needs to know that the client is closed only after the context was cancelled; that an
ended session is off the list needs to know that an id is registered once, before it is returned. The
inductive invariant adds these: how `once`, the context and the connection depend on each other, which
goroutines run at which stage of StartSession, and that a caller past "closing" found the body of
Close done. One lemma per conjunct shows that it is preserved, one step per action. `ListedAreConnected`
is the other half of `NoOrphans`; its part of the invariant (`EndedInv`) follows a close back to what began
it: the end of the shell, a CloseSession that had the id deleted, or the shutdown. `Refinement` follows: each step is a step of SessionLifecycle or leaves its three variables alone.

*TerminalScreenProofs*, of `OutputBridge`. The argument is about `Newest(n, q)`, the last n elements of q: the newest of a
concatenation is the newest of the second part, or the second part behind some newest of the first.
With the buffer always `Newest(Len(outputBuffer), received)`, what a trim keeps is again the newest,
and the screen followed by the buffer ends in the newest half. The assumption `SizesAssumption` (a
read fits into the half a trim frees: 4096 against 128 KB) is what bounds the buffer after a trim.

*SshProofs*, of `MfaRegistry`. The code finds a challenge by session id alone. The inductive invariant says that
whatever is on its way was asked, that every round but the last one was answered, and that a challenge
is at one place at a time (its event, the screen, an answer, a handler, the channel, the callback). So
an answer that is still on its way cannot be for an earlier round, and `FindsOwnChallenge` follows: the
handler finds the challenge that was answered. Each action is a lemma that moves one challenge from
its place to the next. `RefinesExchange` maps the places to the three that the abstract exchange tells apart
(to be answered, on the way, used). That a late answer is lost only when its dial is over needs one more
invariant (`OpenUnused`): the open challenge has no used answer yet.

*TabStoreProofs.* That a tab is in front rests on what the tab bar is after each operation: the lemmas say
which tabs are left, and that they are still distinct, when one is taken out or put in elsewhere. That no
session is left behind needs what a tab in the bar knows of its session (`Progress`): one whose session
is being started is in the bar, or was closed without a session id and then counts as `abandoned`. For
`ClicksAreObeyed` the invariant (`ClicksInv`) says that what is under way for a session agrees with what the
clicks mean, unless that is unsure, and that calls are made only for sessions that were started, so none
meets the new bridge, which is visible.

*SshProofs*, of `Dialer`. Every client is dialled through the one before, and only the newest is ever closed by
the program. The invariant adds to this how far the dial is (`Progress`), and that no client is open
that was not dialled.

*SshProofs*, of `SshDial`. Every step is one of `MfaRegistry` or leaves its variables alone, and one of `Dialer` or leaves
its variables alone, so the invariants of both hold of the composition. `ConnectedAnswered` joins them: that every
round but the open one was answered, and that none is open when the target accepts.

*SftpProofs.* Three invariants that hardly need each other. The backend's: an open client is in one of
`opening`, `explorers`, `closing`. The transfers': a copy loop that ended well wrote the whole file,
and no event reports more than was written. The store's: a record without a path is one of an explorer
that was closed and will not be opened again, so a listing of no path never lands in a record that is
shown; `NavigateKeeps` is the lemma for all who start a listing. `RefinesTransfers` maps the chunks of a file
to absent, partial or whole: only the last chunk, and only the event that reports it, are steps of
`FileTransfers`. Two theorems are about `AppSpec`: `PanelsStayBlank` shows of every explorer and every behaviour
what the run `sftp_blank` finds with one, and `TabsAccountForClients` that the backend is right all the same.

*FileTreeProofs.* The directories are a tree of any depth, given by the constant `Parent`. The provers do not do
induction on it, so `Below`, what is under a node, is defined as the least closed set, and everything
that is said of subtrees follows from its being closed. The invariant says that the children of a node are the
directories of its directory or there are none, that only a loaded node has children, and that a node is
answered once, unless it was opened again while it was being listed: then all that is below it is `spoiled`,
its nodes and their answers lost to the tree that replaces them. `AnswersAreKept` is the half of
`OpenNodesLoad` that is about safety.

*TerminalScreenProofs*, of `TerminalScreen`. What the terminal shows is a stretch of what was emitted, glyph by byte: from
`first` to `delivered` (`ScreenIsStretch`). `CharactersInv` says that a character which came in one read stays whole
wherever it is, in its chunk, the buffer or its event, as long as nothing was trimmed: a buffer that is flushed is a
sequence of reads, and no event ends inside one. Behind it come the events on the way and the buffer, and up to the limit
of the buffer these are what was received, which is `NoLossBelowLimit` of the bridge; so the steps of the
bridge need only its own invariant. `ScreenImplementsBridge` projects: every step of the composition is
one of the bridge or leaves its variables alone, so the theorems of `OutputBridge` hold in it.

*CatalogProofs.* `DeletedStaysDeleted` needs only types: an update writes no deleted row. That no list of
jump hosts names its own connection is about the future: a list is made in the form of a new connection
before its id exists. The invariant (`JumpsInv`) says that every list anywhere - in a table, a store, the
form, an operation under way, a reading that has not landed - names only rows that exist, and an id is
fresh when its row is created. `ListsInv` says that a list which holds the last reading, or the last
reading on its way to one, equals the table unless some operation will still read that table: a write is
always followed by a reading, even if other operations read or land between. Removing an operation from the
middle of `calls` renumbers the others; the lemmas about `Returned` and `RemoveAt` carry the invariants
over. `GroupEditsAreKept` stands on `ListsInv`: a click that waited sees the group as it is. Its invariant
(`EditInv`) says that such a group is what the clicks made it or that an operation under way will make it
so, that each one under way writes just that, and that only stored groups are named anywhere, so that no
creation meets a write that is still to come. It needs an assumption the model checker could not have
asked for: a deleted group is told from one that never was (`None # Gone`; ids are not used again).

*ApplicationProofs.* `MigrationsWhole` is nearly inductive: it needs that what is `known` was recorded,
and that the open transaction is the smallest version not yet known. For `SecretsReadable` the
invariant says that on macOS every row was encrypted with the key in the keychain, that a row implies that there is one, and that services
run only with it: the key is stored before it is used. `ThemeIsStored` joins two modules: the settings
are read only when the services run, so all migrations are recorded, and the first of them stored the
default (`Versions # {}`: there is 001_init_schema). From there a pick is a step of its own (`OnePick`):
the theme follows what is stored, and lags only while the pick is under way. `RefinesInstallation` needs two
facts more: a stored secret is readable as long as the platform keeps the key it was encrypted with (`KeysInv`),
and the ids a list shows were stored (`KnownIds`), so that what is deleted was there. A launch, a statement of
a migration, or a call that is sent changes nothing of the installation: only the commit, the statement that
writes a row and the end of a launch do.

Assumptions, all on constants: sizes and bounds are numbers, `None` and `Gone` are no values
(`SizesAssumption`, `RoundsAssumption`, `NoneAssumption`, `HopsAssumption`, `SizeAssumption`,
`PathsAssumption`, `BoundsAssumption`, `NoRecordAssumption`, `StoredAssumption`, `NoRowAssumption`,
`TabsAssumption`, `ClicksAssumption`, `VersionsAssumption`, `CredsAssumption`, `ThemesAssumption`,
`LaunchesAssumption`, `TreeAssumption`). TLC evaluates each of them. There is no axiom and no unproved step.

## 6. What is only model-checked

Liveness: EndedIsClosed, CloseCompletes, ShutdownCompletes, PumpsEnd, ChallengeEnds, AcceptedIsUsed,
ClosedTabEnds, DeadTransfersEnd, SavingEnds, OpenNodesLoad. Properties under fairness are out
of the reach of the prover. So are the three findings as counterexamples; of `sftp_blank` a theorem
(`PanelsStayBlank`) says the same.

## 7. Plan

Done: sessions, output to the screen, MFA in the middle of a dial, tabs, SFTP with its tree, the catalogue, several
launches with migrations, credentials and settings; proofs of every invariant and of five refinements. What is
left, in this order:

1. An abstract specification of the catalogue: tables on which creation, edit and deletion are single steps,
   and lists that are readings of them; `Catalog` implements it.
2. TabStore over SessionLifecycle: a tab's session follows it, with the terminal of TerminalScreen.
3. Updates of a connection while it is being dialled: Dialer reads the row twice (jump.go:50).

## 8. Not modelled

Themes, layout, generated bindings, build files: data or rendering. Of the settings only the theme: no
view changes the others. Of a connection's row the text fields, secrets and timestamps, UpdateLastUsed,
the parent and order of groups. The listing of the history. Input and resizing of a terminal: the runtime
calls the handler of each input event in a goroutine of its own (app.go:86), and in which order they
start is the runtime's. React's double mounting of effects in development builds.
AES-GCM, the OS keychain, SSH and SFTP protocols, SQLite: libraries, modelled by what the code relies
on. Window geometry. keepAlive goroutines: they change no state. What the remote writes is taken to be whole characters, each on one stream.
