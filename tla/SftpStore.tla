------------------------------- MODULE SftpStore -------------------------------
(***************************************************************************)
(* The frontend's view of SFTP: the explorers and transfers of             *)
(* frontend/src/stores/sftpStore.ts, on top of the backend of SftpService. *)
(*                                                                         *)
(* Each operation of the store is a sequence of steps between awaits, and  *)
(* any number of them run at once.  An answer is handled when it arrives,  *)
(* in whatever state the store is then, and answers arrive in any order.   *)
(*                                                                         *)
(* No component calls openExplorer, upload or download: an SFTP tab opens  *)
(* its explorer by itself (terminalStore.ts).  Spec is the store with the  *)
(* callers it was written for, AppSpec the program as it is put together.  *)
(***************************************************************************)
EXTENDS SftpService, SequencesExt

CONSTANTS
    Paths, Root,    \* directories
    Parent,         \* [Paths -> Paths]
    Requests,       \* slots for listings in flight
    MaxHistory,     \* bound: length of a history
    MaxChanges      \* bound: mkdir, remove and rename calls in flight

ASSUME BoundsAssumption == MaxHistory \in Nat /\ MaxChanges \in Nat
ASSUME PathsAssumption == Root \in Paths /\ Parent \in [Paths -> Paths] /\ None \notin Paths

Statuses == {"in_progress", "completed", "failed"}

Listing == [explorer : Explorers, path : Paths \cup {None},
            answer : {"none", "found", "listing", "error"}]

View == [path : Paths \cup {None}, entries : Paths \cup {None}, loading : BOOLEAN,
         history : Seq(Paths)]

ASSUME NoRecordAssumption == None \notin Statuses \cup Listing \cup View

VARIABLES
    views,          \* explorers of the store: [Explorers -> record, or None]
    panels,         \* the explorers whose SftpPanel is mounted
    requests,       \* [Requests -> SftpListDir call, or None]
    changes,        \* [Explorers -> modifications in flight]
    status,         \* [Transfers -> status of the store's record, or None]
    awaiting,       \* [Transfers -> upload or download awaits its call]
    told            \* [Transfers -> progress events delivered]

viewVars == <<views, requests>>
transferVars == <<status, awaiting, told>>
vars == <<serviceVars, copyVars, viewVars, panels, changes, transferVars>>

\* entries is the path whose listing is shown, None for the empty list at first.
NewView ==
    [path |-> Root, entries |-> None, loading |-> FALSE, history |-> <<Root>>]

\* What spreading the record of a deleted explorer leaves: only what is set beside it.
HollowView == [path |-> None, entries |-> None, loading |-> FALSE, history |-> <<>>]

Init ==
    /\ ServiceInit
    /\ views = [e \in Explorers |-> None]
    /\ panels = {}
    /\ requests = [r \in Requests |-> None]
    /\ changes = [e \in Explorers |-> 0]
    /\ status = [t \in Transfers |-> None]
    /\ awaiting = [t \in Transfers |-> FALSE]
    /\ told = [t \in Transfers |-> 0]

\* A panel cannot show a hollow record: rendering it throws, and the whole frontend is
\* taken down with it.
Crashed == \E e \in panels : views[e] # None /\ views[e].path = None

\* The user can operate the panel of e, and there is something in it.
OnScreen(e) == e \in panels /\ views[e] # None /\ ~Crashed

storeVars == <<panels, changes, transferVars>>

-----------------------------------------------------------------------------
(* Navigation                                                              *)

\* A bug to catch: the path is shown before its listing is there.
NavigateEagerly(e, v, path) ==
    \E r \in Requests :
        /\ requests[r] = None
        /\ Len(v.history) < MaxHistory
        /\ requests' = [requests EXCEPT ![r] = [explorer |-> e, path |-> path, answer |-> "none"]]
        /\ views' = [views EXCEPT ![e] = [v EXCEPT !.path = path, !.loading = TRUE]]

\* The first part of navigateTo, from the record v of e: show the spinner, send the
\* request.
Navigate(e, v, path) ==
    \E r \in Requests :
        /\ requests[r] = None
        /\ Len(v.history) < MaxHistory
        /\ requests' = [requests EXCEPT ![r] = [explorer |-> e, path |-> path, answer |-> "none"]]
        /\ views' = [views EXCEPT ![e] = [v EXCEPT !.loading = TRUE]]

\* navigateTo as a panel calls it; without a record it returns at once.
NavigateTo(e, path) ==
    /\ OnScreen(e)
    /\ Navigate(e, views[e], path)
    /\ UNCHANGED <<serviceVars, copyVars, storeVars>>

\* goUp does nothing at the root.
GoUp(e) ==
    /\ OnScreen(e)
    /\ views[e].path # Root
    /\ Navigate(e, views[e], Parent[views[e].path])
    /\ UNCHANGED <<serviceVars, copyVars, storeVars>>

\* goBack drops the last entry, and navigateTo will append the one before it again.
GoBack(e) ==
    /\ OnScreen(e)
    /\ Len(views[e].history) > 1
    /\ LET history == Front(views[e].history)
       IN  Navigate(e, [views[e] EXCEPT !.history = history], Last(history))
    /\ UNCHANGED <<serviceVars, copyVars, storeVars>>

\* ListDir looks its explorer up ...
FindExplorer(r) ==
    /\ requests[r] # None /\ requests[r].answer = "none"
    /\ requests' = [requests EXCEPT ![r].answer =
           IF requests[r].explorer \in explorers THEN "found" ELSE "error"]
    /\ UNCHANGED <<serviceVars, copyVars, views, storeVars>>

\* ... and reads the directory after the unlock, which may fail.
ReadDir(r) ==
    /\ requests[r] # None /\ requests[r].answer = "found"
    /\ \E a \in {"listing", "error"} :
        /\ a = "listing" => Works(requests[r].explorer)
        /\ requests' = [requests EXCEPT ![r].answer = a]
    /\ UNCHANGED <<serviceVars, copyVars, views, storeVars>>

\* A bug to catch: the failure is not handled.
DropAnswer(r) ==
    /\ requests[r] # None /\ requests[r].answer \in {"listing", "error"}
    /\ requests' = [requests EXCEPT ![r] = None]
    /\ LET e == requests[r].explorer
           v == views[e]
       IN  views' = [views EXCEPT ![e] =
               IF v # None /\ v.path # None /\ requests[r].answer = "listing"
               THEN [v EXCEPT !.path = requests[r].path, !.entries = requests[r].path,
                              !.loading = FALSE, !.history = Append(@, requests[r].path)]
               ELSE v]
    /\ UNCHANGED <<serviceVars, copyVars, storeVars>>

\* The last part of navigateTo, in the state the store is in by then.  A listing for a
\* record that is gone, or has no history, throws, and the handler of the error makes
\* the record anew from nothing.
Answer(r) ==
    /\ requests[r] # None /\ requests[r].answer \in {"listing", "error"}
    /\ requests' = [requests EXCEPT ![r] = None]
    /\ LET e == requests[r].explorer
           v == views[e]
       IN  views' = [views EXCEPT ![e] =
               IF v = None \/ v.path = None THEN HollowView
               ELSE IF requests[r].answer = "listing"
               THEN [v EXCEPT !.path = requests[r].path, !.entries = requests[r].path,
                              !.loading = FALSE, !.history = Append(@, requests[r].path)]
               ELSE [v EXCEPT !.loading = FALSE]]
    /\ UNCHANGED <<serviceVars, copyVars, storeVars>>

-----------------------------------------------------------------------------
(* Opening and closing an explorer                                         *)

\* openExplorer and openSftpTab both call OpenSftpExplorer first.
CallOpen(e) == NewClient(e) /\ UNCHANGED <<viewVars, storeVars>>

\* openExplorer then makes the record and goes to the root.
OpenExplorer(e) ==
    /\ e \in explorers
    /\ views[e] = None
    /\ e \notin panels
    /\ Navigate(e, NewView, Root)
    /\ UNCHANGED <<serviceVars, copyVars, storeVars>>

\* Its caller shows a panel when openExplorer returns, after the first listing.
ShowPanel(e) ==
    /\ views[e] # None
    /\ e \notin panels
    /\ \A r \in Requests : requests[r] # None => requests[r].explorer # e
    /\ panels' = panels \cup {e}
    /\ UNCHANGED <<serviceVars, copyVars, viewVars, changes, transferVars>>

\* openSftpTab stores the id in its tab, whose panel is then mounted.
OpenTab(e) ==
    /\ e \in explorers
    /\ e \notin panels
    /\ panels' = panels \cup {e}
    /\ UNCHANGED <<serviceVars, copyVars, viewVars, changes, transferVars>>

\* closeExplorer, from the panel's X.  The panel's onClose does nothing: it stays.
CloseExplorer(e) ==
    /\ e \in panels /\ ~Crashed
    /\ closeCalls' = closeCalls \cup {e}
    /\ views' = [views EXCEPT ![e] = None]
    /\ status' = [t \in Transfers |-> IF of[t] = e THEN None ELSE status[t]]
    /\ UNCHANGED <<session, opening, explorers, client, closing, shutdown, copyVars,
                   requests, panels, changes, awaiting, told>>

\* mkdir, remove and rename await the backend, ...
Change(e) ==
    /\ OnScreen(e)
    /\ changes[e] < MaxChanges
    /\ changes' = [changes EXCEPT ![e] = @ + 1]
    /\ UNCHANGED <<serviceVars, copyVars, viewVars, panels, transferVars>>

\* ... then list what is the current path by then, if the explorer is still there; if
\* the call failed they throw.
Changed(e) ==
    /\ changes[e] > 0
    /\ changes' = [changes EXCEPT ![e] = @ - 1]
    /\ \/ views[e] # None /\ Navigate(e, views[e], views[e].path)
       \/ UNCHANGED viewVars
    /\ UNCHANGED <<serviceVars, copyVars, panels, transferVars>>

-----------------------------------------------------------------------------
(* Transfers                                                               *)

\* upload and download: a record, then the call.
Transfer(t, e, up) ==
    /\ transfer[t] = "idle"
    /\ OnScreen(e)
    /\ transfer' = [transfer EXCEPT ![t] = "called"]
    /\ of' = [of EXCEPT ![t] = e]
    /\ isUpload' = [isUpload EXCEPT ![t] = up]
    /\ status' = [status EXCEPT ![t] = "in_progress"]
    /\ awaiting' = [awaiting EXCEPT ![t] = TRUE]
    /\ UNCHANGED <<serviceVars, written, viewVars, panels, changes, told>>

\* A bug to catch: the event is matched without looking at the status.
ProgressAlways(t) ==
    /\ written[t] # None
    /\ told[t] < written[t]
    /\ told' = [told EXCEPT ![t] = @ + 1]
    /\ status' = [u \in Transfers |->
           IF status[u] # None /\ of[u] = of[t] /\ isUpload[u] = isUpload[t]
           THEN IF told'[t] >= Size THEN "completed" ELSE "in_progress"
           ELSE status[u]]
    /\ UNCHANGED <<serviceVars, copyVars, viewVars, panels, changes, awaiting>>

\* A bug to catch: the event is matched by explorer alone.
ProgressBothWays(t) ==
    /\ written[t] # None
    /\ told[t] < written[t]
    /\ told' = [told EXCEPT ![t] = @ + 1]
    /\ status' = [u \in Transfers |->
           IF status[u] = "in_progress" /\ of[u] = of[t] /\ told'[t] >= Size
           THEN "completed"
           ELSE status[u]]
    /\ UNCHANGED <<serviceVars, copyVars, viewVars, panels, changes, awaiting>>

\* The next sftp:transfer-progress event of t: it names explorer and direction, and
\* completes every transfer in progress that matches when it reports the whole size.
Progress(t) ==
    /\ written[t] # None
    /\ told[t] < written[t]
    /\ told' = [told EXCEPT ![t] = @ + 1]
    /\ status' = [u \in Transfers |->
           IF /\ status[u] = "in_progress" /\ of[u] = of[t] /\ isUpload[u] = isUpload[t]
              /\ told'[t] >= Size
           THEN "completed"
           ELSE status[u]]
    /\ UNCHANGED <<serviceVars, copyVars, viewVars, panels, changes, awaiting>>

\* The call returned: the record, if it is still there, gets the outcome.  An upload then
\* lists the current path.
Settle(t) ==
    /\ awaiting[t]
    /\ transfer[t] \in {"ok", "error"}
    /\ awaiting' = [awaiting EXCEPT ![t] = FALSE]
    /\ status' = [status EXCEPT ![t] =
           IF @ = None THEN None ELSE IF transfer[t] = "ok" THEN "completed" ELSE "failed"]
    /\ IF transfer[t] = "ok" /\ isUpload[t] /\ views[of[t]] # None
       THEN Navigate(of[t], views[of[t]], views[of[t]].path)
       ELSE UNCHANGED viewVars
    /\ UNCHANGED <<serviceVars, copyVars, panels, changes, told>>

-----------------------------------------------------------------------------
\* What the components do ...
Components ==
    \/ \E e \in Explorers :
           \/ \E path \in Paths : NavigateTo(e, path)
           \/ GoUp(e) \/ GoBack(e) \/ CloseExplorer(e) \/ Change(e) \/ Changed(e)
    \/ \E r \in Requests : FindExplorer(r) \/ ReadDir(r) \/ Answer(r)

\* ... and what only callers of the rest of the store would.
StoreCallers ==
    \/ \E e \in Explorers : OpenExplorer(e) \/ ShowPanel(e)
    \/ \E t \in Transfers, e \in Explorers, up \in BOOLEAN : Transfer(t, e, up)
    \/ \E t \in Transfers : Progress(t) \/ Settle(t)

BackendStep == Backend /\ UNCHANGED <<viewVars, storeVars>>

Next == BackendStep \/ (\E e \in Explorers : CallOpen(e)) \/ Components \/ StoreCallers

Spec == Init /\ [][Next]_vars

AppNext ==
    \/ BackendStep
    \/ \E e \in Explorers : CallOpen(e) \/ OpenTab(e)
    \/ Components

\* The goroutines of the calls run, and on a connection that is gone every read and
\* write fails.  A server need not answer.
Fairness ==
    /\ \A t \in Transfers :
           /\ WF_vars(LookUp(t) /\ UNCHANGED <<viewVars, storeVars>>)
           /\ WF_vars(Fail(t) /\ ~Works(of[t]) /\ UNCHANGED <<viewVars, storeVars>>)
    /\ \A e \in Explorers :
           /\ WF_vars((Register(e) \/ Unregister(e) \/ CloseClient(e))
                          /\ UNCHANGED <<viewVars, storeVars>>)

FairSpec == Spec /\ Fairness

\* The tabs as they are, where listings are answered too.
AppSpec ==
    /\ Init /\ [][AppNext]_vars /\ Fairness
    /\ \A r \in Requests : WF_vars(FindExplorer(r)) /\ WF_vars(Answer(r))

-----------------------------------------------------------------------------
(* Properties                                                              *)

TypeOK ==
    /\ ServiceTypeOK
    /\ views \in [Explorers -> View \cup {None}]
    /\ panels \in SUBSET Explorers
    /\ requests \in [Requests -> Listing \cup {None}]
    /\ changes \in [Explorers -> 0..MaxChanges]
    /\ status \in [Transfers -> Statuses \cup {None}]
    /\ awaiting \in [Transfers -> BOOLEAN]
    /\ told \in [Transfers -> 0..Size]

\* Whatever order listings, failures and refreshes land in, the list that is shown is one
\* of the path in the path bar, and the way back begins at the root.
ShowsItsPath ==
    \A e \in Explorers : views[e] # None /\ views[e].path # None =>
        /\ views[e].entries = views[e].path \/ (views[e].entries = None /\ views[e].path = Root)
        /\ views[e].history # <<>> /\ views[e].history[1] = Root

\* The spinner turns only while a listing is on its way, although every request turns it
\* on and every answer off.
SpinnerHasRequest ==
    \A e \in Explorers : views[e] # None /\ views[e].loading =>
        \E r \in Requests : requests[r] # None /\ requests[r].explorer = e

\* Once its call has returned, the status of a transfer is what came of it, and progress
\* events that arrive late do not change it.
SettledIsOutcome ==
    \A t \in Transfers : status[t] # None /\ ~awaiting[t] =>
        /\ status[t] = "completed" => transfer[t] = "ok" /\ written[t] = Size
        /\ status[t] = "failed" => transfer[t] = "error"
        /\ status[t] # "in_progress"

\* A transfer that is shown as completed before its file is whole was completed by
\* another one, of the same explorer in the same direction, that is.
EarlyDoneHasTwin ==
    \A t \in Transfers : status[t] = "completed" /\ written[t] # Size =>
        \E u \in Transfers \ {t} :
            of[u] = of[t] /\ isUpload[u] = isUpload[t] /\ written[u] = Size

\* How far a transfer is, and its file, as FileTransfers sees them.
Phase ==
    [t \in Transfers |->
        IF transfer[t] = "idle" THEN "new"
        ELSE IF transfer[t] \in {"ok", "error"} THEN transfer[t] ELSE "under way"]

File ==
    [t \in Transfers |->
        IF written[t] = None THEN "absent" ELSE IF written[t] = Size THEN "whole" ELSE "partial"]

Settled == {t \in Transfers : transfer[t] \in {"ok", "error"} /\ ~awaiting[t]}

Files == INSTANCE FileTransfers WITH
    phase <- Phase, file <- File, settled <- Settled, shown <- status

\* The copy loops, their events and the store's records keep what FileTransfers promises:
\* an early "completed" comes from a like transfer whose file is whole, the outcome of a
\* call replaces it, and no late event, other transfer or later step changes an outcome.
ImplementsTransfers == Files!Spec

\* No transfer hangs on a client that was closed or whose session is gone.
DeadTransfersEnd ==
    \A t \in Transfers :
        transfer[t] \in {"called", "opening", "copying"} /\ ~Works(of[t])
            ~> transfer[t] \in {"ok", "error"}

\* The panel of an SFTP tab comes to show its explorer, unless that is closed
\* or ends first.
PanelShowsExplorer ==
    \A e \in Explorers :
        e \in panels ~> views[e] # None \/ e \in closeCalls \/ ~Works(e) \/ shutdown
=============================================================================
