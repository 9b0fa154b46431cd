------------------------------- MODULE TabStore -------------------------------
(***************************************************************************)
(* The tabs of the frontend (frontend/src/stores/terminalStore.ts and the  *)
(* tab bar, components/layout/TabBar.tsx) against the sessions they open   *)
(* in the backend.                                                         *)
(*                                                                         *)
(* A handler of the store runs to its next await without interruption.     *)
(* openTab and openSftpTab add a tab and await the backend, so everything  *)
(* else may happen before they go on.  The other calls of the backend are  *)
(* sent and forgotten; the backend runs each in a goroutine of its own, so *)
(* they take effect in any order.                                          *)
(***************************************************************************)
EXTENDS Naturals, SequencesExt

CONSTANTS
    TerminalTabs,   \* the tabs openTab creates, each with a session of its own
    SftpTabs,       \* the tabs openSftpTab creates
    MaxClicks,      \* bound: clicks on tabs
    None            \* no active tab

Tabs == TerminalTabs \cup SftpTabs

ASSUME TabsAssumption == TerminalTabs \cap SftpTabs = {} /\ None \notin Tabs
ASSUME ClicksAssumption == MaxClicks \in Nat

VARIABLES
    tabs,           \* the tabs in the order of the tab bar
    activeTabId,    \* the tab in front, or None
    sessionId,      \* the tabs whose record holds a session id
    open,           \* [Tabs -> progress of openTab / openSftpTab]
    abandoned,      \* history: tabs closed while they had no session id
    clicks,         \* setActiveTab calls so far
    meant,          \* history: [Tabs -> what the clicks want of the session's output]
    calls,          \* calls on the way to the backend: <<operation, tab, click>>
    session,        \* [Tabs -> the session in SessionService]
    visible,        \* [Tabs -> SSHSessionBridge.visible]
    explorers       \* the tabs with an explorer in SftpService

clickVars == <<clicks, meant>>
storeVars == <<tabs, activeTabId, sessionId, abandoned, clickVars, calls>>
backendVars == <<session, visible, explorers>>
vars == <<storeVars, open, backendVars>>

Opened == ToSet(tabs)

-----------------------------------------------------------------------------
Init ==
    /\ tabs = <<>>
    /\ activeTabId = None
    /\ sessionId = {}
    /\ open = [t \in Tabs |-> "idle"]
    /\ abandoned = {}
    /\ clicks = 0
    /\ meant = [t \in Tabs |-> "shown"]
    /\ calls = {}
    /\ session = [t \in Tabs |-> "none"]
    /\ visible = [t \in Tabs |-> TRUE]
    /\ explorers = {}

-----------------------------------------------------------------------------
(* openTab and openSftpTab                                                  *)

\* The new tab is put in front; the tab that was is not told.
OpenTab(t) ==
    /\ open[t] = "idle"
    /\ tabs' = Append(tabs, t)
    /\ activeTabId' = t
    /\ open' = [open EXCEPT ![t] = "starting"]
    /\ UNCHANGED <<sessionId, abandoned, clickVars, calls, backendVars>>

\* The backend's StartSession: a new bridge is visible.
StartSucceeds(t) ==
    /\ open[t] = "starting"
    /\ open' = [open EXCEPT ![t] = "started"]
    /\ session' = [session EXCEPT ![t] = "live"]
    /\ UNCHANGED <<storeVars, visible, explorers>>

StartFails(t) ==
    /\ open[t] = "starting"
    /\ open' = [open EXCEPT ![t] = "failed"]
    /\ UNCHANGED <<storeVars, backendVars>>

\* The await returns the session id: it is stored in the tab's record, if there
\* still is one.  openSftpTab goes on to the explorer either way.
SetSessionId(t) ==
    /\ open[t] = "started"
    /\ sessionId' = sessionId \cup ({t} \cap Opened)
    /\ open' = [open EXCEPT ![t] = IF t \in SftpTabs THEN "exploring" ELSE "ready"]
    /\ UNCHANGED <<tabs, activeTabId, abandoned, clickVars, calls, backendVars>>

\* The backend's OpenSftpExplorer on the tab's session.
ExplorerOpens(t) ==
    /\ open[t] = "exploring"
    /\ session[t] = "live"
    /\ open' = [open EXCEPT ![t] = "explored"]
    /\ explorers' = explorers \cup {t}
    /\ UNCHANGED <<storeVars, session, visible>>

ExplorerFails(t) ==
    /\ open[t] = "exploring"
    /\ open' = [open EXCEPT ![t] = "failed"]
    /\ UNCHANGED <<storeVars, backendVars>>

\* The last await returns the explorer id, or throws: the record says so.
FinishOpen(t) ==
    /\ \/ open[t] = "explored" /\ open' = [open EXCEPT ![t] = "ready"]
       \/ open[t] = "failed" /\ open' = [open EXCEPT ![t] = "error"]
    /\ UNCHANGED <<storeVars, backendVars>>

-----------------------------------------------------------------------------
(* closeTab, also as Close Others and Close All                             *)

\* A bug to catch: only the session in front is closed.
CloseFront(closed) == {<<"close", t, 0>> : t \in closed \cap sessionId \cap {activeTabId}}

\* The calls closeTab makes: only a tab that knows its session closes it.
CloseCalls(closed) == {<<"close", t, 0>> : t \in closed \cap sessionId}

\* A bug to catch: the closed tab stays in front.
CloseKeepsFront(closed, rest) ==
    /\ closed # {}
    /\ calls' = calls \cup CloseCalls(closed)
    /\ tabs' = rest
    /\ activeTabId' = IF rest = <<>> THEN None ELSE activeTabId
    /\ sessionId' = sessionId \ closed
    /\ abandoned' = abandoned \cup (closed \ sessionId)
    /\ UNCHANGED <<open, clickVars, backendVars>>

\* The tabs that are left keep their order.
CloseTabs(closed, rest) ==
    /\ closed # {}
    /\ calls' = calls \cup CloseCalls(closed)
    /\ tabs' = rest
    /\ activeTabId' = IF activeTabId \notin closed THEN activeTabId
                      ELSE IF rest = <<>> THEN None ELSE Last(rest)
    /\ sessionId' = sessionId \ closed
    /\ abandoned' = abandoned \cup (closed \ sessionId)
    /\ UNCHANGED <<open, clickVars, backendVars>>

CloseTab(i) == CloseTabs({tabs[i]}, RemoveAt(tabs, i))

CloseOthers(i) == CloseTabs(Opened \ {tabs[i]}, <<tabs[i]>>)

CloseAll == CloseTabs(Opened, <<>>)

-----------------------------------------------------------------------------
\* Calls of SetTabVisibility for t that have not run yet.
Pending(t) == \E c \in calls : c[1] \in {"show", "hide"} /\ c[2] = t

\* A bug to catch: the tab that comes to the front is taken to be shown already.
HideOnly(old, new) == {<<"hide", u, clicks'>> : u \in {old} \cap sessionId}

\* The calls setActiveTab makes, of tabs that know their session.
VisibilityCalls(old, new) ==
    {<<"hide", u, clicks'>> : u \in {old} \cap sessionId}
        \cup {<<"show", u, clicks'>> : u \in {new} \cap sessionId}

\* What a click on new wants of u, if the outcome does not hang on the order of calls.
Meant(old, new, u) ==
    IF u \notin {old, new} \cap sessionId THEN meant[u]
    ELSE IF old = new \/ Pending(u) THEN "unsure"
    ELSE IF u = new THEN "shown" ELSE "hidden"

\* setActiveTab, called by a click on any tab, the active one included.
SetActiveTab(t) ==
    /\ t \in Opened
    /\ clicks < MaxClicks
    /\ clicks' = clicks + 1
    /\ calls' = calls \cup VisibilityCalls(activeTabId, t)
    /\ meant' = [u \in Tabs |-> Meant(activeTabId, t, u)]
    /\ activeTabId' = t
    /\ UNCHANGED <<tabs, sessionId, open, abandoned, backendVars>>

\* handleDrop: a tab is dragged to another place.
MoveTab(i, j) ==
    /\ {i, j} \subseteq DOMAIN tabs
    /\ i # j
    /\ tabs' = InsertAt(RemoveAt(tabs, i), j, tabs[i])
    /\ UNCHANGED <<activeTabId, sessionId, open, abandoned, clickVars, calls, backendVars>>

-----------------------------------------------------------------------------
(* The backend                                                              *)

\* SetTabVisibility finds the session and sets its flag, or does nothing.
RunVisibility(c) ==
    /\ c \in calls
    /\ c[1] \in {"show", "hide"}
    /\ calls' = calls \ {c}
    /\ IF session[c[2]] = "live"
       THEN visible' = [visible EXCEPT ![c[2]] = (c[1] = "show")]
       ELSE UNCHANGED visible
    /\ UNCHANGED <<tabs, activeTabId, sessionId, open, abandoned, clickVars, session, explorers>>

\* A bug to catch: a session with an explorer refuses to be closed.
CloseUnexplored(c) ==
    /\ c \in calls
    /\ c[1] = "close"
    /\ calls' = calls \ {c}
    /\ session' = IF c[2] \in explorers THEN session
                  ELSE [session EXCEPT ![c[2]] = "gone"]
    /\ UNCHANGED <<tabs, activeTabId, sessionId, open, abandoned, clickVars, visible, explorers>>

\* CloseSession; "session not found" is swallowed by the store.
RunClose(c) ==
    /\ c \in calls
    /\ c[1] = "close"
    /\ calls' = calls \ {c}
    /\ session' = [session EXCEPT ![c[2]] = "gone"]
    /\ UNCHANGED <<tabs, activeTabId, sessionId, open, abandoned, clickVars, visible, explorers>>

\* The remote side ends the session: removeSession.
SessionEnds(t) ==
    /\ session[t] = "live"
    /\ session' = [session EXCEPT ![t] = "gone"]
    /\ UNCHANGED <<storeVars, open, visible, explorers>>

-----------------------------------------------------------------------------
Continue(t) == SetSessionId(t) \/ FinishOpen(t)

Call(c) == RunVisibility(c) \/ RunClose(c)

Calls == {"show", "hide", "close"} \X Tabs \X (0..MaxClicks)

Next ==
    \/ \E t \in Tabs :
        \/ OpenTab(t) \/ StartSucceeds(t) \/ StartFails(t) \/ Continue(t)
        \/ ExplorerOpens(t) \/ ExplorerFails(t)
        \/ SetActiveTab(t) \/ SessionEnds(t)
    \/ \E i \in DOMAIN tabs : CloseTab(i) \/ CloseOthers(i)
    \/ CloseAll
    \/ \E i, j \in DOMAIN tabs : MoveTab(i, j)
    \/ \E c \in Calls : Call(c)

Spec == Init /\ [][Next]_vars

\* The backend runs the CloseSession calls it was sent, each in a goroutine of its own.
\* Nothing is assumed of StartSession, of the event loop, of the visibility calls or of the
\* user.
FairSpec ==
    /\ Spec
    /\ \A t \in Tabs : WF_vars(RunClose(<<"close", t, 0>>))

-----------------------------------------------------------------------------
(* Properties                                                              *)

TypeOK ==
    /\ tabs \in Seq(Tabs)
    /\ IsInjective(tabs)
    /\ activeTabId \in Tabs \cup {None}
    /\ sessionId \in SUBSET Opened
    /\ open \in [Tabs -> {"idle", "starting", "started", "exploring", "explored",
                          "ready", "failed", "error"}]
    /\ abandoned \in SUBSET Tabs
    /\ clicks \in 0..MaxClicks
    /\ meant \in [Tabs -> {"shown", "hidden", "unsure"}]
    /\ calls \in SUBSET Calls
    /\ session \in [Tabs -> {"none", "live", "gone"}]
    /\ visible \in [Tabs -> BOOLEAN]
    /\ explorers \in SUBSET SftpTabs

\* There is a tab in front whenever there are tabs, through every closing, opening,
\* moving and click: the main area is never blank.
ActiveIsOpen ==
    IF tabs = <<>> THEN activeTabId = None ELSE activeTabId \in Opened

\* A session the user can no longer reach is about to be closed, except when its tab
\* was closed while it was still connecting.
LiveIsReachable ==
    \A t \in Tabs :
        session[t] = "live" => \/ t \in Opened
                               \/ <<"close", t, 0>> \in calls
                               \/ t \in abandoned

\* Although visibility calls are sent and forgotten and run in any order, a session's output
\* is shown or buffered as the last click that said anything of it wants, once that call has
\* run; unless the click was on the tab in front, or another call for the session was still
\* under way.
ClicksDecide ==
    \A t \in Tabs :
        session[t] = "live" /\ ~Pending(t) =>
            /\ meant[t] = "shown" => visible[t]
            /\ meant[t] = "hidden" => ~visible[t]

\* Closing a tab that knew its session ends the session, whatever its explorer does.
ClosedTabEnds ==
    \A t \in Tabs :
        session[t] = "live" /\ t \notin Opened \cup abandoned ~> session[t] = "gone"
=============================================================================
