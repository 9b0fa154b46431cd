-------------------------------- MODULE Catalog --------------------------------
(***************************************************************************)
(* Connections and groups: the two tables (database/connections.go,        *)
(* groups.go), their copies in connectionStore.ts, and the sidebar and the *)
(* form that change them (Sidebar.tsx, ConnectionForm.tsx).                *)
(*                                                                         *)
(* An operation of the store calls the backend, awaits the answer, then    *)
(* loads the list again and awaits that.  Each call of the backend runs in *)
(* a goroutine of its own, so operations overlap and lists land in any     *)
(* order.  A row is written whole, from what the user interface had on the *)
(* screen when the user clicked.                                           *)
(*                                                                         *)
(* The text fields of a connection, password included, are left out.       *)
(* tuned stands for what only CreateConnection fills in: keep-alive,       *)
(* timeout, terminal type and font size.                                   *)
(***************************************************************************)
EXTENDS Naturals, SequencesExt

CONSTANTS
    Conns,          \* ids of connections
    Groups,         \* ids of groups
    Names,          \* names of groups
    StoredConns,    \* the connections of earlier launches
    MaxCalls,       \* bound: operations of the store in one launch
    MaxOverlap,     \* bound: operations under way at the same time
    None,           \* no row, no group, no form
    Gone            \* a group that was deleted; ids are not used again

ASSUME StoredAssumption ==
    /\ StoredConns \subseteq Conns
    /\ MaxCalls \in Nat
    /\ Names # {}
    /\ None # Gone
    /\ {None, Gone} \cap (Conns \cup Groups \cup Names) = {}

ConnRow ==
    [group : Groups \cup {None}, jumps : Seq(Conns), tuned : BOOLEAN, deleted : BOOLEAN]

GroupRow == [name : Names, isExpanded : BOOLEAN]

ASSUME NoRowAssumption == \A r \in {None, Gone} : r \notin ConnRow /\ r \notin GroupRow

VARIABLES
    connections,    \* the table connections: [Conns -> row or None]
    groups,         \* the table groups: [Groups -> row, None or Gone]
    list,           \* the store: list.connections and list.groups, as last loaded
    calls,          \* the operations of the store under way, in the order of their start
    started,        \* how many were started
    stale,          \* history: the lists that do not hold the last reading
    form,           \* the connection form, or None
    editing,        \* the group whose name is being edited, or None
    intent,         \* history: the groups as the user's clicks left them
    overlapped      \* history: groups with a click whose outcome was not awaited

vars == <<connections, groups, list, calls, started, stale, form, editing, intent, overlapped>>

tableVars == <<connections, groups>>
listVars == <<list, stale>>
callVars == <<calls, started>>
clickVars == <<intent, overlapped>>

Tables == {"connections", "groups"}

Call(o, t, i, r) ==
    [op |-> o, table |-> t, id |-> i, row |-> r, stage |-> "send", rows |-> None, newest |-> FALSE]

Loading(t) == [Call("load", t, None, None) EXCEPT !.stage = "list"]

InFlight(t) == {i \in DOMAIN calls : calls[i].table = t}

Row(r) == r \notin {None, Gone}

Live(c) == Row(connections[c]) /\ ~connections[c].deleted

\* What ListConnections and ListGroups return.
Rows(t) ==
    IF t = "groups" THEN [g \in Groups |-> IF Row(groups[g]) THEN groups[g] ELSE None]
    ELSE [c \in Conns |-> IF Live(c) THEN connections[c] ELSE None]

FirstName == CHOOSE n \in Names : TRUE

FreshGroup(n) == [name |-> n, isExpanded |-> TRUE]

FreshRow(g) == [group |-> g, jumps |-> <<>>, tuned |-> TRUE, deleted |-> FALSE]

-----------------------------------------------------------------------------
\* The sidebar is mounted: both lists are empty, and being loaded.
Init ==
    /\ \E stored \in SUBSET Groups :
        /\ groups = [g \in Groups |-> IF g \in stored THEN FreshGroup(FirstName) ELSE None]
        /\ \E of \in [StoredConns -> stored \cup {None}] :
            connections = [c \in Conns |-> IF c \in StoredConns THEN FreshRow(of[c]) ELSE None]
    /\ list = [connections |-> [c \in Conns |-> None], groups |-> [g \in Groups |-> None]]
    /\ calls = <<Loading("connections"), Loading("groups")>>
    /\ started = 2
    /\ stale = Tables
    /\ form = None
    /\ editing = None
    /\ intent = groups
    /\ overlapped = {}

-----------------------------------------------------------------------------
(* The backend                                                              *)

CreateConnection(row) ==
    \E c \in Conns :
        /\ connections[c] = None
        /\ connections' = [connections EXCEPT ![c] = [row EXCEPT !.tuned = TRUE]]

\* A bug to catch: an edited row is written whether or not it is still there.
UpdateAnyway(c, row) == connections' = [connections EXCEPT ![c] = row]

\* UPDATE ... WHERE id=? AND deleted_at IS NULL; no row is no error.
UpdateConnection(c, row) ==
    connections' = IF Live(c) THEN [connections EXCEPT ![c] = row] ELSE connections

SoftDelete(c) ==
    connections' = IF connections[c] = None THEN connections
                   ELSE [connections EXCEPT ![c].deleted = TRUE]

SaveConnection(c, row) ==
    IF c = None THEN CreateConnection(row) ELSE UpdateConnection(c, row)

CreateGroup(row) ==
    \E g \in Groups :
        /\ groups[g] = None
        /\ groups' = [groups EXCEPT ![g] = row]
        /\ intent' = [intent EXCEPT ![g] = row]

UpdateGroup(g, row) ==
    /\ groups' = IF Row(groups[g]) THEN [groups EXCEPT ![g] = row] ELSE groups
    /\ UNCHANGED intent

SaveGroup(g, row) == IF g = None THEN CreateGroup(row) ELSE UpdateGroup(g, row)

\* DELETE FROM groups: the connections in the group keep its id.
DeleteGroup(g) == groups' = [groups EXCEPT ![g] = Gone] /\ UNCHANGED intent

Write(call) ==
    \/ /\ call.table = "connections"
       /\ IF call.op = "save" THEN SaveConnection(call.id, call.row) ELSE SoftDelete(call.id)
       /\ UNCHANGED <<groups, intent>>
    \/ /\ call.table = "groups"
       /\ IF call.op = "save" THEN SaveGroup(call.id, call.row) ELSE DeleteGroup(call.id)
       /\ UNCHANGED connections

-----------------------------------------------------------------------------
(* The operations of connectionStore, from await to await                   *)

\* handleDeleteGroup loads the connections when removeGroup has returned.
Returned(i, cs) ==
    IF calls[i].op = "delete" /\ calls[i].table = "groups"
    THEN [cs EXCEPT ![i] = Loading("connections")]
    ELSE RemoveAt(cs, i)

\* A bug to catch: only an operation without an error goes on to close the form.
ContinueOnSuccess(i, cs) ==
    /\ calls' = Returned(i, cs)
    /\ form' = IF calls[i].op = "save" /\ calls[i].table = "connections" /\ calls[i].stage = "land"
               THEN None ELSE form

\* What the caller of the operation does when it returns.  An error was swallowed by
\* the operation.  handleSubmit closes whatever form is open by now.
ContinueWith(i, cs) ==
    /\ calls' = Returned(i, cs)
    /\ form' = IF calls[i].op = "save" /\ calls[i].table = "connections" THEN None ELSE form

Continue(i) == ContinueWith(i, calls)

\* A bug to catch: the list is not loaded again.
WriteWithoutReload(i) ==
    /\ calls[i].stage = "send"
    /\ Write(calls[i])
    /\ Continue(i)
    /\ UNCHANGED <<started, listVars, editing, overlapped>>

\* The backend has written; the store goes on to load the list.
SendSucceeds(i) ==
    /\ calls[i].stage = "send"
    /\ Write(calls[i])
    /\ calls' = [calls EXCEPT ![i].stage = "list", ![i].row = None]
    /\ UNCHANGED <<started, listVars, form, editing, overlapped>>

\* The backend returns an error: nothing is loaded.
SendFails(i) ==
    /\ calls[i].stage = "send"
    /\ Continue(i)
    /\ overlapped' = IF calls[i].table = "groups" THEN overlapped \cup ({calls[i].id} \ {None}) ELSE overlapped
    /\ UNCHANGED <<started, tableVars, listVars, editing, intent>>

\* No reading of t that is still on its way is the newest one.
Superseded(cs, t) ==
    [i \in DOMAIN cs |-> IF cs[i].table = t THEN [cs[i] EXCEPT !.newest = FALSE] ELSE cs[i]]

\* The backend's ListConnections or ListGroups.
ReadTable(i) ==
    /\ calls[i].stage = "list"
    /\ calls' = [Superseded(calls, calls[i].table) EXCEPT
                    ![i].stage = "land", ![i].rows = Rows(calls[i].table), ![i].newest = TRUE]
    /\ stale' = stale \cup {calls[i].table}
    /\ UNCHANGED <<started, tableVars, list, form, editing, clickVars>>

ReadFails(i) ==
    /\ calls[i].stage = "list"
    /\ ContinueWith(i, Superseded(calls, calls[i].table))
    /\ stale' = stale \cup {calls[i].table}
    /\ UNCHANGED <<started, tableVars, list, editing, clickVars>>

\* The list replaces the store's.
ListLands(i) ==
    /\ calls[i].stage = "land"
    /\ list' = [list EXCEPT ![calls[i].table] = calls[i].rows]
    /\ stale' = IF calls[i].newest THEN stale \ {calls[i].table} ELSE stale \cup {calls[i].table}
    /\ Continue(i)
    /\ UNCHANGED <<started, tableVars, editing, clickVars>>

Start(call) ==
    /\ started < MaxCalls
    /\ Len(calls) < MaxOverlap
    /\ started' = started + 1
    /\ calls' = Append(calls, call)

-----------------------------------------------------------------------------
(* The sidebar.  The form is modal and covers it; a click outside the input  *)
(* of a group's name blurs the input first, which saves.                     *)

GroupListed(g) == g # None /\ list.groups[g] # None

\* What is shown: connections without a group and those in a group that is listed
\* and expanded.
ConnectionShown(c) ==
    /\ list.connections[c] # None
    /\ LET g == list.connections[c].group
       IN  g = None \/ (GroupListed(g) /\ list.groups[g].isExpanded)

AtRest == form = None /\ ~GroupListed(editing)

\* A click on a group, on what the list then says; intent is what was meant.
ChangeGroup(g, row, meant) ==
    /\ Start(Call("save", "groups", g, row))
    /\ intent' = [intent EXCEPT ![g] = meant]
    /\ overlapped' = IF InFlight("groups") # {} \/ "groups" \in stale
                     THEN overlapped \cup {g} ELSE overlapped
    /\ UNCHANGED <<tableVars, listVars, form>>

ToggleGroup(g) ==
    /\ AtRest
    /\ LET on == ~list.groups[g].isExpanded
       IN  ChangeGroup(g, [list.groups[g] EXCEPT !.isExpanded = on],
                       IF ~Row(intent[g]) THEN intent[g] ELSE [intent[g] EXCEPT !.isExpanded = on])
    /\ UNCHANGED editing

RenameGroup(g) ==
    /\ AtRest
    /\ editing' = g
    /\ UNCHANGED <<tableVars, listVars, callVars, form, clickVars>>

\* A bug to catch: a renamed group is shown expanded.
RenameExpands(g, n) ==
    /\ editing = g
    /\ n # list.groups[g].name
    /\ editing' = None
    /\ ChangeGroup(g, FreshGroup(n),
                   IF ~Row(intent[g]) THEN intent[g] ELSE [intent[g] EXCEPT !.name = n])

SaveRename(g, n) ==
    /\ editing = g
    /\ n # list.groups[g].name
    /\ editing' = None
    /\ ChangeGroup(g, [list.groups[g] EXCEPT !.name = n],
                   IF ~Row(intent[g]) THEN intent[g] ELSE [intent[g] EXCEPT !.name = n])

\* Escape, or a name that was left as it is.
CancelRename(g) ==
    /\ editing = g
    /\ editing' = None
    /\ UNCHANGED <<tableVars, listVars, callVars, form, clickVars>>

HandleDeleteGroup(g) ==
    /\ AtRest
    /\ Start(Call("delete", "groups", g, None))
    /\ intent' = [intent EXCEPT ![g] = Gone]
    /\ overlapped' = IF InFlight("groups") # {} THEN overlapped \cup {g} ELSE overlapped
    /\ UNCHANGED <<tableVars, listVars, form, editing>>

GroupHeader(g) ==
    /\ GroupListed(g)
    /\ \/ ToggleGroup(g) \/ RenameGroup(g) \/ CancelRename(g) \/ HandleDeleteGroup(g)
       \/ \E n \in Names : SaveRename(g, n)

\* Bound: every row that is being created finds a free id.
Unused(rows, t) ==
    /\ \E i \in DOMAIN rows : rows[i] = None
    /\ \A i \in InFlight(t) : calls[i].op # "save" \/ calls[i].id # None

HandleCreateGroup(n) ==
    /\ AtRest
    /\ Unused(groups, "groups")
    /\ Start(Call("save", "groups", None, FreshGroup(n)))
    /\ UNCHANGED <<tableVars, listVars, form, editing, clickVars>>

RemoveConnection(c) ==
    /\ Start(Call("delete", "connections", c, None))
    /\ UNCHANGED <<tableVars, listVars, form, editing, clickVars>>

BlankForm == [conn |-> None, group |-> None, jumps |-> <<>>, saving |-> FALSE]

OpenForm(f) ==
    /\ form' = f
    /\ UNCHANGED <<tableVars, listVars, callVars, editing, clickVars>>

NewConnection == AtRest /\ Unused(connections, "connections") /\ OpenForm(BlankForm)

\* The form takes the row that is on the list.
EditConnection(c) ==
    OpenForm([BlankForm EXCEPT !.conn = c, !.group = list.connections[c].group,
                               !.jumps = list.connections[c].jumps])

ConnectionItem(c) ==
    /\ AtRest
    /\ ConnectionShown(c)
    /\ RemoveConnection(c) \/ EditConnection(c)

-----------------------------------------------------------------------------
(* The connection form                                                      *)

SetForm(f) ==
    /\ form # None
    /\ ~form.saving     \* what is typed later is lost with the form
    /\ form' = f
    /\ UNCHANGED <<tableVars, listVars, callVars, editing, clickVars>>

FormFields ==
    \E g \in {None} \cup {g \in Groups : GroupListed(g)} : SetForm([form EXCEPT !.group = g])

\* A bug to catch: the connection itself is offered as its own jump host.
AnyJumpHost == {c \in Conns : list.connections[c] # None}

AvailableJumpHosts == {c \in Conns : list.connections[c] # None /\ c # form.conn}

AddJumpHost(c) == SetForm([form EXCEPT !.jumps = Append(@, c)])

RemoveJumpHost(i) == SetForm([form EXCEPT !.jumps = RemoveAt(@, i)])

\* Up or down by one: two neighbours change places.
MoveJumpHost(i, j) ==
    SetForm([form EXCEPT !.jumps = [@ EXCEPT ![i] = form.jumps[j], ![j] = form.jumps[i]]])

JumpHosts ==
    \/ \E c \in AvailableJumpHosts \ ToSet(form.jumps) : AddJumpHost(c)
    \/ \E i \in DOMAIN form.jumps :
        RemoveJumpHost(i) \/ (i + 1 \in DOMAIN form.jumps /\ MoveJumpHost(i, i + 1))

\* Only an edit has an id.  What the form has no field for is not in the row.
SubmitForm ==
    /\ ~form.saving
    /\ form' = [form EXCEPT !.saving = TRUE]
    /\ Start(Call("save", "connections", form.conn,
                  [group |-> form.group, jumps |-> form.jumps, tuned |-> FALSE,
                   deleted |-> FALSE]))
    /\ UNCHANGED <<tableVars, listVars, editing, clickVars>>

\* Cancel, the cross or a click beside the form, also while it is saving.
CloseForm ==
    /\ form' = None
    /\ UNCHANGED <<tableVars, listVars, callVars, editing, clickVars>>

ConnectionForm == form # None /\ (FormFields \/ JumpHosts \/ SubmitForm \/ CloseForm)

-----------------------------------------------------------------------------
Step(i) == SendSucceeds(i) \/ SendFails(i) \/ ReadTable(i) \/ ReadFails(i) \/ ListLands(i)

Sidebar ==
    \/ \E g \in Groups : GroupHeader(g)
    \/ \E c \in Conns : ConnectionItem(c)
    \/ \E n \in Names : HandleCreateGroup(n)
    \/ NewConnection

Next ==
    \/ \E i \in DOMAIN calls : Step(i)
    \/ Sidebar
    \/ ConnectionForm

Spec == Init /\ [][Next]_vars

\* The backend answers, with an error or without, and the event loop goes on.  The
\* oldest operation is at position 1, so each one's turn comes.
FairSpec == Spec /\ \A i \in 1..MaxCalls : WF_vars(i \in DOMAIN calls /\ Step(i))

-----------------------------------------------------------------------------
(* Properties                                                              *)

ConnRows == [Conns -> ConnRow \cup {None}]

GroupRows == [Groups -> GroupRow \cup {None}]

\* An operation on t: one that sends has what it sends, one that lands a list has it.
CallsOf(t, Ids, RowSet, RowsSet) ==
    {call \in [op : {"save", "delete", "load"}, table : {t}, id : Ids \cup {None},
               row : RowSet \cup {None}, stage : {"send", "list", "land"},
               rows : RowsSet \cup {None}, newest : BOOLEAN] :
        /\ call.stage = "send" =>
            \/ call.op = "save" /\ call.row \in RowSet
            \/ call.op = "delete" /\ call.id \in Ids
        /\ call.stage = "land" => call.rows \in RowsSet}

CallSet ==
    CallsOf("connections", Conns, ConnRow, ConnRows) \cup CallsOf("groups", Groups, GroupRow, GroupRows)

TypeOK ==
    /\ connections \in ConnRows
    /\ groups \in [Groups -> GroupRow \cup {None, Gone}]
    /\ list \in [connections : ConnRows, groups : GroupRows]
    /\ calls \in Seq(CallSet)
    /\ started \in Nat
    /\ stale \subseteq Tables
    /\ form = None \/ form \in [conn : Conns \cup {None}, group : Groups \cup {None},
                                jumps : Seq(Conns), saving : BOOLEAN]
    /\ editing \in Groups \cup {None}
    /\ intent \in [Groups -> GroupRow \cup {None, Gone}]
    /\ overlapped \subseteq Groups

NoDuplicates(q) == \A i, j \in DOMAIN q : q[i] = q[j] => i = j

\* When nothing is under way and the last reading is the one that landed, a list is
\* the table: every operation loads the list after its own change was written.
ListsAreTrue ==
    \A t \in Tables :
        InFlight(t) = {} /\ t \notin stale => list[t] = Rows(t)

\* Groups are written whole, as the list showed them.  If each click on a group
\* waited for the one before, the group is what the clicks made it: none undid another.
GroupEditsKept ==
    \A g \in Groups \ overlapped : InFlight("groups") = {} => groups[g] = intent[g]

\* A connection that was deleted stays as it is, whatever edits are still under way.
DeletedStaysDeleted ==
    [][\A c \in Conns :
        connections[c] # None /\ ~Live(c) => connections'[c] = connections[c]]_vars

JumpsSoundFor(c, jumps) == NoDuplicates(jumps) /\ \A i \in DOMAIN jumps : jumps[i] # c

\* No connection is reached through itself or twice through another, through every
\* adding, removing and moving of hosts and every overlapping edit and reload.
JumpsSound ==
    /\ \A c \in Conns : connections[c] # None => JumpsSoundFor(c, connections[c].jumps)
    /\ form # None => JumpsSoundFor(form.conn, form.jumps)

\* A form that was submitted does not stay at "Saving...", whatever fails.
SavingEnds == (form # None /\ form.saving) ~> (form = None \/ ~form.saving)

\* "Connections in this group will become ungrouped": when all is loaded, a connection
\* is shown as soon as no listed group hides it.
NoConnectionLost ==
    \A c \in Conns :
        /\ calls = <<>> /\ stale = {}
        /\ Live(c)
        => connections[c].group = None \/ GroupListed(connections[c].group)
=============================================================================
