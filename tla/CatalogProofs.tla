----------------------------- MODULE CatalogProofs -----------------------------
(***************************************************************************)
(* Theorems about Catalog, for any number of connections, groups and        *)
(* overlapping operations: a deleted connection stays deleted, a jump list  *)
(* never names its own connection or one host twice, a list that holds the  *)
(* last reading is the table, and no click on a group undoes another.       *)
(***************************************************************************)
EXTENDS Catalog, SequenceTheorems, TLAPS

-----------------------------------------------------------------------------
(* Lemmas about sequences                                                   *)

\* What RemoveAt keeps, position by position.
LEMMA RemoveAtProperties ==
    ASSUME NEW S, NEW s \in Seq(S), NEW i \in DOMAIN s
    PROVE  /\ RemoveAt(s, i) \in Seq(S)
           /\ DOMAIN RemoveAt(s, i) = 1..(Len(s) - 1)
           /\ \A k \in 1..(Len(s) - 1) : RemoveAt(s, i)[k] = IF k < i THEN s[k] ELSE s[k + 1]
<1> DEFINE front == SubSeq(s, 1, i - 1)
           back == SubSeq(s, i + 1, Len(s))
<1>1. i \in 1..Len(s) /\ Len(s) \in Nat
  BY LenProperties
<1>2. /\ front \in Seq(S) /\ Len(front) = i - 1
      /\ \A k \in 1..(i - 1) : front[k] = s[k]
  BY <1>1, SubSeqProperties
<1>3. /\ back \in Seq(S) /\ Len(back) = Len(s) - i
      /\ \A k \in 1..(Len(s) - i) : back[k] = s[i + k]
  BY <1>1, SubSeqProperties
<1>4. RemoveAt(s, i) = front \o back
  BY DEF RemoveAt
<1> HIDE DEF front, back
<1>5. RemoveAt(s, i) \in Seq(S) /\ Len(RemoveAt(s, i)) = Len(s) - 1
  BY <1>1, <1>2, <1>3, <1>4, ConcatProperties
<1>6. DOMAIN RemoveAt(s, i) = 1..(Len(s) - 1)
  BY <1>5, LenProperties
<1>7. ASSUME NEW k \in 1..(Len(s) - 1)
      PROVE  RemoveAt(s, i)[k] = IF k < i THEN s[k] ELSE s[k + 1]
  <2>1. (front \o back)[k] = IF k <= Len(front) THEN front[k] ELSE back[k - Len(front)]
    <3>1. \A m \in 1..(Len(front) + Len(back)) :
            (front \o back)[m] = IF m <= Len(front) THEN front[m] ELSE back[m - Len(front)]
      BY <1>2, <1>3, ConcatProperties
    <3>2. k \in 1..(Len(front) + Len(back))
      BY <1>1, <1>2, <1>3
    <3> QED  BY <3>1, <3>2
  <2>2. CASE k < i
    BY <1>1, <1>2, <1>4, <2>1, <2>2
  <2>3. CASE k >= i
    <3>1. k - Len(front) \in 1..(Len(s) - i) /\ i + (k - Len(front)) = k + 1
      BY <1>1, <1>2, <2>3
    <3>2. back[k - Len(front)] = s[k + 1]
      BY <1>3, <3>1
    <3>3. ~(k <= Len(front)) /\ ~(k < i)
      BY <1>1, <1>2, <2>3
    <3> QED
      BY <1>4, <2>1, <3>2, <3>3
  <2> QED
    BY <1>1, <2>2, <2>3
<1> QED
  BY <1>5, <1>6, <1>7

\* RemoveAt keeps every other element, and adds none.
LEMMA RemoveAtElements ==
    ASSUME NEW S, NEW s \in Seq(S), NEW i \in DOMAIN s
    PROVE  /\ \A k \in DOMAIN RemoveAt(s, i) : \E j \in DOMAIN s \ {i} : RemoveAt(s, i)[k] = s[j]
           /\ \A j \in DOMAIN s \ {i} : \E k \in DOMAIN RemoveAt(s, i) : RemoveAt(s, i)[k] = s[j]
<1>1. i \in 1..Len(s) /\ Len(s) \in Nat /\ DOMAIN s = 1..Len(s)
  BY LenProperties
<1>2. /\ DOMAIN RemoveAt(s, i) = 1..(Len(s) - 1)
      /\ \A k \in 1..(Len(s) - 1) : RemoveAt(s, i)[k] = IF k < i THEN s[k] ELSE s[k + 1]
  BY RemoveAtProperties
<1>3. ASSUME NEW k \in DOMAIN RemoveAt(s, i)
      PROVE  \E j \in DOMAIN s \ {i} : RemoveAt(s, i)[k] = s[j]
  <2> DEFINE j == IF k < i THEN k ELSE k + 1
  <2>1. j \in DOMAIN s \ {i} /\ RemoveAt(s, i)[k] = s[j]
    BY <1>1, <1>2, <1>3
  <2> QED
    BY <2>1
<1>4. ASSUME NEW j \in DOMAIN s \ {i}
      PROVE  \E k \in DOMAIN RemoveAt(s, i) : RemoveAt(s, i)[k] = s[j]
  <2> DEFINE k == IF j < i THEN j ELSE j - 1
  <2>1. k \in DOMAIN RemoveAt(s, i) /\ RemoveAt(s, i)[k] = s[j]
    BY <1>1, <1>2, <1>4
  <2> QED
    BY <2>1
<1> QED
  BY <1>3, <1>4

\* A sequence is a function on its domain; one element may be replaced.
LEMMA ReplacedElement ==
    ASSUME NEW S, NEW s \in Seq(S), NEW i \in DOMAIN s, NEW e \in S
    PROVE  /\ [s EXCEPT ![i] = e] \in Seq(S)
           /\ DOMAIN [s EXCEPT ![i] = e] = DOMAIN s
           /\ [s EXCEPT ![i] = e][i] = e
           /\ \A j \in DOMAIN s \ {i} : [s EXCEPT ![i] = e][j] = s[j]
<1>1. i \in 1..Len(s) /\ Len(s) \in Nat /\ DOMAIN s = 1..Len(s)
  BY LenProperties
<1> QED
  BY <1>1, ExceptSeq

-----------------------------------------------------------------------------
(* Operations of the store                                                  *)

LEMMA CallShape ==
    ASSUME NEW call \in CallSet
    PROVE  /\ call.table \in Tables
           /\ call.op \in {"save", "delete", "load"}
           /\ call.newest \in BOOLEAN
           /\ call.table = "connections" => call \in CallsOf("connections", Conns, ConnRow, ConnRows)
           /\ call.table = "groups" => call \in CallsOf("groups", Groups, GroupRow, GroupRows)
BY DEF CallSet, CallsOf, Tables

LEMMA LoadingIsCall ==
    ASSUME NEW t \in Tables
    PROVE  /\ Loading(t) \in CallSet
           /\ Loading(t).table = t /\ Loading(t).stage = "list" /\ ~Loading(t).newest
BY DEF Loading, Call, CallSet, CallsOf, Tables

\* The stages of an operation.
LEMMA NotNewest ==
    ASSUME NEW call \in CallSet
    PROVE  [call EXCEPT !.newest = FALSE] \in CallSet
BY DEF CallSet, CallsOf

LEMMA SentCall ==
    ASSUME NEW call \in CallSet
    PROVE  [call EXCEPT !.stage = "list", !.row = None] \in CallSet
BY DEF CallSet, CallsOf

LEMMA ReadCall ==
    ASSUME NEW call \in CallSet,
           NEW rows, call.table = "connections" => rows \in ConnRows,
           call.table = "groups" => rows \in GroupRows
    PROVE  [call EXCEPT !.stage = "land", !.rows = rows, !.newest = TRUE] \in CallSet
BY DEF CallSet, CallsOf

\* The operations under way after one has returned: the others, and perhaps a reload.
LEMMA ReturnedCalls ==
    ASSUME NEW cs \in Seq(CallSet), NEW i \in DOMAIN cs
    PROVE  /\ Returned(i, cs) \in Seq(CallSet)
           /\ \A k \in DOMAIN Returned(i, cs) :
                \/ Returned(i, cs)[k] = Loading("connections")
                \/ \E j \in DOMAIN cs \ {i} : Returned(i, cs)[k] = cs[j]
           /\ \A j \in DOMAIN cs \ {i} :
                \E k \in DOMAIN Returned(i, cs) : Returned(i, cs)[k] = cs[j]
<1>1. Loading("connections") \in CallSet
  BY LoadingIsCall DEF Tables
<1>2. CASE Returned(i, cs) = RemoveAt(cs, i)
  BY <1>2, RemoveAtProperties, RemoveAtElements
<1>3. CASE Returned(i, cs) = [cs EXCEPT ![i] = Loading("connections")]
  <2> DEFINE e == Loading("connections")
             q == [cs EXCEPT ![i] = e]
  <2>0. e \in CallSet
    BY <1>1
  <2>1. /\ q \in Seq(CallSet)
        /\ DOMAIN q = DOMAIN cs
        /\ q[i] = e
        /\ \A j \in DOMAIN cs \ {i} : q[j] = cs[j]
    <3> HIDE DEF e
    <3> QED
      BY <2>0, ReplacedElement
  <2> HIDE DEF e, q
  <2>2. Returned(i, cs) = q /\ e = Loading("connections")
    BY <1>3 DEF e, q
  <2> QED
    BY <2>1, <2>2
<1> QED
  BY <1>2, <1>3 DEF Returned

\* A new reading, or a failed one, takes the mark from the others of its table.
LEMMA SupersededCalls ==
    ASSUME NEW cs \in Seq(CallSet), NEW t \in Tables
    PROVE  /\ Superseded(cs, t) \in Seq(CallSet)
           /\ DOMAIN Superseded(cs, t) = DOMAIN cs
           /\ \A j \in DOMAIN cs :
                Superseded(cs, t)[j] = IF cs[j].table = t THEN [cs[j] EXCEPT !.newest = FALSE]
                                       ELSE cs[j]
<1> DEFINE q == Superseded(cs, t)
<1>1. DOMAIN cs = 1..Len(cs) /\ Len(cs) \in Nat
  BY LenProperties
<1>2. /\ q = [j \in 1..Len(cs) |-> IF cs[j].table = t THEN [cs[j] EXCEPT !.newest = FALSE]
                                   ELSE cs[j]]
  BY <1>1 DEF Superseded
<1>3. ASSUME NEW j \in 1..Len(cs)
      PROVE  (IF cs[j].table = t THEN [cs[j] EXCEPT !.newest = FALSE] ELSE cs[j]) \in CallSet
  <2>1. cs[j] \in CallSet
    BY <1>3, ElementOfSeq
  <2> QED
    BY <2>1, NotNewest
<1>4. q \in [1..Len(cs) -> CallSet]
  BY <1>2, <1>3
<1>5. q \in Seq(CallSet)
  BY <1>1, <1>4
<1> QED
  BY <1>1, <1>2, <1>5

-----------------------------------------------------------------------------
(* Types                                                                    *)

LEMMA RowsTypes ==
    ASSUME TypeOK
    PROVE  Rows("connections") \in ConnRows /\ Rows("groups") \in GroupRows
<1>1. Rows("connections") \in ConnRows
  BY DEF TypeOK, Rows, ConnRows
<1>2. Rows("groups") \in GroupRows
  BY DEF TypeOK, Rows, GroupRows, Row
<1> QED
  BY <1>1, <1>2

LEMMA SendTypes ==
    ASSUME TypeOK, NEW i \in DOMAIN calls, calls[i].stage = "send"
    PROVE  \/ /\ calls[i].table = "connections"
              /\ \/ calls[i].op = "save" /\ calls[i].row \in ConnRow /\ calls[i].id \in Conns \cup {None}
                 \/ calls[i].op = "delete" /\ calls[i].id \in Conns
           \/ /\ calls[i].table = "groups"
              /\ \/ calls[i].op = "save" /\ calls[i].row \in GroupRow /\ calls[i].id \in Groups \cup {None}
                 \/ calls[i].op = "delete" /\ calls[i].id \in Groups
<1>1. calls[i] \in CallSet
  BY ElementOfSeq, LenProperties DEF TypeOK
<1> QED
  BY <1>1 DEF CallSet, CallsOf

\* What the backend writes is a row.
LEMMA WriteTypes ==
    ASSUME TypeOK, NEW i \in DOMAIN calls, calls[i].stage = "send", Write(calls[i])
    PROVE  /\ connections' \in ConnRows
           /\ groups' \in [Groups -> GroupRow \cup {None, Gone}]
           /\ intent' \in [Groups -> GroupRow \cup {None, Gone}]
<1> DEFINE call == calls[i]
<1>1. CASE call.table = "connections"
  <2>1. groups' = groups /\ intent' = intent
    BY <1>1 DEF Write
  <2>2. CASE call.op = "save" /\ call.row \in ConnRow /\ call.id \in Conns \cup {None}
    <3>1. CASE CreateConnection(call.row)
      <4>1. [call.row EXCEPT !.tuned = TRUE] \in ConnRow
        BY <2>2 DEF ConnRow
      <4>2. PICK c \in Conns :
              connections' = [connections EXCEPT ![c] = [call.row EXCEPT !.tuned = TRUE]]
        BY <3>1 DEF CreateConnection
      <4> QED
        BY <2>1, <4>1, <4>2 DEF TypeOK, ConnRows
    <3>2. CASE call.id \in Conns /\ UpdateConnection(call.id, call.row)
      BY <2>1, <2>2, <3>2 DEF UpdateConnection, TypeOK, ConnRows
    <3> QED
      BY <1>1, <2>2, <3>1, <3>2 DEF Write, SaveConnection
  <2>3. CASE call.op = "delete" /\ call.id \in Conns
    <3>1. SoftDelete(call.id)
      BY <1>1, <2>3 DEF Write
    <3>2. CASE connections[call.id] = None
      BY <2>1, <3>1, <3>2 DEF SoftDelete, TypeOK
    <3>3. CASE connections[call.id] # None
      <4>1. [connections[call.id] EXCEPT !.deleted = TRUE] \in ConnRow
        <5>1. connections[call.id] \in ConnRow
          BY <2>3, <3>3 DEF TypeOK, ConnRows
        <5> QED
          BY <5>1 DEF ConnRow
      <4>2. connections' = [connections EXCEPT ![call.id] = [connections[call.id] EXCEPT !.deleted = TRUE]]
        BY <3>1, <3>3 DEF SoftDelete
      <4> QED
        BY <2>1, <2>3, <4>1, <4>2 DEF TypeOK, ConnRows
    <3> QED
      BY <3>2, <3>3
  <2> QED
    BY <1>1, <2>2, <2>3, SendTypes
<1>2. CASE call.table = "groups"
  <2>1. connections' = connections
    BY <1>2 DEF Write
  <2>2. CASE call.op = "save" /\ call.row \in GroupRow /\ call.id \in Groups \cup {None}
    <3>1. CASE CreateGroup(call.row)
      BY <2>1, <2>2, <3>1 DEF CreateGroup, TypeOK
    <3>2. CASE call.id \in Groups /\ UpdateGroup(call.id, call.row)
      BY <2>1, <2>2, <3>2 DEF UpdateGroup, TypeOK
    <3> QED
      BY <1>2, <2>2, <3>1, <3>2 DEF Write, SaveGroup
  <2>3. CASE call.op = "delete" /\ call.id \in Groups
    BY <1>2, <2>1, <2>3 DEF Write, DeleteGroup, TypeOK
  <2> QED
    BY <1>2, <2>2, <2>3, SendTypes
<1> QED
  BY <1>1, <1>2, SendTypes

\* A call that is sent with a row, or for one.
LEMMA NewCall ==
    ASSUME NEW t \in Tables, NEW o, NEW i, NEW r,
           \/ /\ t = "connections" /\ i \in Conns \cup {None}
              /\ \/ o = "save" /\ r \in ConnRow
                 \/ o = "delete" /\ i \in Conns /\ r = None
           \/ /\ t = "groups" /\ i \in Groups \cup {None}
              /\ \/ o = "save" /\ r \in GroupRow
                 \/ o = "delete" /\ i \in Groups /\ r = None
    PROVE  Call(o, t, i, r) \in CallSet
BY DEF Call, CallSet, CallsOf, Tables

LEMMA StartTypes ==
    ASSUME TypeOK, NEW call \in CallSet, Start(call)
    PROVE  calls' \in Seq(CallSet) /\ started' \in Nat
BY AppendProperties DEF TypeOK, Start

\* Clicks in the sidebar.
LEMMA SidebarTypes ==
    ASSUME TypeOK, Sidebar
    PROVE  TypeOK'
<1> USE DEF tableVars, listVars, callVars, clickVars
<1>1. ASSUME NEW g \in Groups, GroupHeader(g) PROVE TypeOK'
  <2>1. list.groups[g] \in GroupRow /\ GroupListed(g)
    BY <1>1 DEF GroupHeader, GroupListed, TypeOK, GroupRows
  <2>2. intent[g] \in GroupRow \cup {None, Gone}
    BY DEF TypeOK
  <2>3. ASSUME NEW row \in GroupRow, NEW meant \in GroupRow \cup {None, Gone},
               ChangeGroup(g, row, meant), editing' \in Groups \cup {None}
        PROVE  TypeOK'
    <3>1. Call("save", "groups", g, row) \in CallSet
      BY NewCall DEF Tables
    <3>2. calls' \in Seq(CallSet) /\ started' \in Nat
      BY <2>3, <3>1, StartTypes DEF ChangeGroup
    <3>3. intent' \in [Groups -> GroupRow \cup {None, Gone}] /\ overlapped' \subseteq Groups
      BY <2>3 DEF ChangeGroup, TypeOK
    <3> QED
      BY <2>3, <3>2, <3>3 DEF ChangeGroup, TypeOK
  <2>4. CASE ToggleGroup(g)
    <3> DEFINE on == ~list.groups[g].isExpanded
               row == [list.groups[g] EXCEPT !.isExpanded = on]
               meant == IF ~Row(intent[g]) THEN intent[g] ELSE [intent[g] EXCEPT !.isExpanded = on]
    <3>1. row \in GroupRow
      BY <2>1 DEF GroupRow
    <3>2. meant \in GroupRow \cup {None, Gone}
      BY <2>1, <2>2 DEF GroupRow, Row
    <3>3. ChangeGroup(g, row, meant) /\ editing' = editing
      BY <2>4 DEF ToggleGroup
    <3> HIDE DEF row, meant
    <3> QED
      BY <2>3, <3>1, <3>2, <3>3 DEF TypeOK
  <2>5. ASSUME NEW n \in Names, SaveRename(g, n) PROVE TypeOK'
    <3> DEFINE row == [list.groups[g] EXCEPT !.name = n]
               meant == IF ~Row(intent[g]) THEN intent[g] ELSE [intent[g] EXCEPT !.name = n]
    <3>1. row \in GroupRow
      BY <2>1 DEF GroupRow
    <3>2. meant \in GroupRow \cup {None, Gone}
      BY <2>2 DEF GroupRow, Row
    <3>3. ChangeGroup(g, row, meant) /\ editing' = None
      BY <2>5 DEF SaveRename
    <3> HIDE DEF row, meant
    <3> QED
      BY <2>3, <3>1, <3>2, <3>3
  <2>6. CASE RenameGroup(g) \/ CancelRename(g)
    BY <2>6 DEF RenameGroup, CancelRename, TypeOK
  <2>7. CASE HandleDeleteGroup(g)
    <3>1. Call("delete", "groups", g, None) \in CallSet
      BY NewCall DEF Tables
    <3>2. calls' \in Seq(CallSet) /\ started' \in Nat
      BY <2>7, <3>1, StartTypes DEF HandleDeleteGroup
    <3> QED
      BY <2>7, <3>2 DEF HandleDeleteGroup, TypeOK
  <2> QED
    BY <1>1, <2>4, <2>5, <2>6, <2>7 DEF GroupHeader
<1>2. ASSUME NEW c \in Conns, ConnectionItem(c) PROVE TypeOK'
  <2>1. list.connections[c] \in ConnRow
    BY <1>2 DEF ConnectionItem, ConnectionShown, TypeOK, ConnRows
  <2>2. CASE RemoveConnection(c)
    <3>1. Call("delete", "connections", c, None) \in CallSet
      BY NewCall DEF Tables
    <3>2. calls' \in Seq(CallSet) /\ started' \in Nat
      BY <2>2, <3>1, StartTypes DEF RemoveConnection
    <3> QED
      BY <2>2, <3>2 DEF RemoveConnection, TypeOK
  <2>3. CASE EditConnection(c)
    <3>1. form' = [conn |-> c, group |-> list.connections[c].group,
                   jumps |-> list.connections[c].jumps, saving |-> FALSE]
      BY <2>3 DEF EditConnection, OpenForm, BlankForm
    <3>2. list.connections[c].group \in Groups \cup {None} /\ list.connections[c].jumps \in Seq(Conns)
      BY <2>1 DEF ConnRow
    <3>3. form' \in [conn : Conns \cup {None}, group : Groups \cup {None},
                     jumps : Seq(Conns), saving : BOOLEAN]
      BY <3>1, <3>2
    <3> QED
      BY <2>3, <3>3 DEF EditConnection, OpenForm, TypeOK
  <2> QED
    BY <1>2, <2>2, <2>3 DEF ConnectionItem
<1>3. ASSUME NEW n \in Names, HandleCreateGroup(n) PROVE TypeOK'
  <2>1. FreshGroup(n) \in GroupRow
    BY DEF FreshGroup, GroupRow
  <2>2. Call("save", "groups", None, FreshGroup(n)) \in CallSet
    BY <2>1, NewCall DEF Tables
  <2>3. calls' \in Seq(CallSet) /\ started' \in Nat
    BY <1>3, <2>2, StartTypes DEF HandleCreateGroup
  <2> QED
    BY <1>3, <2>3 DEF HandleCreateGroup, TypeOK
<1>4. CASE NewConnection
  <2>1. <<>> \in Seq(Conns)
    BY EmptySeq
  <2> QED
    BY <1>4, <2>1 DEF NewConnection, OpenForm, BlankForm, TypeOK
<1> QED
  BY <1>1, <1>2, <1>3, <1>4 DEF Sidebar

\* The form.
LEMMA FormTypes ==
    ASSUME TypeOK, ConnectionForm
    PROVE  TypeOK'
<1> USE DEF tableVars, listVars, callVars, clickVars
<1> DEFINE FormSet == [conn : Conns \cup {None}, group : Groups \cup {None},
                       jumps : Seq(Conns), saving : BOOLEAN]
<1>1. form \in FormSet
  BY DEF ConnectionForm, TypeOK
<1>2. ASSUME NEW f \in FormSet, SetForm(f) PROVE TypeOK'
  BY <1>2 DEF SetForm, TypeOK
<1>3. ASSUME NEW q \in Seq(Conns), SetForm([form EXCEPT !.jumps = q]) PROVE TypeOK'
  <2>1. [form EXCEPT !.jumps = q] \in FormSet
    BY <1>1
  <2> QED
    BY <1>2, <1>3, <2>1
<1>4. CASE FormFields
  <2>1. PICK g \in Groups \cup {None} : SetForm([form EXCEPT !.group = g])
    BY <1>4 DEF FormFields
  <2>2. [form EXCEPT !.group = g] \in FormSet
    BY <1>1
  <2> QED
    BY <1>2, <2>1, <2>2
<1>5. ASSUME NEW c \in Conns, AddJumpHost(c) PROVE TypeOK'
  <2>1. Append(form.jumps, c) \in Seq(Conns)
    BY <1>1, AppendProperties
  <2> QED
    BY <1>3, <1>5, <2>1 DEF AddJumpHost
<1>6. ASSUME NEW i \in DOMAIN form.jumps, RemoveJumpHost(i) PROVE TypeOK'
  <2>1. RemoveAt(form.jumps, i) \in Seq(Conns)
    BY <1>1, RemoveAtProperties
  <2> QED
    BY <1>3, <1>6, <2>1 DEF RemoveJumpHost
<1>7. ASSUME NEW i \in DOMAIN form.jumps, NEW j \in DOMAIN form.jumps, MoveJumpHost(i, j) PROVE TypeOK'
  <2>1. form.jumps \in Seq(Conns) /\ form.jumps[i] \in Conns /\ form.jumps[j] \in Conns
    BY <1>1, ElementOfSeq, LenProperties
  <2>2. [form.jumps EXCEPT ![i] = form.jumps[j], ![j] = form.jumps[i]] \in Seq(Conns)
    BY <2>1, ReplacedElement
  <2> QED
    BY <1>3, <1>7, <2>2 DEF MoveJumpHost
<1>8. CASE SubmitForm
  <2> DEFINE row == [group |-> form.group, jumps |-> form.jumps, tuned |-> FALSE, deleted |-> FALSE]
  <2>1. row \in ConnRow /\ form.conn \in Conns \cup {None}
    BY <1>1 DEF ConnRow
  <2>2. Call("save", "connections", form.conn, row) \in CallSet
    <3> HIDE DEF row
    <3> QED
      BY <2>1, NewCall DEF Tables
  <2>3. calls' \in Seq(CallSet) /\ started' \in Nat
    <3> HIDE DEF row
    <3>1. Start(Call("save", "connections", form.conn, row))
      BY <1>8 DEF SubmitForm, row
    <3> QED
      BY <2>2, <3>1, StartTypes
  <2>4. form' \in FormSet
    BY <1>1, <1>8 DEF SubmitForm
  <2> QED
    BY <1>8, <2>3, <2>4 DEF SubmitForm, TypeOK
<1>9. CASE CloseForm
  BY <1>9 DEF CloseForm, TypeOK
<1>10. CASE JumpHosts
  <2>1. CASE \E c \in AvailableJumpHosts \ ToSet(form.jumps) : AddJumpHost(c)
    BY <1>5, <2>1 DEF AvailableJumpHosts
  <2>2. CASE \E i \in DOMAIN form.jumps :
              RemoveJumpHost(i) \/ (i + 1 \in DOMAIN form.jumps /\ MoveJumpHost(i, i + 1))
    BY <1>6, <1>7, <2>2
  <2> QED
    BY <1>10, <2>1, <2>2 DEF JumpHosts
<1> QED
  BY <1>4, <1>8, <1>9, <1>10 DEF ConnectionForm

\* The operations of the store.
LEMMA StepTypes ==
    ASSUME TypeOK, NEW i \in DOMAIN calls, Step(i)
    PROVE  TypeOK'
<1> USE DEF tableVars, listVars, callVars, clickVars
<1>1. calls \in Seq(CallSet) /\ calls[i] \in CallSet /\ calls[i].table \in Tables
  BY ElementOfSeq, LenProperties, CallShape DEF TypeOK
<1>2. ASSUME NEW cs \in Seq(CallSet), DOMAIN cs = DOMAIN calls, ContinueWith(i, cs)
      PROVE  /\ calls' \in Seq(CallSet)
             /\ form' = None \/ form' \in [conn : Conns \cup {None}, group : Groups \cup {None},
                                          jumps : Seq(Conns), saving : BOOLEAN]
  BY <1>2, ReturnedCalls DEF ContinueWith, TypeOK
<1>3. CASE SendSucceeds(i)
  <2>1. [calls[i] EXCEPT !.stage = "list", !.row = None] \in CallSet
    BY <1>1, SentCall
  <2>2. calls' = [calls EXCEPT ![i] = [calls[i] EXCEPT !.stage = "list", !.row = None]]
    BY <1>3 DEF SendSucceeds
  <2>3. calls' \in Seq(CallSet)
    BY <1>1, <2>1, <2>2, ReplacedElement
  <2>4. /\ connections' \in ConnRows
        /\ groups' \in [Groups -> GroupRow \cup {None, Gone}]
        /\ intent' \in [Groups -> GroupRow \cup {None, Gone}]
    BY <1>3, WriteTypes DEF SendSucceeds
  <2> QED
    BY <1>3, <2>3, <2>4 DEF SendSucceeds, TypeOK
<1>4. CASE SendFails(i)
  <2>1. overlapped' \subseteq Groups
    BY <1>4, SendTypes DEF SendFails, TypeOK
  <2> QED
    BY <1>1, <1>2, <1>4, <2>1 DEF SendFails, Continue, TypeOK
<1>5. CASE ReadTable(i)
  <2> DEFINE q == Superseded(calls, calls[i].table)
             call == [q[i] EXCEPT !.stage = "land", !.rows = Rows(calls[i].table), !.newest = TRUE]
  <2>1. q \in Seq(CallSet) /\ DOMAIN q = DOMAIN calls /\ q[i] = [calls[i] EXCEPT !.newest = FALSE]
    BY <1>1, SupersededCalls
  <2>2. q[i] \in CallSet /\ q[i].table = calls[i].table
    BY <1>1, <2>1, NotNewest DEF CallSet, CallsOf
  <2>3. call \in CallSet
    <3> HIDE DEF q
    <3> QED
      BY <2>2, RowsTypes, ReadCall
  <2>4. calls' = [q EXCEPT ![i] = call]
    BY <1>5 DEF ReadTable
  <2>5. calls' \in Seq(CallSet)
    <3> HIDE DEF q, call
    <3> QED
      BY <2>1, <2>3, <2>4, ReplacedElement
  <2> QED
    BY <1>1, <1>5, <2>5 DEF ReadTable, TypeOK
<1>6. CASE ReadFails(i)
  <2>1. Superseded(calls, calls[i].table) \in Seq(CallSet)
        /\ DOMAIN Superseded(calls, calls[i].table) = DOMAIN calls
    BY <1>1, SupersededCalls
  <2> QED
    BY <1>1, <1>2, <1>6, <2>1 DEF ReadFails, TypeOK
<1>7. CASE ListLands(i)
  <2>1. \/ calls[i].table = "connections" /\ calls[i].rows \in ConnRows
        \/ calls[i].table = "groups" /\ calls[i].rows \in GroupRows
    BY <1>1, <1>7 DEF ListLands, CallSet, CallsOf
  <2>2. list' \in [connections : ConnRows, groups : GroupRows]
    BY <1>7, <2>1 DEF ListLands, TypeOK
  <2>3. stale' \subseteq Tables
    BY <1>1, <1>7 DEF ListLands, TypeOK
  <2> QED
    BY <1>1, <1>2, <1>7, <2>2, <2>3 DEF ListLands, Continue, TypeOK
<1> QED
  BY <1>3, <1>4, <1>5, <1>6, <1>7 DEF Step

LEMMA InitTypes == Init => TypeOK
<1> SUFFICES ASSUME Init PROVE TypeOK
  OBVIOUS
<1>1. <<>> \in Seq(Conns)
  BY EmptySeq
<1>2. calls \in Seq(CallSet)
  <2>1. Loading("connections") \in CallSet /\ Loading("groups") \in CallSet
    BY LoadingIsCall DEF Tables
  <2> QED
    BY <2>1 DEF Init
<1>3. groups \in [Groups -> GroupRow \cup {None, Gone}] /\ intent = groups
  <2>1. FirstName \in Names
    BY StoredAssumption DEF FirstName
  <2>2. FreshGroup(FirstName) \in GroupRow
    BY <2>1 DEF FreshGroup, GroupRow
  <2> QED
    BY <2>2 DEF Init
<1>4. connections \in ConnRows
  BY <1>1, StoredAssumption DEF Init, FreshRow, ConnRows, ConnRow
<1>5. list \in [connections : ConnRows, groups : GroupRows]
  BY DEF Init, ConnRows, GroupRows
<1> QED
  BY <1>2, <1>3, <1>4, <1>5 DEF Init, TypeOK, Tables

LEMMA StepTypeOK == TypeOK /\ [Next]_vars => TypeOK'
<1> SUFFICES ASSUME TypeOK, [Next]_vars PROVE TypeOK'
  OBVIOUS
<1>1. CASE UNCHANGED vars
  BY <1>1 DEF vars, TypeOK
<1> QED
  BY <1>1, StepTypes, SidebarTypes, FormTypes DEF Next

\* The tables, the lists, the operations and the form keep their types.
THEOREM TypesOfCatalog == Spec => []TypeOK
  BY InitTypes, StepTypeOK, PTL DEF Spec

-----------------------------------------------------------------------------
(* Deleted connections                                                      *)

\* Only an operation that sends touches a table.
LEMMA OnlyWrites ==
    ASSUME [Next]_vars, \A i \in DOMAIN calls : ~SendSucceeds(i)
    PROVE  connections' = connections /\ groups' = groups
<1> USE DEF tableVars, listVars, callVars, clickVars
<1>1. CASE \E i \in DOMAIN calls : Step(i)
  BY <1>1 DEF Step, SendFails, ReadTable, ReadFails, ListLands
<1>2. CASE Sidebar
  <2>1. ASSUME NEW g \in Groups, GroupHeader(g) PROVE UNCHANGED tableVars
    BY <2>1 DEF GroupHeader, ToggleGroup, RenameGroup, CancelRename, HandleDeleteGroup, SaveRename,
                ChangeGroup
  <2> QED
    BY <1>2, <2>1 DEF Sidebar, ConnectionItem, RemoveConnection, EditConnection, OpenForm,
                      HandleCreateGroup, NewConnection
<1>3. CASE ConnectionForm
  BY <1>3 DEF ConnectionForm, FormFields, JumpHosts, SubmitForm, CloseForm, SetForm, AddJumpHost,
              RemoveJumpHost, MoveJumpHost
<1>4. CASE UNCHANGED vars
  BY <1>4 DEF vars
<1> QED
  BY <1>1, <1>2, <1>3, <1>4 DEF Next

\* What a write does to the table of connections: nothing, a new row, an edit of a row
\* that is not deleted, or the mark of a deletion.
LEMMA ConnectionWrites ==
    ASSUME TypeOK, NEW i \in DOMAIN calls, SendSucceeds(i)
    PROVE  \/ connections' = connections
           \/ /\ calls[i].table = "connections" /\ calls[i].op = "save" /\ calls[i].row \in ConnRow
              /\ calls[i].id = None
              /\ \E c \in Conns :
                    /\ connections[c] = None
                    /\ connections' = [connections EXCEPT ![c] = [calls[i].row EXCEPT !.tuned = TRUE]]
           \/ /\ calls[i].table = "connections" /\ calls[i].op = "save" /\ calls[i].row \in ConnRow
              /\ calls[i].id \in Conns
              /\ Live(calls[i].id)
              /\ connections' = [connections EXCEPT ![calls[i].id] = calls[i].row]
           \/ \E c \in Conns :
                /\ connections[c] \in ConnRow
                /\ connections' = [connections EXCEPT ![c] = [connections[c] EXCEPT !.deleted = TRUE]]
<1> DEFINE call == calls[i]
<1>1. Write(call) /\ call.stage = "send"
  BY DEF SendSucceeds
<1>2. CASE call.table = "groups"
  BY <1>1, <1>2 DEF Write
<1>3. CASE call.table = "connections" /\ call.op = "save" /\ call.row \in ConnRow /\ call.id \in Conns \cup {None}
  <2>1. SaveConnection(call.id, call.row)
    BY <1>1, <1>3 DEF Write
  <2>2. CASE call.id = None
    BY <1>3, <2>1, <2>2 DEF SaveConnection, CreateConnection
  <2>3. CASE call.id # None
    BY <1>3, <2>1, <2>3 DEF SaveConnection, UpdateConnection
  <2> QED
    BY <2>2, <2>3
<1>4. CASE call.table = "connections" /\ call.op = "delete" /\ call.id \in Conns
  <2>1. SoftDelete(call.id)
    BY <1>1, <1>4 DEF Write
  <2>2. CASE connections[call.id] = None
    BY <2>1, <2>2 DEF SoftDelete
  <2>3. CASE connections[call.id] # None
    <3>1. connections[call.id] \in ConnRow
      BY <1>4, <2>3 DEF TypeOK, ConnRows
    <3>2. connections' = [connections EXCEPT ![call.id] = [connections[call.id] EXCEPT !.deleted = TRUE]]
      BY <2>1, <2>3 DEF SoftDelete
    <3> QED
      BY <1>4, <3>1, <3>2
  <2> QED
    BY <2>2, <2>3
<1> QED
  BY <1>1, <1>2, <1>3, <1>4, SendTypes

\* A connection that was deleted is never written again.
THEOREM DeletedConnectionsStay == Spec => DeletedStaysDeleted
<1> DEFINE Stays == \A c \in Conns :
                      connections[c] # None /\ ~Live(c) => connections'[c] = connections[c]
<1>1. TypeOK /\ [Next]_vars => [Stays]_vars
  <2> SUFFICES ASSUME TypeOK, [Next]_vars, NEW c \in Conns, connections[c] # None, ~Live(c)
               PROVE  connections'[c] = connections[c]
    OBVIOUS
  <2>1. /\ connections \in ConnRows /\ connections[c] \in ConnRow /\ connections[c].deleted = TRUE
    BY NoRowAssumption DEF TypeOK, ConnRows, Live, Row, ConnRow
  <2>2. CASE \E i \in DOMAIN calls : SendSucceeds(i)
    <3>1. PICK i \in DOMAIN calls : SendSucceeds(i)
      BY <2>2
    <3>2. ASSUME NEW d \in Conns,
                 connections' = [connections EXCEPT ![d] = [connections[d] EXCEPT !.deleted = TRUE]]
          PROVE  connections'[c] = connections[c]
      <4>1. CASE c = d
        <5>1. [connections[c] EXCEPT !.deleted = TRUE] = connections[c]
          BY <2>1 DEF ConnRow
        <5> QED
          BY <2>1, <3>2, <4>1, <5>1 DEF ConnRows
      <4>2. CASE c # d
        BY <2>1, <3>2, <4>2 DEF ConnRows
      <4> QED
        BY <4>1, <4>2
    <3>3. ASSUME NEW d \in Conns, d # c, NEW row, connections' = [connections EXCEPT ![d] = row]
          PROVE  connections'[c] = connections[c]
      BY <2>1, <3>3 DEF ConnRows
    <3> QED
      BY <3>1, <3>2, <3>3, ConnectionWrites
  <2>3. CASE \A i \in DOMAIN calls : ~SendSucceeds(i)
    BY <2>3, OnlyWrites
  <2> QED
    BY <2>2, <2>3
<1> QED
  BY <1>1, TypesOfCatalog, PTL DEF Spec, DeletedStaysDeleted

-----------------------------------------------------------------------------
(* Jump hosts                                                               *)

\* No host twice, not the connection c itself, and each one a row of the table t: so
\* none of them is the id a new row gets.
Sound(t, c, q) == JumpsSoundFor(c, q) /\ \A i \in DOMAIN q : t[q[i]] # None

SoundRows(t, rows) ==
    \A c \in Conns : rows[c] # None => t[c] # None /\ Sound(t, c, rows[c].jumps)

SoundCall(t, call) ==
    call.table = "connections" =>
        /\ call.stage = "land" => SoundRows(t, call.rows)
        /\ call.stage = "send" /\ call.op = "save" => Sound(t, call.id, call.row.jumps)

JumpsInv ==
    /\ SoundRows(connections, connections)
    /\ SoundRows(connections, list.connections)
    /\ \A i \in DOMAIN calls : SoundCall(connections, calls[i])
    /\ form # None => Sound(connections, form.conn, form.jumps)

LEMMA SoundAppend ==
    ASSUME NEW t, NEW c, NEW q \in Seq(Conns), Sound(t, c, q),
           NEW d \in Conns, d # c, t[d] # None, d \notin ToSet(q)
    PROVE  Sound(t, c, Append(q, d))
<1> DEFINE r == Append(q, d)
<1>1. /\ r \in Seq(Conns) /\ Len(r) = Len(q) + 1 /\ Len(q) \in Nat /\ r[Len(q) + 1] = d
      /\ \A i \in 1..Len(q) : r[i] = q[i]
  BY AppendProperties, LenProperties
<1>2. DOMAIN r = 1..(Len(q) + 1) /\ DOMAIN q = 1..Len(q)
  BY <1>1, LenProperties
<1>3. \A i \in 1..Len(q) : q[i] # d
  BY <1>2 DEF ToSet
<1> HIDE DEF r
<1>4. \A i \in DOMAIN r : r[i] # c /\ t[r[i]] # None
  BY <1>1, <1>2 DEF Sound, JumpsSoundFor
<1>5. \A i, j \in DOMAIN r : r[i] = r[j] => i = j
  BY <1>1, <1>2, <1>3 DEF Sound, JumpsSoundFor, NoDuplicates
<1> QED
  BY <1>4, <1>5 DEF Sound, JumpsSoundFor, NoDuplicates, r

LEMMA SoundRemove ==
    ASSUME NEW t, NEW c, NEW q \in Seq(Conns), Sound(t, c, q), NEW n \in DOMAIN q
    PROVE  Sound(t, c, RemoveAt(q, n))
<1> DEFINE r == RemoveAt(q, n)
<1>1. /\ DOMAIN r = 1..(Len(q) - 1)
      /\ \A k \in 1..(Len(q) - 1) : r[k] = IF k < n THEN q[k] ELSE q[k + 1]
      /\ DOMAIN q = 1..Len(q) /\ Len(q) \in Nat
  BY RemoveAtProperties, LenProperties
<1> HIDE DEF r
<1>2. \A i \in DOMAIN r : r[i] # c /\ t[r[i]] # None
  BY <1>1 DEF Sound, JumpsSoundFor
<1>3. ASSUME NEW i \in DOMAIN r, NEW j \in DOMAIN r, r[i] = r[j] PROVE i = j
  <2> DEFINE At(k) == IF k < n THEN k ELSE k + 1
  <2>1. At(i) \in DOMAIN q /\ At(j) \in DOMAIN q /\ r[i] = q[At(i)] /\ r[j] = q[At(j)]
    BY <1>1
  <2>2. At(i) = At(j)
    <3> HIDE DEF At
    <3> QED
      BY <1>3, <2>1 DEF Sound, JumpsSoundFor, NoDuplicates
  <2> QED
    BY <1>1, <2>2
<1> QED
  BY <1>2, <1>3 DEF Sound, JumpsSoundFor, NoDuplicates, r

LEMMA SoundSwap ==
    ASSUME NEW t, NEW c, NEW q \in Seq(Conns), Sound(t, c, q), NEW m \in DOMAIN q, NEW n \in DOMAIN q
    PROVE  Sound(t, c, [q EXCEPT ![m] = q[n], ![n] = q[m]])
<1> DEFINE r == [q EXCEPT ![m] = q[n], ![n] = q[m]]
<1>1. /\ DOMAIN r = DOMAIN q
      /\ \A k \in DOMAIN q : r[k] = IF k = n THEN q[m] ELSE IF k = m THEN q[n] ELSE q[k]
  <2>1. DOMAIN q = 1..Len(q) /\ q \in [DOMAIN q -> Conns]
    BY LenProperties, ElementOfSeq
  <2> QED
    BY <2>1
<1> HIDE DEF r
<1>2. \A i \in DOMAIN r : r[i] # c /\ t[r[i]] # None
  BY <1>1 DEF Sound, JumpsSoundFor
<1>3. \A i, j \in DOMAIN r : r[i] = r[j] => i = j
  BY <1>1 DEF Sound, JumpsSoundFor, NoDuplicates
<1> QED
  BY <1>2, <1>3 DEF Sound, JumpsSoundFor, NoDuplicates, r

\* What was sound stays sound when rows are added.
LEMMA SoundGrows ==
    ASSUME NEW t, NEW u, \A d \in Conns : t[d] # None => u[d] # None
    PROVE  /\ \A c, q : q \in Seq(Conns) /\ Sound(t, c, q) => Sound(u, c, q)
           /\ \A rows \in ConnRows : SoundRows(t, rows) => SoundRows(u, rows)
           /\ \A call \in CallSet : SoundCall(t, call) => SoundCall(u, call)
<1>1. ASSUME NEW c, NEW q \in Seq(Conns), Sound(t, c, q) PROVE Sound(u, c, q)
  <2>1. \A i \in DOMAIN q : q[i] \in Conns
    BY ElementOfSeq, LenProperties
  <2> QED
    BY <1>1, <2>1 DEF Sound
<1>2. ASSUME NEW rows \in ConnRows, SoundRows(t, rows) PROVE SoundRows(u, rows)
  <2>1. \A c \in Conns : rows[c] # None => rows[c].jumps \in Seq(Conns)
    BY DEF ConnRows, ConnRow
  <2> QED
    BY <1>1, <1>2, <2>1 DEF SoundRows
<1>3. ASSUME NEW call \in CallSet, SoundCall(t, call) PROVE SoundCall(u, call)
  <2>1. call.table = "connections" /\ call.stage = "land" => call.rows \in ConnRows
    BY DEF CallSet, CallsOf
  <2>2. call.table = "connections" /\ call.stage = "send" /\ call.op = "save" => call.row.jumps \in Seq(Conns)
    BY DEF CallSet, CallsOf, ConnRow
  <2> QED
    BY <1>1, <1>2, <1>3, <2>1, <2>2 DEF SoundCall
<1> QED
  BY <1>1, <1>2, <1>3

\* No step removes a row.
LEMMA RowsStay ==
    ASSUME TypeOK, [Next]_vars, NEW d \in Conns, connections[d] # None
    PROVE  connections'[d] # None
<1>1. CASE \E i \in DOMAIN calls : SendSucceeds(i)
  <2>1. PICK i \in DOMAIN calls : SendSucceeds(i)
    BY <1>1
  <2>2. ASSUME NEW c \in Conns, NEW row \in ConnRow, connections' = [connections EXCEPT ![c] = row]
        PROVE  connections'[d] # None
    BY <2>2, NoRowAssumption DEF TypeOK, ConnRows
  <2>3. ASSUME NEW row \in ConnRow
        PROVE  [row EXCEPT !.tuned = TRUE] \in ConnRow /\ [row EXCEPT !.deleted = TRUE] \in ConnRow
    BY <2>3 DEF ConnRow
  <2> QED
    BY <2>1, <2>2, <2>3, ConnectionWrites
<1>2. CASE \A i \in DOMAIN calls : ~SendSucceeds(i)
  BY <1>2, OnlyWrites
<1> QED
  BY <1>1, <1>2

\* The table: an id that was free is in no jump list, so not in the new row's either.
LEMMA TableSound ==
    ASSUME TypeOK, JumpsInv, [Next]_vars
    PROVE  SoundRows(connections', connections')
<1>1. /\ connections \in ConnRows
      /\ \A d \in Conns : connections[d] # None => connections'[d] # None
  BY RowsStay DEF TypeOK
<1>2. SoundRows(connections', connections)
  BY <1>1, SoundGrows DEF JumpsInv
<1>3. ASSUME NEW c \in Conns, NEW row \in ConnRow, connections' = [connections EXCEPT ![c] = row],
             Sound(connections', c, row.jumps)
      PROVE  SoundRows(connections', connections')
  <2>1. row # None /\ connections'[c] = row /\ \A d \in Conns \ {c} : connections'[d] = connections[d]
    BY <1>1, <1>3, NoRowAssumption DEF ConnRows
  <2> QED
    BY <1>2, <1>3, <2>1 DEF SoundRows
<1>4. CASE \E i \in DOMAIN calls : SendSucceeds(i)
  <2>1. PICK i \in DOMAIN calls : SendSucceeds(i)
    BY <1>4
  <2>2. calls[i].stage = "send" /\ SoundCall(connections, calls[i])
    BY <2>1 DEF SendSucceeds, JumpsInv
  <2>3. ASSUME calls[i].table = "connections", calls[i].op = "save", calls[i].row \in ConnRow
        PROVE  /\ Sound(connections, calls[i].id, calls[i].row.jumps)
               /\ Sound(connections', calls[i].id, calls[i].row.jumps)
               /\ \A k \in DOMAIN calls[i].row.jumps : calls[i].row.jumps[k] \in Conns
    <3>1. calls[i].row.jumps \in Seq(Conns)
      BY <2>3 DEF ConnRow
    <3>2. Sound(connections, calls[i].id, calls[i].row.jumps)
      BY <2>2, <2>3 DEF SoundCall
    <3> QED
      BY <1>1, <3>1, <3>2, SoundGrows, ElementOfSeq, LenProperties
  <2>4. ASSUME calls[i].table = "connections", calls[i].op = "save", calls[i].row \in ConnRow,
               NEW c \in Conns, connections[c] = None,
               connections' = [connections EXCEPT ![c] = [calls[i].row EXCEPT !.tuned = TRUE]]
        PROVE  SoundRows(connections', connections')
    <3> DEFINE row == [calls[i].row EXCEPT !.tuned = TRUE]
    <3>1. row \in ConnRow /\ row.jumps = calls[i].row.jumps
      BY <2>4 DEF ConnRow
    <3>2. Sound(connections', c, row.jumps)
      BY <2>3, <2>4, <3>1 DEF Sound, JumpsSoundFor
    <3> HIDE DEF row
    <3>3. connections' = [connections EXCEPT ![c] = row]
      BY <2>4 DEF row
    <3> QED
      BY <1>3, <3>1, <3>2, <3>3
  <2>5. ASSUME calls[i].table = "connections", calls[i].op = "save", calls[i].row \in ConnRow,
               calls[i].id \in Conns,
               connections' = [connections EXCEPT ![calls[i].id] = calls[i].row]
        PROVE  SoundRows(connections', connections')
    BY <1>3, <2>3, <2>5
  <2>6. ASSUME NEW c \in Conns, connections[c] \in ConnRow,
               connections' = [connections EXCEPT ![c] = [connections[c] EXCEPT !.deleted = TRUE]]
        PROVE  SoundRows(connections', connections')
    <3> DEFINE row == [connections[c] EXCEPT !.deleted = TRUE]
    <3>1. row \in ConnRow /\ row.jumps = connections[c].jumps
      BY <2>6 DEF ConnRow
    <3>2. Sound(connections', c, row.jumps)
      BY <1>2, <2>6, <3>1, NoRowAssumption DEF SoundRows
    <3> HIDE DEF row
    <3>3. connections' = [connections EXCEPT ![c] = row]
      BY <2>6 DEF row
    <3> QED
      BY <1>3, <3>1, <3>2, <3>3
  <2> QED
    BY <1>2, <2>1, <2>4, <2>5, <2>6, ConnectionWrites
<1>5. CASE \A i \in DOMAIN calls : ~SendSucceeds(i)
  BY <1>2, <1>5, OnlyWrites
<1> QED
  BY <1>4, <1>5

\* What ListConnections returns is sound because the table is.
LEMMA ReadSound ==
    ASSUME JumpsInv
    PROVE  SoundRows(connections, Rows("connections"))
BY DEF JumpsInv, SoundRows, Rows

\* Operations that go on or return, against the table before the step.
LEMMA CallsSound ==
    ASSUME TypeOK, JumpsInv, NEW i \in DOMAIN calls, Step(i), NEW k \in DOMAIN calls'
    PROVE  SoundCall(connections, calls'[k])
<1>1. calls \in Seq(CallSet) /\ calls[i] \in CallSet /\ calls[i].table \in Tables
  BY ElementOfSeq, LenProperties, CallShape DEF TypeOK
<1>2. SoundCall(connections, Loading("connections"))
  BY DEF SoundCall, Loading, Call
<1>3. ASSUME NEW cs \in Seq(CallSet), DOMAIN cs = DOMAIN calls, ContinueWith(i, cs),
             \A j \in DOMAIN cs : SoundCall(connections, cs[j])
      PROVE  SoundCall(connections, calls'[k])
  BY <1>2, <1>3, ReturnedCalls DEF ContinueWith
<1> DEFINE q == Superseded(calls, calls[i].table)
<1>4. /\ q \in Seq(CallSet) /\ DOMAIN q = DOMAIN calls
      /\ \A j \in DOMAIN calls : SoundCall(connections, q[j])
  <2>1. /\ q \in Seq(CallSet) /\ DOMAIN q = DOMAIN calls
        /\ \A j \in DOMAIN calls :
              q[j] = IF calls[j].table = calls[i].table THEN [calls[j] EXCEPT !.newest = FALSE]
                     ELSE calls[j]
    BY <1>1, SupersededCalls
  <2>2. ASSUME NEW j \in DOMAIN calls PROVE SoundCall(connections, q[j])
    <3>1. calls[j] \in CallSet /\ SoundCall(connections, calls[j])
      BY <1>1, ElementOfSeq, LenProperties DEF JumpsInv
    <3>2. SoundCall(connections, [calls[j] EXCEPT !.newest = FALSE])
      BY <3>1 DEF SoundCall, CallSet, CallsOf
    <3> QED
      BY <2>1, <3>1, <3>2
  <2> QED
    BY <2>1, <2>2
<1> HIDE DEF q
<1>5. CASE SendSucceeds(i)
  <2> DEFINE call == [calls[i] EXCEPT !.stage = "list", !.row = None]
  <2>1. call \in CallSet /\ SoundCall(connections, call)
    BY <1>1, SentCall DEF SoundCall, CallSet, CallsOf
  <2>2. calls' = [calls EXCEPT ![i] = call]
    BY <1>5 DEF SendSucceeds
  <2> HIDE DEF call
  <2>3. DOMAIN calls' = DOMAIN calls /\ calls'[i] = call /\ \A j \in DOMAIN calls \ {i} : calls'[j] = calls[j]
    BY <1>1, <2>1, <2>2, ReplacedElement
  <2> QED
    BY <2>1, <2>3 DEF JumpsInv
<1>6. CASE SendFails(i) \/ ListLands(i)
  BY <1>1, <1>3, <1>6 DEF SendFails, ListLands, Continue, JumpsInv
<1>7. CASE ReadTable(i)
  <2> DEFINE call == [q[i] EXCEPT !.stage = "land", !.rows = Rows(calls[i].table), !.newest = TRUE]
  <2>0. q[i] = [calls[i] EXCEPT !.newest = FALSE]
    BY <1>1, SupersededCalls DEF q
  <2>1. q[i] \in CallSet /\ q[i].table = calls[i].table
    BY <1>1, <2>0, NotNewest DEF CallSet, CallsOf
  <2>2. call \in CallSet
    BY <2>1, RowsTypes, ReadCall
  <2>3. SoundCall(connections, call)
    BY <2>1, ReadSound DEF SoundCall, CallSet, CallsOf
  <2>4. calls' = [q EXCEPT ![i] = call]
    BY <1>7 DEF ReadTable, q
  <2> HIDE DEF call
  <2>5. DOMAIN calls' = DOMAIN q /\ calls'[i] = call /\ \A j \in DOMAIN q \ {i} : calls'[j] = q[j]
    BY <1>4, <2>2, <2>4, ReplacedElement
  <2> QED
    BY <1>4, <2>3, <2>5
<1>8. CASE ReadFails(i)
  BY <1>3, <1>4, <1>8 DEF ReadFails, q
<1> QED
  BY <1>5, <1>6, <1>7, <1>8 DEF Step

\* What the sidebar and the form send, and what the form holds.
LEMMA ClicksSound ==
    ASSUME TypeOK, JumpsInv, Sidebar \/ ConnectionForm
    PROVE  /\ \A k \in DOMAIN calls' : SoundCall(connections, calls'[k])
           /\ form' # None => Sound(connections, form'.conn, form'.jumps)
           /\ list' = list
<1> USE DEF tableVars, listVars, callVars, clickVars
<1>1. calls \in Seq(CallSet) /\ \A k \in DOMAIN calls : SoundCall(connections, calls[k])
  BY DEF TypeOK, JumpsInv
<1>2. ASSUME NEW call \in CallSet, Start(call), SoundCall(connections, call)
      PROVE  \A k \in DOMAIN calls' : SoundCall(connections, calls'[k])
  <2>1. /\ calls' \in Seq(CallSet) /\ Len(calls') = Len(calls) + 1
        /\ calls'[Len(calls) + 1] = call
        /\ \A k \in 1..Len(calls) : calls'[k] = calls[k]
    BY <1>1, <1>2, AppendProperties DEF Start
  <2>2. DOMAIN calls' = 1..(Len(calls) + 1) /\ DOMAIN calls = 1..Len(calls) /\ Len(calls) \in Nat
    BY <1>1, <2>1, LenProperties
  <2> QED
    BY <1>1, <1>2, <2>1, <2>2
<1>3. ASSUME form' = form PROVE form' # None => Sound(connections, form'.conn, form'.jumps)
  BY <1>3 DEF JumpsInv
<1>4. ASSUME calls' = calls PROVE \A k \in DOMAIN calls' : SoundCall(connections, calls'[k])
  BY <1>1, <1>4
<1>5. CASE Sidebar
  <2>1. ASSUME NEW g \in Groups, GroupHeader(g)
        PROVE  \A k \in DOMAIN calls' : SoundCall(connections, calls'[k])
    <3>1. list.groups[g] \in GroupRow
      BY <2>1 DEF GroupHeader, GroupListed, TypeOK, GroupRows
    <3>2. ASSUME NEW row \in GroupRow, Start(Call("save", "groups", g, row))
          PROVE  \A k \in DOMAIN calls' : SoundCall(connections, calls'[k])
      <4>1. Call("save", "groups", g, row) \in CallSet
        BY NewCall DEF Tables
      <4>2. SoundCall(connections, Call("save", "groups", g, row))
        BY DEF SoundCall, Call
      <4> QED
        BY <1>2, <3>2, <4>1, <4>2
    <3>3. CASE ToggleGroup(g)
      <4> DEFINE row == [list.groups[g] EXCEPT !.isExpanded = ~list.groups[g].isExpanded]
      <4>1. row \in GroupRow
        BY <3>1 DEF GroupRow
      <4> HIDE DEF row
      <4>2. Start(Call("save", "groups", g, row))
        BY <3>3 DEF ToggleGroup, ChangeGroup, row
      <4> QED
        BY <3>2, <4>1, <4>2
    <3>4. ASSUME NEW n \in Names, SaveRename(g, n)
          PROVE  \A k \in DOMAIN calls' : SoundCall(connections, calls'[k])
      <4> DEFINE row == [list.groups[g] EXCEPT !.name = n]
      <4>1. row \in GroupRow
        BY <3>1 DEF GroupRow
      <4> HIDE DEF row
      <4>2. Start(Call("save", "groups", g, row))
        BY <3>4 DEF SaveRename, ChangeGroup, row
      <4> QED
        BY <3>2, <4>1, <4>2
    <3>5. CASE RenameGroup(g) \/ CancelRename(g)
      BY <1>4, <3>5 DEF RenameGroup, CancelRename
    <3>6. CASE HandleDeleteGroup(g)
      <4>1. Call("delete", "groups", g, None) \in CallSet
        BY NewCall DEF Tables
      <4>2. SoundCall(connections, Call("delete", "groups", g, None))
        BY DEF SoundCall, Call
      <4> QED
        BY <1>2, <3>6, <4>1, <4>2 DEF HandleDeleteGroup
    <3> QED
      BY <2>1, <3>3, <3>4, <3>5, <3>6 DEF GroupHeader
  <2>2. ASSUME NEW g \in Groups, GroupHeader(g) PROVE form' = form /\ list' = list
    BY <2>2 DEF GroupHeader, ToggleGroup, RenameGroup, CancelRename, HandleDeleteGroup, SaveRename,
                ChangeGroup
  <2>3. ASSUME NEW c \in Conns, RemoveConnection(c)
        PROVE  /\ \A k \in DOMAIN calls' : SoundCall(connections, calls'[k])
               /\ form' = form /\ list' = list
    <3>1. Call("delete", "connections", c, None) \in CallSet
      BY NewCall DEF Tables
    <3>2. SoundCall(connections, Call("delete", "connections", c, None))
      BY DEF SoundCall, Call
    <3> QED
      BY <1>2, <2>3, <3>1, <3>2 DEF RemoveConnection
  <2>4. ASSUME NEW c \in Conns, ConnectionShown(c), EditConnection(c)
        PROVE  /\ calls' = calls /\ list' = list
               /\ Sound(connections, form'.conn, form'.jumps)
    <3>1. form'.conn = c /\ form'.jumps = list.connections[c].jumps
      BY <2>4 DEF EditConnection, OpenForm, BlankForm
    <3>2. Sound(connections, c, list.connections[c].jumps)
      BY <2>4 DEF ConnectionShown, JumpsInv, SoundRows
    <3> QED
      BY <2>4, <3>1, <3>2 DEF EditConnection, OpenForm
  <2>5. ASSUME NEW n \in Names, HandleCreateGroup(n)
        PROVE  /\ \A k \in DOMAIN calls' : SoundCall(connections, calls'[k])
               /\ form' = form /\ list' = list
    <3>1. FreshGroup(n) \in GroupRow
      BY DEF FreshGroup, GroupRow
    <3>2. Call("save", "groups", None, FreshGroup(n)) \in CallSet
      BY <3>1, NewCall DEF Tables
    <3>3. SoundCall(connections, Call("save", "groups", None, FreshGroup(n)))
      BY DEF SoundCall, Call
    <3> QED
      BY <1>2, <2>5, <3>2, <3>3 DEF HandleCreateGroup
  <2>6. CASE NewConnection
    <3>1. calls' = calls /\ list' = list /\ form'.jumps = <<>>
      BY <2>6 DEF NewConnection, OpenForm, BlankForm
    <3>2. DOMAIN <<>> = {}
      BY EmptySeq, LenProperties
    <3>3. Sound(connections, form'.conn, form'.jumps)
      BY <3>1, <3>2 DEF Sound, JumpsSoundFor, NoDuplicates
    <3> QED
      BY <1>4, <3>1, <3>3
  <2> QED
    BY <1>3, <1>4, <1>5, <2>1, <2>2, <2>3, <2>4, <2>5, <2>6 DEF Sidebar, ConnectionItem
<1>6. CASE ConnectionForm
  <2>1. /\ form # None /\ form.conn \in Conns \cup {None} /\ form.jumps \in Seq(Conns)
        /\ form \in [conn : Conns \cup {None}, group : Groups \cup {None},
                     jumps : Seq(Conns), saving : BOOLEAN]
        /\ Sound(connections, form.conn, form.jumps)
    BY <1>6 DEF ConnectionForm, TypeOK, JumpsInv
  <2>2. ASSUME NEW r, Sound(connections, form.conn, r), SetForm([form EXCEPT !.jumps = r])
        PROVE  /\ \A k \in DOMAIN calls' : SoundCall(connections, calls'[k])
               /\ form' # None => Sound(connections, form'.conn, form'.jumps)
               /\ list' = list
    BY <1>4, <2>1, <2>2 DEF SetForm
  <2>3. CASE FormFields
    BY <1>4, <2>1, <2>3 DEF FormFields, SetForm
  <2>4. CASE \E c \in AvailableJumpHosts \ ToSet(form.jumps) : AddJumpHost(c)
    <3>1. PICK c \in AvailableJumpHosts \ ToSet(form.jumps) : AddJumpHost(c)
      BY <2>4
    <3>2. c \in Conns /\ c # form.conn /\ list.connections[c] # None /\ c \notin ToSet(form.jumps)
      BY DEF AvailableJumpHosts
    <3>3. connections[c] # None
      BY <3>2 DEF JumpsInv, SoundRows
    <3>4. Sound(connections, form.conn, Append(form.jumps, c))
      BY <2>1, <3>2, <3>3, SoundAppend
    <3> QED
      BY <2>2, <3>1, <3>4 DEF AddJumpHost
  <2>5. ASSUME NEW i \in DOMAIN form.jumps, RemoveJumpHost(i)
        PROVE  /\ \A k \in DOMAIN calls' : SoundCall(connections, calls'[k])
               /\ form' # None => Sound(connections, form'.conn, form'.jumps)
               /\ list' = list
    BY <2>1, <2>2, <2>5, SoundRemove DEF RemoveJumpHost
  <2>6. ASSUME NEW i \in DOMAIN form.jumps, NEW j \in DOMAIN form.jumps, MoveJumpHost(i, j)
        PROVE  /\ \A k \in DOMAIN calls' : SoundCall(connections, calls'[k])
               /\ form' # None => Sound(connections, form'.conn, form'.jumps)
               /\ list' = list
    BY <2>1, <2>2, <2>6, SoundSwap DEF MoveJumpHost
  <2>7. CASE SubmitForm
    <3> DEFINE row == [group |-> form.group, jumps |-> form.jumps, tuned |-> FALSE, deleted |-> FALSE]
               call == Call("save", "connections", form.conn, row)
    <3>1. row \in ConnRow /\ row.jumps = form.jumps
      BY <2>1 DEF ConnRow
    <3> HIDE DEF row
    <3>2. call \in CallSet
      BY <2>1, <3>1, NewCall DEF Tables
    <3>3. SoundCall(connections, call)
      BY <2>1, <3>1 DEF SoundCall, Call
    <3>4. Start(call)
      BY <2>7 DEF SubmitForm, row
    <3>5. form'.conn = form.conn /\ form'.jumps = form.jumps /\ list' = list
      BY <2>1, <2>7 DEF SubmitForm
    <3> HIDE DEF call
    <3> QED
      BY <1>2, <2>1, <3>2, <3>3, <3>4, <3>5
  <2>8. CASE CloseForm
    BY <1>4, <2>8 DEF CloseForm
  <2> QED
    BY <1>6, <2>3, <2>4, <2>5, <2>6, <2>7, <2>8 DEF ConnectionForm, JumpHosts
<1> QED
  BY <1>5, <1>6

LEMMA StepJumpsInv == TypeOK /\ JumpsInv /\ [Next]_vars => JumpsInv'
<1> SUFFICES ASSUME TypeOK, JumpsInv, [Next]_vars PROVE JumpsInv'
  OBVIOUS
<1>1. TypeOK' /\ \A d \in Conns : connections[d] # None => connections'[d] # None
  BY StepTypeOK, RowsStay
<1>2. /\ \A c, q : q \in Seq(Conns) /\ Sound(connections, c, q) => Sound(connections', c, q)
      /\ \A rows \in ConnRows : SoundRows(connections, rows) => SoundRows(connections', rows)
      /\ \A call \in CallSet : SoundCall(connections, call) => SoundCall(connections', call)
  BY <1>1, SoundGrows
<1>3. SoundRows(connections', connections')
  BY TableSound
<1>4. SoundRows(connections, list'.connections)
  <2>1. CASE \E i \in DOMAIN calls : ListLands(i)
    <3>1. PICK i \in DOMAIN calls : ListLands(i)
      BY <2>1
    <3>2. calls[i].table \in Tables
      BY CallShape, ElementOfSeq, LenProperties DEF TypeOK
    <3>3. CASE calls[i].table = "connections"
      BY <3>1, <3>3 DEF ListLands, JumpsInv, SoundCall, TypeOK
    <3>4. CASE calls[i].table = "groups"
      BY <3>1, <3>4 DEF ListLands, JumpsInv, TypeOK
    <3> QED
      BY <3>2, <3>3, <3>4 DEF Tables
  <2>2. CASE list' = list
    BY <2>2 DEF JumpsInv
  <2>3. CASE \E i \in DOMAIN calls : Step(i) /\ ~ListLands(i)
    BY <2>2, <2>3 DEF Step, SendSucceeds, SendFails, ReadTable, ReadFails, listVars
  <2> QED
    BY <2>1, <2>2, <2>3, ClicksSound DEF Next, vars
<1>5. \A k \in DOMAIN calls' : SoundCall(connections, calls'[k])
  BY CallsSound, ClicksSound DEF Next, vars, JumpsInv
<1>6. form' # None => Sound(connections, form'.conn, form'.jumps)
  <2>1. ASSUME NEW i \in DOMAIN calls, Step(i) PROVE form' = form \/ form' = None
    BY <2>1 DEF Step, SendSucceeds, SendFails, ReadTable, ReadFails, ListLands, Continue, ContinueWith
  <2> QED
    BY <2>1, ClicksSound DEF Next, vars, JumpsInv
<1>7. list'.connections \in ConnRows
  BY <1>1 DEF TypeOK
<1>8. \A k \in DOMAIN calls' : calls'[k] \in CallSet
  BY <1>1, ElementOfSeq, LenProperties DEF TypeOK
<1>9. form' # None => form'.jumps \in Seq(Conns)
  BY <1>1 DEF TypeOK
<1>10. SoundRows(connections', list'.connections)
  BY <1>2, <1>4, <1>7
<1>11. \A k \in DOMAIN calls' : SoundCall(connections', calls'[k])
  BY <1>2, <1>5, <1>8
<1>12. form' # None => Sound(connections', form'.conn, form'.jumps)
  BY <1>2, <1>6, <1>9
<1> QED
  BY <1>3, <1>10, <1>11, <1>12 DEF JumpsInv

LEMMA InitJumpsInv == Init => JumpsInv
<1> SUFFICES ASSUME Init PROVE JumpsInv
  OBVIOUS
<1>1. DOMAIN <<>> = {}
  BY EmptySeq, LenProperties
<1>2. \A c \in Conns : connections[c] # None => connections[c].jumps = <<>>
  BY DEF Init, FreshRow
<1>3. SoundRows(connections, connections)
  BY <1>1, <1>2 DEF SoundRows, Sound, JumpsSoundFor, NoDuplicates
<1>4. SoundRows(connections, list.connections)
  BY DEF Init, SoundRows
<1>5. \A t \in Tables : Loading(t).stage = "list"
  BY DEF Loading, Call
<1>6. DOMAIN calls = 1..2 /\ calls[1] = Loading("connections") /\ calls[2] = Loading("groups")
  BY DEF Init
<1>7. \A i \in DOMAIN calls : calls[i].stage = "list"
  BY <1>5, <1>6 DEF Tables
<1>8. \A i \in DOMAIN calls : SoundCall(connections, calls[i])
  BY <1>7 DEF SoundCall
<1> QED
  BY <1>3, <1>4, <1>8 DEF JumpsInv, Init

\* No connection is ever stored, or put into the form, with a jump list that names it or
\* names a host twice.
THEOREM JumpListsAreSound == Spec => []JumpsSound
<1>1. JumpsInv => JumpsSound
  BY DEF JumpsInv, JumpsSound, SoundRows, Sound
<1>2. Spec => [](TypeOK /\ JumpsInv)
  BY InitTypes, InitJumpsInv, StepTypeOK, StepJumpsInv, PTL DEF Spec
<1> QED
  BY <1>1, <1>2, PTL

-----------------------------------------------------------------------------
(* The lists                                                                *)

\* An operation that has yet to read t.
Reading(t) == \E i \in DOMAIN calls : calls[i].table = t /\ calls[i].stage = "list"

Landing(call, t) == call.table = t /\ call.stage = "land" /\ call.newest

\* A list that holds the last reading, and the last reading on its way, are the table,
\* unless someone is still going to read it.
ListsInvAt(t) ==
    /\ t \notin stale => list[t] = Rows(t) \/ Reading(t)
    /\ \A i \in DOMAIN calls : Landing(calls[i], t) => calls[i].rows = Rows(t) \/ Reading(t)

ListsInv == \A t \in Tables : ListsInvAt(t)

\* What is enough for a step to keep the invariant for a table it does not write.
LEMMA ListsKept ==
    ASSUME NEW t \in Tables, ListsInvAt(t), Rows(t)' = Rows(t),
           t \notin stale' => t \notin stale /\ list'[t] = list[t],
           Reading(t) => Reading(t)',
           \A k \in DOMAIN calls' : Landing(calls'[k], t) =>
                \E j \in DOMAIN calls : Landing(calls[j], t) /\ calls[j].rows = calls'[k].rows
    PROVE  ListsInvAt(t)'
BY DEF ListsInvAt

LEMMA RowsKept ==
    ASSUME NEW t \in Tables,
           t = "connections" => connections' = connections,
           t = "groups" => groups' = groups
    PROVE  Rows(t)' = Rows(t)
BY DEF Rows, Live, Tables

\* A click sends at most one operation, behind the others.
LEMMA ClickCalls ==
    ASSUME TypeOK, Sidebar \/ ConnectionForm
    PROVE  /\ UNCHANGED <<tableVars, listVars>>
           /\ \/ calls' = calls
              \/ \E call \in CallSet : call.stage = "send" /\ calls' = Append(calls, call)
<1> USE DEF tableVars, listVars, callVars, clickVars
<1>1. ASSUME NEW o, NEW t \in Tables, NEW i, NEW r, Start(Call(o, t, i, r))
      PROVE  \E call : call.stage = "send" /\ calls' = Append(calls, call)
  BY <1>1 DEF Start, Call
<1>2. calls' = calls \/ \E call : call.stage = "send" /\ calls' = Append(calls, call)
  <2>1. ASSUME NEW g \in Groups, GroupHeader(g)
        PROVE  calls' = calls \/ \E call : call.stage = "send" /\ calls' = Append(calls, call)
    <3>1. CASE ToggleGroup(g)
      BY <1>1, <3>1 DEF ToggleGroup, ChangeGroup, Tables
    <3>2. ASSUME NEW n \in Names, SaveRename(g, n)
          PROVE  \E call : call.stage = "send" /\ calls' = Append(calls, call)
      BY <1>1, <3>2 DEF SaveRename, ChangeGroup, Tables
    <3>3. CASE RenameGroup(g) \/ CancelRename(g)
      BY <3>3 DEF RenameGroup, CancelRename
    <3>4. CASE HandleDeleteGroup(g)
      BY <1>1, <3>4 DEF HandleDeleteGroup, Tables
    <3> QED
      BY <2>1, <3>1, <3>2, <3>3, <3>4 DEF GroupHeader
  <2>2. ASSUME NEW c \in Conns, RemoveConnection(c)
        PROVE  \E call : call.stage = "send" /\ calls' = Append(calls, call)
    BY <1>1, <2>2 DEF RemoveConnection, Tables
  <2>3. ASSUME NEW n \in Names, HandleCreateGroup(n)
        PROVE  \E call : call.stage = "send" /\ calls' = Append(calls, call)
    BY <1>1, <2>3 DEF HandleCreateGroup, Tables
  <2>4. CASE NewConnection \/ \E c \in Conns : EditConnection(c)
    BY <2>4 DEF NewConnection, EditConnection, OpenForm
  <2>5. CASE FormFields \/ JumpHosts \/ CloseForm
    BY <2>5 DEF FormFields, JumpHosts, CloseForm, SetForm, AddJumpHost, RemoveJumpHost, MoveJumpHost
  <2>6. CASE SubmitForm
    BY <1>1, <2>6 DEF SubmitForm, Tables
  <2> QED
    BY <2>1, <2>2, <2>3, <2>4, <2>5, <2>6 DEF Sidebar, ConnectionItem, ConnectionForm
<1>3. UNCHANGED <<tableVars, listVars>>
  <2>1. ASSUME NEW g \in Groups, GroupHeader(g) PROVE UNCHANGED <<tableVars, listVars>>
    BY <2>1 DEF GroupHeader, ToggleGroup, RenameGroup, CancelRename, HandleDeleteGroup, SaveRename,
                ChangeGroup
  <2>2. CASE Sidebar
    BY <2>1, <2>2 DEF Sidebar, ConnectionItem, RemoveConnection, EditConnection, OpenForm,
                      HandleCreateGroup, NewConnection
  <2>3. CASE ConnectionForm
    BY <2>3 DEF ConnectionForm, FormFields, JumpHosts, SubmitForm, CloseForm, SetForm, AddJumpHost,
                RemoveJumpHost, MoveJumpHost
  <2> QED
    BY <2>2, <2>3
<1>4. ASSUME NEW call, calls' = Append(calls, call) PROVE call \in CallSet
  <2>1. calls \in Seq(CallSet) /\ calls' \in Seq(CallSet)
    BY SidebarTypes, FormTypes DEF TypeOK
  <2>2. Len(calls) \in Nat /\ Len(calls') = Len(calls) + 1 /\ calls'[Len(calls) + 1] = call
    BY <1>4, <2>1
  <2> QED
    BY <2>1, <2>2, ElementOfSeq
<1> QED
  BY <1>2, <1>3, <1>4

LEMMA ClickLists ==
    ASSUME TypeOK, ListsInv, Sidebar \/ ConnectionForm
    PROVE  ListsInv'
<1> SUFFICES ASSUME NEW t \in Tables PROVE ListsInvAt(t)'
  BY DEF ListsInv
<1>1. /\ connections' = connections /\ groups' = groups /\ list' = list /\ stale' = stale
      /\ \/ calls' = calls
         \/ \E call \in CallSet : call.stage = "send" /\ calls' = Append(calls, call)
  BY ClickCalls DEF tableVars, listVars
<1>2. Rows(t)' = Rows(t)
  BY <1>1, RowsKept
<1>3. CASE calls' = calls
  BY <1>1, <1>2, <1>3, ListsKept DEF ListsInv, Reading
<1>4. ASSUME NEW call \in CallSet, call.stage = "send", calls' = Append(calls, call)
      PROVE  ListsInvAt(t)'
  <2>1. /\ calls \in Seq(CallSet) /\ Len(calls) \in Nat /\ DOMAIN calls = 1..Len(calls)
        /\ DOMAIN calls' = 1..(Len(calls) + 1) /\ calls'[Len(calls) + 1] = call
        /\ \A k \in 1..Len(calls) : calls'[k] = calls[k]
    BY <1>4, AppendProperties, LenProperties DEF TypeOK
  <2>2. Reading(t) => Reading(t)'
    BY <2>1 DEF Reading
  <2>3. ASSUME NEW k \in DOMAIN calls', Landing(calls'[k], t)
        PROVE  \E j \in DOMAIN calls : Landing(calls[j], t) /\ calls[j].rows = calls'[k].rows
    BY <1>4, <2>1, <2>3 DEF Landing
  <2> QED
    BY <1>1, <1>2, <2>2, <2>3, ListsKept DEF ListsInv
<1> QED
  BY <1>1, <1>3, <1>4

\* A write makes the list of its table old, and its operation reads it next.
LEMMA SendLists ==
    ASSUME TypeOK, ListsInv, NEW i \in DOMAIN calls, SendSucceeds(i)
    PROVE  ListsInv'
<1> SUFFICES ASSUME NEW t \in Tables PROVE ListsInvAt(t)'
  BY DEF ListsInv
<1> DEFINE call == [calls[i] EXCEPT !.stage = "list", !.row = None]
<1>1. calls \in Seq(CallSet) /\ calls[i] \in CallSet /\ calls[i].table \in Tables
  BY ElementOfSeq, LenProperties, CallShape DEF TypeOK
<1>2. call \in CallSet /\ call.stage = "list" /\ call.table = calls[i].table
  BY <1>1, SentCall DEF CallSet, CallsOf
<1>3. calls' = [calls EXCEPT ![i] = call] /\ list' = list /\ stale' = stale
  BY DEF SendSucceeds, listVars
<1>4. Write(calls[i]) /\ calls[i].stage = "send"
  BY DEF SendSucceeds
<1> HIDE DEF call
<1>5. DOMAIN calls' = DOMAIN calls /\ calls'[i] = call /\ \A j \in DOMAIN calls \ {i} : calls'[j] = calls[j]
  BY <1>1, <1>2, <1>3, ReplacedElement
<1>6. CASE t = calls[i].table
  <2>1. Reading(t)'
    BY <1>2, <1>5, <1>6 DEF Reading
  <2> QED
    BY <2>1 DEF ListsInvAt
<1>7. CASE t # calls[i].table
  <2>1. Rows(t)' = Rows(t)
    BY <1>1, <1>4, <1>7, RowsKept DEF Write, Tables
  <2>2. Reading(t) => Reading(t)'
    BY <1>4, <1>5 DEF Reading
  <2>3. ASSUME NEW k \in DOMAIN calls', Landing(calls'[k], t)
        PROVE  \E j \in DOMAIN calls : Landing(calls[j], t) /\ calls[j].rows = calls'[k].rows
    BY <1>2, <1>5, <1>7, <2>3 DEF Landing
  <2> QED
    BY <1>3, <2>1, <2>2, <2>3, ListsKept DEF ListsInv
<1> QED
  BY <1>6, <1>7

\* What returns from another stage than "list" was not going to read.
LEMMA ReturnLists ==
    ASSUME TypeOK, NEW i \in DOMAIN calls, NEW cs \in Seq(CallSet), DOMAIN cs = DOMAIN calls,
           ContinueWith(i, cs), NEW t \in Tables,
           \A j \in DOMAIN calls : cs[j].table = calls[j].table /\ cs[j].stage = calls[j].stage
    PROVE  /\ (\E j \in DOMAIN calls \ {i} : calls[j].table = t /\ calls[j].stage = "list") => Reading(t)'
           /\ \A k \in DOMAIN calls' :
                Landing(calls'[k], t) => \E j \in DOMAIN cs \ {i} : calls'[k] = cs[j]
<1>1. /\ calls' = Returned(i, cs)
      /\ \A k \in DOMAIN calls' : \/ calls'[k] = Loading("connections")
                                  \/ \E j \in DOMAIN cs \ {i} : calls'[k] = cs[j]
      /\ \A j \in DOMAIN cs \ {i} : \E k \in DOMAIN calls' : calls'[k] = cs[j]
  BY ReturnedCalls DEF ContinueWith
<1>2. ~Landing(Loading("connections"), t)
  BY LoadingIsCall DEF Landing, Tables
<1>3. ASSUME NEW j \in DOMAIN calls \ {i}, calls[j].table = t, calls[j].stage = "list"
      PROVE  Reading(t)'
  <2>1. PICK k \in DOMAIN calls' : calls'[k] = cs[j]
    BY <1>1
  <2> QED
    BY <1>3, <2>1 DEF Reading
<1> QED
  BY <1>1, <1>2, <1>3

LEMMA FailedSendLists ==
    ASSUME TypeOK, ListsInv, NEW i \in DOMAIN calls, SendFails(i)
    PROVE  ListsInv'
<1> SUFFICES ASSUME NEW t \in Tables PROVE ListsInvAt(t)'
  BY DEF ListsInv
<1>1. /\ calls[i].stage = "send" /\ ContinueWith(i, calls) /\ calls \in Seq(CallSet)
      /\ connections' = connections /\ groups' = groups /\ list' = list /\ stale' = stale
  BY DEF SendFails, Continue, tableVars, listVars, TypeOK
<1>2. Rows(t)' = Rows(t)
  BY <1>1, RowsKept
<1>3. /\ (\E j \in DOMAIN calls \ {i} : calls[j].table = t /\ calls[j].stage = "list") => Reading(t)'
      /\ \A k \in DOMAIN calls' :
            Landing(calls'[k], t) => \E j \in DOMAIN calls \ {i} : calls'[k] = calls[j]
  BY <1>1, ReturnLists
<1>4. Reading(t) => Reading(t)'
  BY <1>1, <1>3 DEF Reading
<1>5. ASSUME NEW k \in DOMAIN calls', Landing(calls'[k], t)
      PROVE  \E j \in DOMAIN calls : Landing(calls[j], t) /\ calls[j].rows = calls'[k].rows
  BY <1>3, <1>5
<1> QED
  BY <1>1, <1>2, <1>4, <1>5, ListsKept DEF ListsInv

\* Of the lists of a table that are on their way, none but the last reading is marked.
LEMMA SupersededLists ==
    ASSUME TypeOK, NEW i \in DOMAIN calls
    PROVE  LET q == Superseded(calls, calls[i].table)
           IN  /\ q \in Seq(CallSet) /\ DOMAIN q = DOMAIN calls
               /\ \A j \in DOMAIN calls :
                    /\ q[j] \in CallSet
                    /\ q[j].table = calls[j].table /\ q[j].stage = calls[j].stage
                    /\ calls[j].table = calls[i].table => ~q[j].newest
                    /\ calls[j].table # calls[i].table => q[j] = calls[j]
<1> DEFINE q == Superseded(calls, calls[i].table)
<1>1. calls \in Seq(CallSet) /\ calls[i].table \in Tables
  BY ElementOfSeq, LenProperties, CallShape DEF TypeOK
<1>2. /\ q \in Seq(CallSet) /\ DOMAIN q = DOMAIN calls
      /\ \A j \in DOMAIN calls :
            q[j] = IF calls[j].table = calls[i].table THEN [calls[j] EXCEPT !.newest = FALSE]
                   ELSE calls[j]
  BY <1>1, SupersededCalls
<1> HIDE DEF q
<1>3. ASSUME NEW j \in DOMAIN calls
      PROVE  /\ q[j] \in CallSet
             /\ q[j].table = calls[j].table /\ q[j].stage = calls[j].stage
             /\ calls[j].table = calls[i].table => ~q[j].newest
             /\ calls[j].table # calls[i].table => q[j] = calls[j]
  <2>1. calls[j] \in CallSet
    BY <1>1, ElementOfSeq, LenProperties
  <2>2. LET e == [calls[j] EXCEPT !.newest = FALSE]
        IN  e \in CallSet /\ e.table = calls[j].table /\ e.stage = calls[j].stage /\ ~e.newest
    BY <2>1 DEF CallSet, CallsOf
  <2> QED
    BY <1>2, <2>1, <2>2
<1> QED
  BY <1>2, <1>3 DEF q

LEMMA ReadLists ==
    ASSUME TypeOK, ListsInv, NEW i \in DOMAIN calls, ReadTable(i)
    PROVE  ListsInv'
<1> SUFFICES ASSUME NEW t \in Tables PROVE ListsInvAt(t)'
  BY DEF ListsInv
<1> DEFINE q == Superseded(calls, calls[i].table)
           call == [q[i] EXCEPT !.stage = "land", !.rows = Rows(calls[i].table), !.newest = TRUE]
<1>1. /\ calls[i].stage = "list" /\ calls' = [q EXCEPT ![i] = call]
      /\ stale' = stale \cup {calls[i].table} /\ list' = list
      /\ connections' = connections /\ groups' = groups
  BY DEF ReadTable, tableVars
<1>2. Rows(t)' = Rows(t)
  BY <1>1, RowsKept
<1>3. /\ q \in Seq(CallSet) /\ DOMAIN q = DOMAIN calls
      /\ \A j \in DOMAIN calls :
            /\ q[j] \in CallSet
            /\ q[j].table = calls[j].table /\ q[j].stage = calls[j].stage
            /\ calls[j].table = calls[i].table => ~q[j].newest
            /\ calls[j].table # calls[i].table => q[j] = calls[j]
  BY SupersededLists
<1> HIDE DEF q
<1>4. call \in CallSet
  BY <1>3, RowsTypes, ReadCall
<1>5. call.table = calls[i].table /\ call.rows = Rows(calls[i].table) /\ call.stage = "land"
  BY <1>3 DEF CallSet, CallsOf
<1> HIDE DEF call
<1>6. DOMAIN calls' = DOMAIN calls /\ calls'[i] = call /\ \A j \in DOMAIN calls \ {i} : calls'[j] = q[j]
  BY <1>1, <1>3, <1>4, ReplacedElement
<1>7. CASE t = calls[i].table
  <2>1. ASSUME NEW k \in DOMAIN calls', Landing(calls'[k], t) PROVE calls'[k].rows = Rows(t)
    BY <1>3, <1>5, <1>6, <1>7, <2>1 DEF Landing
  <2> QED
    BY <1>1, <1>2, <1>7, <2>1 DEF ListsInvAt
<1>8. CASE t # calls[i].table
  <2>1. Reading(t) => Reading(t)'
    BY <1>3, <1>6, <1>8 DEF Reading
  <2>2. ASSUME NEW k \in DOMAIN calls', Landing(calls'[k], t)
        PROVE  \E j \in DOMAIN calls : Landing(calls[j], t) /\ calls[j].rows = calls'[k].rows
    BY <1>3, <1>5, <1>6, <1>8, <2>2 DEF Landing
  <2> QED
    BY <1>1, <1>2, <1>8, <2>1, <2>2, ListsKept DEF ListsInv
<1> QED
  BY <1>7, <1>8

LEMMA FailedReadLists ==
    ASSUME TypeOK, ListsInv, NEW i \in DOMAIN calls, ReadFails(i)
    PROVE  ListsInv'
<1> SUFFICES ASSUME NEW t \in Tables PROVE ListsInvAt(t)'
  BY DEF ListsInv
<1> DEFINE q == Superseded(calls, calls[i].table)
<1>1. /\ calls[i].stage = "list" /\ ContinueWith(i, q)
      /\ stale' = stale \cup {calls[i].table} /\ list' = list
      /\ connections' = connections /\ groups' = groups
  BY DEF ReadFails, tableVars
<1>2. Rows(t)' = Rows(t)
  BY <1>1, RowsKept
<1>3. /\ q \in Seq(CallSet) /\ DOMAIN q = DOMAIN calls
      /\ \A j \in DOMAIN calls :
            /\ q[j] \in CallSet
            /\ q[j].table = calls[j].table /\ q[j].stage = calls[j].stage
            /\ calls[j].table = calls[i].table => ~q[j].newest
            /\ calls[j].table # calls[i].table => q[j] = calls[j]
  BY SupersededLists
<1> HIDE DEF q
<1>4. /\ (\E j \in DOMAIN calls \ {i} : calls[j].table = t /\ calls[j].stage = "list") => Reading(t)'
      /\ \A k \in DOMAIN calls' : Landing(calls'[k], t) => \E j \in DOMAIN q \ {i} : calls'[k] = q[j]
  BY <1>1, <1>3, ReturnLists
<1>5. CASE t = calls[i].table
  <2>1. \A k \in DOMAIN calls' : ~Landing(calls'[k], t)
    BY <1>3, <1>4, <1>5 DEF Landing
  <2> QED
    BY <1>1, <1>5, <2>1 DEF ListsInvAt
<1>6. CASE t # calls[i].table
  <2>1. Reading(t) => Reading(t)'
    BY <1>4, <1>6 DEF Reading
  <2>2. ASSUME NEW k \in DOMAIN calls', Landing(calls'[k], t)
        PROVE  \E j \in DOMAIN calls : Landing(calls[j], t) /\ calls[j].rows = calls'[k].rows
    BY <1>3, <1>4, <1>6, <2>2 DEF Landing
  <2> QED
    BY <1>1, <1>2, <1>6, <2>1, <2>2, ListsKept DEF ListsInv
<1> QED
  BY <1>5, <1>6

LEMMA LandLists ==
    ASSUME TypeOK, ListsInv, NEW i \in DOMAIN calls, ListLands(i)
    PROVE  ListsInv'
<1> SUFFICES ASSUME NEW t \in Tables PROVE ListsInvAt(t)'
  BY DEF ListsInv
<1>1. /\ calls[i].stage = "land" /\ ContinueWith(i, calls) /\ calls \in Seq(CallSet)
      /\ list' = [list EXCEPT ![calls[i].table] = calls[i].rows]
      /\ stale' = IF calls[i].newest THEN stale \ {calls[i].table} ELSE stale \cup {calls[i].table}
      /\ connections' = connections /\ groups' = groups
  BY DEF ListLands, Continue, tableVars, TypeOK
<1>2. Rows(t)' = Rows(t)
  BY <1>1, RowsKept
<1>3. /\ (\E j \in DOMAIN calls \ {i} : calls[j].table = t /\ calls[j].stage = "list") => Reading(t)'
      /\ \A k \in DOMAIN calls' :
            Landing(calls'[k], t) => \E j \in DOMAIN calls \ {i} : calls'[k] = calls[j]
  BY <1>1, ReturnLists
<1>4. Reading(t) => Reading(t)'
  BY <1>1, <1>3 DEF Reading
<1>5. ASSUME NEW k \in DOMAIN calls', Landing(calls'[k], t)
      PROVE  \E j \in DOMAIN calls : Landing(calls[j], t) /\ calls[j].rows = calls'[k].rows
  BY <1>3, <1>5
<1>6. t \in DOMAIN list
  BY DEF TypeOK, Tables
<1>7. CASE t = calls[i].table
  <2>1. t \notin stale' => Landing(calls[i], t)
    BY <1>1, <1>7 DEF Landing
  <2>2. Landing(calls[i], t) => list'[t] = Rows(t) \/ Reading(t)
    BY <1>1, <1>6, <1>7 DEF ListsInv, ListsInvAt
  <2>3. \A k \in DOMAIN calls' : Landing(calls'[k], t) => calls'[k].rows = Rows(t) \/ Reading(t)
    BY <1>5 DEF ListsInv, ListsInvAt
  <2> QED
    BY <1>2, <1>4, <2>1, <2>2, <2>3 DEF ListsInvAt
<1>8. CASE t # calls[i].table
  <2>1. (t \notin stale' => t \notin stale) /\ list'[t] = list[t]
    BY <1>1, <1>8 DEF TypeOK
  <2> QED
    BY <1>2, <1>4, <1>5, <2>1, ListsKept DEF ListsInv
<1> QED
  BY <1>7, <1>8

LEMMA StepListsInv == TypeOK /\ ListsInv /\ [Next]_vars => ListsInv'
<1> SUFFICES ASSUME TypeOK, ListsInv, [Next]_vars PROVE ListsInv'
  OBVIOUS
<1>1. CASE UNCHANGED vars
  <2>1. ASSUME NEW t \in Tables PROVE ListsInvAt(t)'
    <3>1. Rows(t)' = Rows(t)
      BY <1>1, RowsKept DEF vars
    <3> QED
      BY <1>1, <3>1, ListsKept DEF ListsInv, Reading, vars
  <2> QED
    BY <2>1 DEF ListsInv
<1> QED
  BY <1>1, ClickLists, SendLists, FailedSendLists, ReadLists, FailedReadLists, LandLists DEF Next, Step

LEMMA InitListsInv == Init => ListsInv
BY DEF Init, ListsInv, ListsInvAt, Loading, Call, Landing

\* When no operation on a table is under way and the last reading is the one that
\* landed, the store's list is the table, whatever overlapped before.
THEOREM ListsBecomeTrue == Spec => []ListsAreTrue
<1>1. ListsInv => ListsAreTrue
  BY DEF ListsInv, ListsInvAt, ListsAreTrue, Reading, InFlight
<1>2. Spec => [](TypeOK /\ ListsInv)
  BY InitTypes, InitListsInv, StepTypeOK, StepListsInv, PTL DEF Spec
<1> QED
  BY <1>1, <1>2, PTL

-----------------------------------------------------------------------------
(* The groups                                                               *)

\* An operation that has yet to write group g.
Sends(call, g) == call.table = "groups" /\ call.stage = "send" /\ call.id = g

\* It writes what the user's clicks made of the group, or deletes a group that was to go.
Meant(call, row, meant) ==
    IF call.op = "save" THEN call.row = meant /\ Row(row) ELSE meant = Gone

\* Nothing names a group that was never stored.
KnownBy(call, g) ==
    Sends(call, g) \/ (call.table = "groups" /\ call.stage = "land" /\ call.rows[g] # None)

\* A group whose clicks did not overlap is what they made it, or is about to be.
EditInvAt(g) ==
    /\ list.groups[g] # None => groups[g] # None
    /\ \A i \in DOMAIN calls : KnownBy(calls[i], g) => groups[g] # None
    /\ g \notin overlapped =>
        /\ \A i \in DOMAIN calls : Sends(calls[i], g) => Meant(calls[i], groups[g], intent[g])
        /\ groups[g] = intent[g] \/ \E i \in DOMAIN calls : Sends(calls[i], g)

EditInv == \A g \in Groups : EditInvAt(g)

\* What is enough for a step to keep the invariant for a group it does not write.
LEMMA EditsKept ==
    ASSUME NEW g \in Groups, EditInvAt(g),
           groups'[g] = groups[g], intent'[g] = intent[g], overlapped \subseteq overlapped',
           list'.groups[g] # None => groups[g] # None,
           \A k \in DOMAIN calls' : KnownBy(calls'[k], g) => groups[g] # None,
           g \notin overlapped' =>
              /\ \A k \in DOMAIN calls' : Sends(calls'[k], g) =>
                    \E j \in DOMAIN calls : /\ Sends(calls[j], g)
                                            /\ calls[j].op = calls'[k].op /\ calls[j].row = calls'[k].row
              /\ \A j \in DOMAIN calls : Sends(calls[j], g) => \E k \in DOMAIN calls' : Sends(calls'[k], g)
    PROVE  EditInvAt(g)'
<1>1. g \notin overlapped' => g \notin overlapped
  OBVIOUS
<1>2. ASSUME g \notin overlapped', NEW k \in DOMAIN calls', Sends(calls'[k], g)
      PROVE  Meant(calls'[k], groups'[g], intent'[g])
  <2>1. PICK j \in DOMAIN calls : /\ Sends(calls[j], g)
                                  /\ calls[j].op = calls'[k].op /\ calls[j].row = calls'[k].row
    BY <1>2
  <2>2. Meant(calls[j], groups[g], intent[g])
    BY <1>1, <1>2, <2>1 DEF EditInvAt
  <2> QED
    BY <2>1, <2>2 DEF Meant
<1>3. g \notin overlapped' => groups'[g] = intent'[g] \/ \E k \in DOMAIN calls' : Sends(calls'[k], g)
  BY <1>1 DEF EditInvAt
<1> QED
  BY <1>2, <1>3 DEF EditInvAt

\* The operations after a click: the others, and the new one behind them.
LEMMA AppendedCall ==
    ASSUME TypeOK, NEW call, calls' = Append(calls, call)
    PROVE  /\ DOMAIN calls \subseteq DOMAIN calls'
           /\ \A j \in DOMAIN calls : calls'[j] = calls[j]
           /\ \A k \in DOMAIN calls' : k \in DOMAIN calls \/ calls'[k] = call
           /\ \E k \in DOMAIN calls' : calls'[k] = call
<1>1. /\ calls \in Seq(CallSet) /\ Len(calls) \in Nat /\ DOMAIN calls = 1..Len(calls)
      /\ DOMAIN calls' = 1..(Len(calls) + 1) /\ calls'[Len(calls) + 1] = call
      /\ \A k \in 1..Len(calls) : calls'[k] = calls[k]
  BY AppendProperties, LenProperties DEF TypeOK
<1> QED
  BY <1>1

\* A click that starts no operation, or one that writes no group that is stored.
LEMMA OtherClickEdits ==
    ASSUME TypeOK, EditInv, UNCHANGED <<tableVars, listVars, clickVars>>,
           \/ calls' = calls
           \/ \E call : /\ \A g \in Groups : ~KnownBy(call, g)
                        /\ calls' = Append(calls, call)
    PROVE  EditInv'
<1> SUFFICES ASSUME NEW g \in Groups PROVE EditInvAt(g)'
  BY DEF EditInv
<1>1. EditInvAt(g) /\ groups' = groups /\ list' = list /\ intent' = intent /\ overlapped' = overlapped
  BY DEF EditInv, tableVars, listVars, clickVars
<1>2. CASE calls' = calls
  BY <1>1, <1>2, EditsKept DEF EditInvAt
<1>3. ASSUME NEW call, ~KnownBy(call, g), calls' = Append(calls, call) PROVE EditInvAt(g)'
  <2>1. /\ DOMAIN calls \subseteq DOMAIN calls'
        /\ \A j \in DOMAIN calls : calls'[j] = calls[j]
        /\ \A k \in DOMAIN calls' : k \in DOMAIN calls \/ calls'[k] = call
    BY <1>3, AppendedCall
  <2>2. ~Sends(call, g)
    BY <1>3 DEF KnownBy
  <2> QED
    BY <1>1, <1>3, <2>1, <2>2, EditsKept DEF EditInvAt
<1> QED
  BY <1>2, <1>3

\* A click on a group whose last one is over sees the group as it is.
LEMMA SeenAsItIs ==
    ASSUME TypeOK, ListsInv, EditInv, NEW g \in Groups \ overlapped, GroupListed(g),
           InFlight("groups") = {}, "groups" \notin stale
    PROVE  Row(groups[g]) /\ list.groups[g] = groups[g] /\ intent[g] = groups[g]
<1>1. list.groups = Rows("groups")
  BY DEF ListsInv, ListsInvAt, Reading, InFlight, Tables
<1>2. Row(groups[g]) /\ list.groups[g] = groups[g]
  BY <1>1 DEF Rows, GroupListed, Tables
<1>3. \A i \in DOMAIN calls : ~Sends(calls[i], g)
  BY DEF Sends, InFlight
<1> QED
  BY <1>2, <1>3 DEF EditInv, EditInvAt

\* Toggling and renaming.
LEMMA ChangeEdits ==
    ASSUME TypeOK, ListsInv, EditInv, NEW h \in Groups, GroupListed(h), NEW row, NEW meant,
           ChangeGroup(h, row, meant),
           Row(intent[h]) /\ list.groups[h] = intent[h] => meant = row
    PROVE  EditInv'
<1> SUFFICES ASSUME NEW g \in Groups PROVE EditInvAt(g)'
  BY DEF EditInv
<1> DEFINE call == Call("save", "groups", h, row)
<1>1. /\ groups' = groups /\ list' = list /\ calls' = Append(calls, call)
      /\ intent' = [intent EXCEPT ![h] = meant]
      /\ overlapped' = IF InFlight("groups") # {} \/ "groups" \in stale
                       THEN overlapped \cup {h} ELSE overlapped
  BY DEF ChangeGroup, Start, tableVars, listVars
<1>2. call.table = "groups" /\ call.stage = "send" /\ call.id = h /\ call.op = "save" /\ call.row = row
  BY DEF Call
<1> HIDE DEF call
<1>3. /\ DOMAIN calls \subseteq DOMAIN calls'
      /\ \A j \in DOMAIN calls : calls'[j] = calls[j]
      /\ \A k \in DOMAIN calls' : k \in DOMAIN calls \/ calls'[k] = call
      /\ \E k \in DOMAIN calls' : calls'[k] = call
  BY <1>1, AppendedCall
<1>4. EditInvAt(g) /\ EditInvAt(h)
  BY DEF EditInv
<1>5. CASE g # h
  <2>1. ~KnownBy(call, g) /\ ~Sends(call, g)
    BY <1>2, <1>5 DEF KnownBy, Sends
  <2>2. intent'[g] = intent[g] /\ overlapped \subseteq overlapped'
    BY <1>1, <1>5 DEF TypeOK
  <2> QED
    BY <1>1, <1>3, <1>4, <2>1, <2>2, EditsKept DEF EditInvAt
<1>6. CASE g = h
  <2>1. groups[g] # None
    BY <1>4, <1>6 DEF EditInvAt, GroupListed
  <2>2. ASSUME g \notin overlapped'
        PROVE  /\ \A k \in DOMAIN calls' : Sends(calls'[k], g) => Meant(calls'[k], groups[g], intent'[g])
               /\ \E k \in DOMAIN calls' : Sends(calls'[k], g)
    <3>1. InFlight("groups") = {} /\ "groups" \notin stale /\ g \notin overlapped
      BY <1>1, <1>6, <2>2
    <3>2. Row(groups[g]) /\ list.groups[g] = groups[g] /\ intent[g] = groups[g]
      BY <1>6, <3>1, SeenAsItIs
    <3>3. intent'[g] = row
      <4>1. intent'[g] = meant
        BY <1>1, <1>6 DEF TypeOK
      <4> QED
        BY <1>6, <3>2, <4>1
    <3> QED
      BY <1>2, <1>3, <1>6, <3>1, <3>2, <3>3 DEF Sends, InFlight, Meant
  <2> QED
    BY <1>1, <2>1, <2>2 DEF EditInvAt
<1> QED
  BY <1>5, <1>6

LEMMA DeleteEdits ==
    ASSUME TypeOK, EditInv, NEW h \in Groups, GroupListed(h), HandleDeleteGroup(h)
    PROVE  EditInv'
<1> SUFFICES ASSUME NEW g \in Groups PROVE EditInvAt(g)'
  BY DEF EditInv
<1> DEFINE call == Call("delete", "groups", h, None)
<1>1. /\ groups' = groups /\ list' = list /\ calls' = Append(calls, call)
      /\ intent' = [intent EXCEPT ![h] = Gone]
      /\ overlapped' = IF InFlight("groups") # {} THEN overlapped \cup {h} ELSE overlapped
  BY DEF HandleDeleteGroup, Start, tableVars, listVars
<1>2. call.table = "groups" /\ call.stage = "send" /\ call.id = h /\ call.op = "delete"
  BY DEF Call
<1> HIDE DEF call
<1>3. /\ DOMAIN calls \subseteq DOMAIN calls'
      /\ \A j \in DOMAIN calls : calls'[j] = calls[j]
      /\ \A k \in DOMAIN calls' : k \in DOMAIN calls \/ calls'[k] = call
      /\ \E k \in DOMAIN calls' : calls'[k] = call
  BY <1>1, AppendedCall
<1>4. EditInvAt(g) /\ EditInvAt(h)
  BY DEF EditInv
<1>5. CASE g # h
  <2>1. ~KnownBy(call, g) /\ ~Sends(call, g)
    BY <1>2, <1>5 DEF KnownBy, Sends
  <2>2. intent'[g] = intent[g] /\ overlapped \subseteq overlapped'
    BY <1>1, <1>5 DEF TypeOK
  <2> QED
    BY <1>1, <1>3, <1>4, <2>1, <2>2, EditsKept DEF EditInvAt
<1>6. CASE g = h
  <2>1. groups[g] # None
    BY <1>4, <1>6 DEF EditInvAt, GroupListed
  <2>2. ASSUME g \notin overlapped'
        PROVE  /\ \A k \in DOMAIN calls' : Sends(calls'[k], g) => Meant(calls'[k], groups[g], intent'[g])
               /\ \E k \in DOMAIN calls' : Sends(calls'[k], g)
    <3>1. InFlight("groups") = {}
      BY <1>1, <1>6, <2>2
    <3>2. intent'[g] = Gone
      BY <1>1, <1>6 DEF TypeOK
    <3> QED
      BY <1>2, <1>3, <1>6, <3>1, <3>2 DEF Sends, InFlight, Meant
  <2> QED
    BY <1>1, <2>1, <2>2 DEF EditInvAt
<1> QED
  BY <1>5, <1>6

LEMMA ClickEdits ==
    ASSUME TypeOK, ListsInv, EditInv, Sidebar \/ ConnectionForm
    PROVE  EditInv'
<1> USE DEF tableVars, listVars, callVars, clickVars
<1>1. ASSUME NEW o, NEW t, NEW i, NEW r, Start(Call(o, t, i, r)),
             t = "connections" \/ (t = "groups" /\ i = None),
             UNCHANGED <<tableVars, listVars, clickVars>>
      PROVE  EditInv'
  <2> DEFINE call == Call(o, t, i, r)
  <2>1. calls' = Append(calls, call) /\ call.table = t /\ call.stage = "send" /\ call.id = i
    BY <1>1 DEF Start, Call
  <2> HIDE DEF call
  <2>2. \A g \in Groups : ~KnownBy(call, g)
    BY <1>1, <2>1, StoredAssumption DEF KnownBy, Sends
  <2> QED
    BY <1>1, <2>1, <2>2, OtherClickEdits
<1>2. ASSUME calls' = calls, UNCHANGED <<tableVars, listVars, clickVars>> PROVE EditInv'
  BY <1>2, OtherClickEdits
<1>3. ASSUME NEW g \in Groups, GroupHeader(g) PROVE EditInv'
  <2>1. GroupListed(g) /\ list.groups[g] \in GroupRow
    BY <1>3 DEF GroupHeader, GroupListed, TypeOK, GroupRows
  <2>2. CASE ToggleGroup(g)
    BY <2>1, <2>2, ChangeEdits DEF ToggleGroup
  <2>3. ASSUME NEW n \in Names, SaveRename(g, n) PROVE EditInv'
    BY <2>1, <2>3, ChangeEdits DEF SaveRename
  <2>4. CASE RenameGroup(g) \/ CancelRename(g)
    BY <1>2, <2>4 DEF RenameGroup, CancelRename
  <2>5. CASE HandleDeleteGroup(g)
    BY <2>1, <2>5, DeleteEdits
  <2> QED
    BY <1>3, <2>2, <2>3, <2>4, <2>5 DEF GroupHeader
<1>4. ASSUME NEW c \in Conns, RemoveConnection(c) PROVE EditInv'
  BY <1>1, <1>4 DEF RemoveConnection
<1>5. ASSUME NEW n \in Names, HandleCreateGroup(n) PROVE EditInv'
  BY <1>1, <1>5 DEF HandleCreateGroup
<1>6. ASSUME NEW f, OpenForm(f) PROVE EditInv'
  BY <1>2, <1>6 DEF OpenForm
<1>7. CASE FormFields \/ JumpHosts \/ CloseForm
  BY <1>2, <1>7 DEF FormFields, JumpHosts, CloseForm, SetForm, AddJumpHost, RemoveJumpHost, MoveJumpHost
<1>8. CASE SubmitForm
  BY <1>1, <1>8 DEF SubmitForm
<1> QED
  BY <1>3, <1>4, <1>5, <1>6, <1>7, <1>8
     DEF Sidebar, ConnectionItem, NewConnection, EditConnection, ConnectionForm

\* What one write makes of a group.
LEMMA GroupWrites ==
    ASSUME TypeOK, NEW i \in DOMAIN calls, calls[i].stage = "send", Write(calls[i]), NEW g \in Groups
    PROVE  \/ groups'[g] = groups[g] /\ intent'[g] = intent[g] /\ ~Sends(calls[i], g)
           \/ groups[g] = None /\ intent'[g] = groups'[g] /\ Row(groups'[g])
           \/ /\ Sends(calls[i], g) /\ intent'[g] = intent[g]
              /\ IF calls[i].op = "save"
                 THEN groups'[g] = IF Row(groups[g]) THEN calls[i].row ELSE groups[g]
                 ELSE groups'[g] = Gone
<1> DEFINE call == calls[i]
<1>1. CASE call.table = "connections"
  BY <1>1 DEF Write, Sends
<1>2. CASE call.table = "groups" /\ call.op = "save" /\ call.id = None
  <2>1. call.row \in GroupRow
    BY <1>2, SendTypes
  <2>2. PICK h \in Groups :
          /\ groups[h] = None
          /\ groups' = [groups EXCEPT ![h] = call.row]
          /\ intent' = [intent EXCEPT ![h] = call.row]
    BY <1>2 DEF Write, SaveGroup, CreateGroup
  <2>3. ~Sends(call, g)
    BY <1>2, StoredAssumption DEF Sends
  <2>4. Row(call.row)
    BY <2>1, NoRowAssumption DEF Row
  <2> QED
    BY <2>2, <2>3, <2>4 DEF TypeOK
<1>3. CASE call.table = "groups" /\ call.op = "save" /\ call.id # None
  <2>1. /\ groups' = IF Row(groups[call.id]) THEN [groups EXCEPT ![call.id] = call.row] ELSE groups
        /\ intent' = intent
    BY <1>3 DEF Write, SaveGroup, UpdateGroup
  <2> QED
    BY <1>3, <2>1 DEF TypeOK, Sends
<1>4. CASE call.table = "groups" /\ call.op = "delete"
  <2>1. groups' = [groups EXCEPT ![call.id] = Gone] /\ intent' = intent
    BY <1>4 DEF Write, DeleteGroup
  <2> QED
    BY <1>4, <2>1 DEF TypeOK, Sends
<1> QED
  BY <1>1, <1>2, <1>3, <1>4, SendTypes

\* The write is what the clicks made of the group; another one that is still to come
\* is, too.
LEMMA SendEdits ==
    ASSUME TypeOK, EditInv, NEW i \in DOMAIN calls, SendSucceeds(i)
    PROVE  EditInv'
<1> SUFFICES ASSUME NEW g \in Groups PROVE EditInvAt(g)'
  BY DEF EditInv
<1> DEFINE call == [calls[i] EXCEPT !.stage = "list", !.row = None]
<1>1. calls \in Seq(CallSet) /\ calls[i] \in CallSet
  BY ElementOfSeq, LenProperties DEF TypeOK
<1>2. call \in CallSet /\ call.stage = "list"
  BY <1>1, SentCall DEF CallSet, CallsOf
<1>3. calls' = [calls EXCEPT ![i] = call] /\ list' = list /\ overlapped' = overlapped
  BY DEF SendSucceeds, listVars
<1>4. Write(calls[i]) /\ calls[i].stage = "send"
  BY DEF SendSucceeds
<1> HIDE DEF call
<1>5. DOMAIN calls' = DOMAIN calls /\ calls'[i] = call /\ \A j \in DOMAIN calls \ {i} : calls'[j] = calls[j]
  BY <1>1, <1>2, <1>3, ReplacedElement
<1>6. ~KnownBy(call, g) /\ ~Sends(call, g)
  BY <1>2 DEF KnownBy, Sends
<1>7. EditInvAt(g)
  BY DEF EditInv
<1>8. CASE groups'[g] = groups[g] /\ intent'[g] = intent[g] /\ ~Sends(calls[i], g)
  BY <1>3, <1>5, <1>6, <1>7, <1>8, EditsKept DEF EditInvAt
<1>9. CASE groups[g] = None /\ intent'[g] = groups'[g] /\ Row(groups'[g])
  <2>1. \A k \in DOMAIN calls' : ~Sends(calls'[k], g)
    BY <1>5, <1>6, <1>7, <1>9 DEF EditInvAt, KnownBy
  <2> QED
    BY <1>9, <2>1 DEF EditInvAt, Row
<1>10. CASE /\ Sends(calls[i], g) /\ intent'[g] = intent[g]
            /\ IF calls[i].op = "save"
               THEN groups'[g] = IF Row(groups[g]) THEN calls[i].row ELSE groups[g]
               ELSE groups'[g] = Gone
  <2>1. groups'[g] # None
    <3>1. groups[g] # None
      BY <1>7, <1>10 DEF EditInvAt, KnownBy
    <3>2. calls[i].op = "save" => calls[i].row # None
      BY <1>4, <1>10, SendTypes, NoRowAssumption DEF Sends
    <3>3. Gone # None
      BY StoredAssumption
    <3> QED
      BY <1>10, <3>1, <3>2, <3>3
  <2>2. ASSUME g \notin overlapped'
        PROVE  /\ groups'[g] = intent'[g]
               /\ \A k \in DOMAIN calls' : Sends(calls'[k], g) => Meant(calls'[k], groups'[g], intent'[g])
    <3>1. \A j \in DOMAIN calls : Sends(calls[j], g) => Meant(calls[j], groups[g], intent[g])
      BY <1>3, <1>7, <2>2 DEF EditInvAt
    <3>2. Meant(calls[i], groups[g], intent[g])
      BY <1>10, <3>1
    <3>3. groups'[g] = intent[g]
      BY <1>10, <3>2 DEF Meant
    <3>4. ASSUME NEW k \in DOMAIN calls', Sends(calls'[k], g)
          PROVE  Meant(calls'[k], groups'[g], intent'[g])
      <4>1. calls'[k] = calls[k] /\ Meant(calls[k], groups[g], intent[g]) /\ k \in DOMAIN calls
        BY <1>5, <1>6, <3>1, <3>4
      <4>2. calls[k].op = "save" => Row(calls[k].row)
        BY <3>4, <4>1, SendTypes, NoRowAssumption DEF Sends, Row
      <4> QED
        BY <1>10, <3>3, <4>1, <4>2 DEF Meant
    <3> QED
      BY <1>10, <3>3, <3>4
  <2> QED
    BY <2>1, <2>2 DEF EditInvAt
<1> QED
  BY <1>4, <1>8, <1>9, <1>10, GroupWrites

\* An operation that returns leaves the others, which write and know what they did.
LEMMA ReturnEdits ==
    ASSUME TypeOK, EditInv, NEW i \in DOMAIN calls, NEW cs \in Seq(CallSet), DOMAIN cs = DOMAIN calls,
           \A j \in DOMAIN calls :
              /\ cs[j].table = calls[j].table /\ cs[j].stage = calls[j].stage /\ cs[j].id = calls[j].id
              /\ cs[j].op = calls[j].op /\ cs[j].row = calls[j].row /\ cs[j].rows = calls[j].rows,
           ContinueWith(i, cs), groups' = groups, intent' = intent,
           overlapped \subseteq overlapped',
           \A g \in Groups : Sends(calls[i], g) => g \in overlapped',
           \A g \in Groups : list'.groups[g] # None => groups[g] # None
    PROVE  EditInv'
<1> SUFFICES ASSUME NEW g \in Groups PROVE EditInvAt(g)'
  BY DEF EditInv
<1>1. /\ calls' = Returned(i, cs)
      /\ \A k \in DOMAIN calls' : \/ calls'[k] = Loading("connections")
                                  \/ \E j \in DOMAIN cs \ {i} : calls'[k] = cs[j]
      /\ \A j \in DOMAIN cs \ {i} : \E k \in DOMAIN calls' : calls'[k] = cs[j]
  BY ReturnedCalls DEF ContinueWith
<1>2. ~KnownBy(Loading("connections"), g) /\ ~Sends(Loading("connections"), g)
  BY LoadingIsCall DEF KnownBy, Sends, Tables
<1>3. \A j \in DOMAIN calls : /\ Sends(cs[j], g) <=> Sends(calls[j], g)
                              /\ KnownBy(cs[j], g) <=> KnownBy(calls[j], g)
  BY DEF Sends, KnownBy
<1>4. EditInvAt(g)
  BY DEF EditInv
<1>5. ASSUME NEW k \in DOMAIN calls', KnownBy(calls'[k], g) PROVE groups[g] # None
  BY <1>1, <1>2, <1>3, <1>4, <1>5 DEF EditInvAt
<1>6. ASSUME NEW k \in DOMAIN calls', Sends(calls'[k], g)
      PROVE  \E j \in DOMAIN calls : /\ Sends(calls[j], g)
                                     /\ calls[j].op = calls'[k].op /\ calls[j].row = calls'[k].row
  BY <1>1, <1>2, <1>3, <1>6
<1>7. ASSUME g \notin overlapped', NEW j \in DOMAIN calls, Sends(calls[j], g)
      PROVE  \E k \in DOMAIN calls' : Sends(calls'[k], g)
  <2>1. j \in DOMAIN cs \ {i}
    BY <1>7
  <2>2. PICK k \in DOMAIN calls' : calls'[k] = cs[j]
    BY <1>1, <2>1
  <2> QED
    BY <1>3, <1>7, <2>2
<1> QED
  BY <1>4, <1>5, <1>6, <1>7, EditsKept

\* A write that failed is a click whose outcome nobody saw.
LEMMA FailedSendEdits ==
    ASSUME TypeOK, EditInv, NEW i \in DOMAIN calls, SendFails(i)
    PROVE  EditInv'
<1>1. /\ ContinueWith(i, calls) /\ calls \in Seq(CallSet)
      /\ groups' = groups /\ intent' = intent /\ list' = list
      /\ overlapped' = IF calls[i].table = "groups" THEN overlapped \cup ({calls[i].id} \ {None})
                       ELSE overlapped
  BY DEF SendFails, Continue, tableVars, listVars, TypeOK
<1>2. \A g \in Groups : Sends(calls[i], g) => g \in overlapped'
  BY <1>1, StoredAssumption DEF Sends
<1>3. \A g \in Groups : list'.groups[g] # None => groups[g] # None
  BY <1>1 DEF EditInv, EditInvAt
<1>4. overlapped \subseteq overlapped'
  BY <1>1
<1> QED
  BY <1>1, <1>2, <1>3, <1>4, ReturnEdits

\* The mark of the last reading is all that a newer one changes in the others.
LEMMA SupersededEdits ==
    ASSUME TypeOK, NEW i \in DOMAIN calls, NEW j \in DOMAIN calls
    PROVE  LET q == Superseded(calls, calls[i].table)
           IN  /\ q[j].table = calls[j].table /\ q[j].stage = calls[j].stage /\ q[j].id = calls[j].id
               /\ q[j].op = calls[j].op /\ q[j].row = calls[j].row /\ q[j].rows = calls[j].rows
<1> DEFINE q == Superseded(calls, calls[i].table)
<1>1. calls \in Seq(CallSet) /\ calls[i].table \in Tables /\ calls[j] \in CallSet
  BY ElementOfSeq, LenProperties, CallShape DEF TypeOK
<1>2. q[j] = IF calls[j].table = calls[i].table THEN [calls[j] EXCEPT !.newest = FALSE] ELSE calls[j]
  BY <1>1, SupersededCalls
<1> HIDE DEF q
<1>3. LET e == [calls[j] EXCEPT !.newest = FALSE]
      IN  /\ e.table = calls[j].table /\ e.stage = calls[j].stage /\ e.id = calls[j].id
          /\ e.op = calls[j].op /\ e.row = calls[j].row /\ e.rows = calls[j].rows
  BY <1>1 DEF CallSet, CallsOf
<1>4. /\ q[j].table = calls[j].table /\ q[j].stage = calls[j].stage /\ q[j].id = calls[j].id
      /\ q[j].op = calls[j].op /\ q[j].row = calls[j].row /\ q[j].rows = calls[j].rows
  BY <1>2, <1>3
<1> QED
  BY <1>4 DEF q

LEMMA ReadEdits ==
    ASSUME TypeOK, EditInv, NEW i \in DOMAIN calls, ReadTable(i)
    PROVE  EditInv'
<1> SUFFICES ASSUME NEW g \in Groups PROVE EditInvAt(g)'
  BY DEF EditInv
<1> DEFINE q == Superseded(calls, calls[i].table)
           call == [q[i] EXCEPT !.stage = "land", !.rows = Rows(calls[i].table), !.newest = TRUE]
<1>1. /\ calls[i].stage = "list" /\ calls' = [q EXCEPT ![i] = call]
      /\ list' = list /\ groups' = groups /\ intent' = intent /\ overlapped' = overlapped
  BY DEF ReadTable, tableVars, clickVars
<1>2. q \in Seq(CallSet) /\ DOMAIN q = DOMAIN calls /\ q[i] \in CallSet
  BY SupersededLists
<1>3. \A j \in DOMAIN calls :
        /\ q[j].table = calls[j].table /\ q[j].stage = calls[j].stage /\ q[j].id = calls[j].id
        /\ q[j].op = calls[j].op /\ q[j].row = calls[j].row /\ q[j].rows = calls[j].rows
  BY SupersededEdits
<1> HIDE DEF q
<1>4. call \in CallSet
  BY <1>2, <1>3, RowsTypes, ReadCall
<1>5. call.table = calls[i].table /\ call.rows = Rows(calls[i].table) /\ call.stage = "land"
  BY <1>2, <1>3 DEF CallSet, CallsOf
<1> HIDE DEF call
<1>6. DOMAIN calls' = DOMAIN calls /\ calls'[i] = call /\ \A j \in DOMAIN calls \ {i} : calls'[j] = q[j]
  BY <1>1, <1>2, <1>4, ReplacedElement
<1>7. EditInvAt(g)
  BY DEF EditInv
<1>8. ~Sends(call, g) /\ ~Sends(calls[i], g)
  BY <1>1, <1>5 DEF Sends
<1>9. KnownBy(call, g) => groups[g] # None
  BY <1>5, <1>8 DEF KnownBy, Rows, Row
<1>10. \A j \in DOMAIN calls : /\ Sends(q[j], g) <=> Sends(calls[j], g)
                               /\ KnownBy(q[j], g) <=> KnownBy(calls[j], g)
  BY <1>3 DEF Sends, KnownBy
<1>11. ASSUME NEW k \in DOMAIN calls', KnownBy(calls'[k], g) PROVE groups[g] # None
  BY <1>6, <1>7, <1>9, <1>10, <1>11 DEF EditInvAt
<1>12. ASSUME NEW k \in DOMAIN calls', Sends(calls'[k], g)
       PROVE  Sends(calls[k], g) /\ calls[k].op = calls'[k].op /\ calls[k].row = calls'[k].row
  BY <1>3, <1>6, <1>8, <1>10, <1>12
<1>13. \A j \in DOMAIN calls : Sends(calls[j], g) => \E k \in DOMAIN calls' : Sends(calls'[k], g)
  BY <1>6, <1>8, <1>10
<1>14. list'.groups[g] # None => groups[g] # None
  BY <1>1, <1>7 DEF EditInvAt
<1>15. \A k \in DOMAIN calls' : Sends(calls'[k], g) =>
         \E j \in DOMAIN calls : /\ Sends(calls[j], g)
                                 /\ calls[j].op = calls'[k].op /\ calls[j].row = calls'[k].row
  BY <1>6, <1>12
<1> QED
  BY <1>1, <1>7, <1>11, <1>13, <1>14, <1>15, EditsKept

LEMMA FailedReadEdits ==
    ASSUME TypeOK, EditInv, NEW i \in DOMAIN calls, ReadFails(i)
    PROVE  EditInv'
<1> DEFINE q == Superseded(calls, calls[i].table)
<1>1. /\ calls[i].stage = "list" /\ ContinueWith(i, q)
      /\ list' = list /\ groups' = groups /\ intent' = intent /\ overlapped' = overlapped
  BY DEF ReadFails, tableVars, clickVars
<1>2. q \in Seq(CallSet) /\ DOMAIN q = DOMAIN calls
  BY SupersededLists
<1>3. \A j \in DOMAIN calls :
        /\ q[j].table = calls[j].table /\ q[j].stage = calls[j].stage /\ q[j].id = calls[j].id
        /\ q[j].op = calls[j].op /\ q[j].row = calls[j].row /\ q[j].rows = calls[j].rows
  BY SupersededEdits
<1> HIDE DEF q
<1>4. \A g \in Groups : ~Sends(calls[i], g)
  BY <1>1 DEF Sends
<1>5. \A g \in Groups : list'.groups[g] # None => groups[g] # None
  BY <1>1 DEF EditInv, EditInvAt
<1> QED
  BY <1>1, <1>2, <1>3, <1>4, <1>5, ReturnEdits

LEMMA LandEdits ==
    ASSUME TypeOK, EditInv, NEW i \in DOMAIN calls, ListLands(i)
    PROVE  EditInv'
<1>1. /\ calls[i].stage = "land" /\ ContinueWith(i, calls) /\ calls \in Seq(CallSet)
      /\ list' = [list EXCEPT ![calls[i].table] = calls[i].rows]
      /\ groups' = groups /\ intent' = intent /\ overlapped' = overlapped
  BY DEF ListLands, Continue, tableVars, clickVars, TypeOK
<1>2. \A g \in Groups : ~Sends(calls[i], g)
  BY <1>1 DEF Sends
<1>3. ASSUME NEW g \in Groups, list'.groups[g] # None PROVE groups[g] # None
  <2>1. CASE calls[i].table = "groups"
    <3>1. KnownBy(calls[i], g)
      BY <1>1, <1>3, <2>1 DEF KnownBy, TypeOK
    <3> QED
      BY <3>1 DEF EditInv, EditInvAt
  <2>2. CASE calls[i].table # "groups"
    BY <1>1, <1>3, <2>2 DEF EditInv, EditInvAt, TypeOK
  <2> QED
    BY <2>1, <2>2
<1> QED
  BY <1>1, <1>2, <1>3, ReturnEdits

LEMMA StepEditInv == TypeOK /\ ListsInv /\ EditInv /\ [Next]_vars => EditInv'
<1> SUFFICES ASSUME TypeOK, ListsInv, EditInv, [Next]_vars PROVE EditInv'
  OBVIOUS
<1>1. CASE UNCHANGED vars
  BY <1>1, OtherClickEdits DEF vars, tableVars, listVars, clickVars
<1> QED
  BY <1>1, ClickEdits, SendEdits, FailedSendEdits, ReadEdits, FailedReadEdits, LandEdits DEF Next, Step

LEMMA InitEditInv == Init => EditInv
<1> SUFFICES ASSUME Init, NEW g \in Groups PROVE EditInvAt(g)
  BY DEF EditInv
<1>1. \A t \in Tables : Loading(t).stage = "list"
  BY DEF Loading, Call
<1>2. DOMAIN calls = 1..2 /\ calls[1] = Loading("connections") /\ calls[2] = Loading("groups")
  BY DEF Init
<1>3. \A i \in DOMAIN calls : calls[i].stage = "list"
  BY <1>1, <1>2 DEF Tables
<1>4. list.groups[g] = None /\ intent = groups
  BY DEF Init
<1> QED
  BY <1>3, <1>4 DEF EditInvAt, KnownBy, Sends

\* A group is renamed, toggled and deleted by rows that are written whole.  Clicks that
\* waited for one another never undo one another: when no operation on groups is under
\* way, the group is what they made it.
THEOREM GroupEditsAreKept == Spec => []GroupEditsKept
<1>1. EditInv => GroupEditsKept
  BY DEF EditInv, EditInvAt, GroupEditsKept, Sends, InFlight
<1>2. Spec => [](TypeOK /\ ListsInv /\ EditInv)
  BY InitTypes, InitListsInv, InitEditInv, StepTypeOK, StepListsInv, StepEditInv, PTL DEF Spec
<1> QED
  BY <1>1, <1>2, PTL
=============================================================================
