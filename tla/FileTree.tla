------------------------------- MODULE FileTree -------------------------------
(***************************************************************************)
(* The directory tree beside a file explorer (FileTree.tsx, SftpPanel.tsx). *)
(*                                                                         *)
(* A node's directory is listed when the node is opened for the first      *)
(* time.  Answers are awaited in the background: the user goes on clicking, *)
(* on the tree that was rendered last, while answers that have come wait   *)
(* in React's queue for the next rendering.  To open a node replaces the   *)
(* tree by one made from the rendered one, which drops what is queued; an  *)
(* answer changes the tree as it then is.                                  *)
(*                                                                         *)
(* A node is known by its path, which tells where in the tree it is.       *)
(***************************************************************************)
EXTENDS Naturals, SequencesExt

CONSTANTS
    Root,           \* the directory that is not a node itself
    Dirs, Files,    \* paths below it
    Parent,         \* [Dirs \cup Files -> Dirs \cup {Root}]
    MaxLoads,       \* bound: listings under way at the same time
    None            \* no node

Paths == Dirs \cup Files

ASSUME PathsAssumption ==
    /\ Root \notin Paths
    /\ Parent \in [Paths -> Dirs \cup {Root}]
    /\ MaxLoads \in Nat

Nodes == [loaded : BOOLEAN, loading : BOOLEAN]

ASSUME NoneAssumption == None \notin Nodes

VARIABLES
    mounted,        \* the tree is not hidden
    tree,           \* the nodes that are rendered: [Paths -> record or None]
    expanded,       \* the paths that are open
    loads,          \* the listings under way: their paths
    queue,          \* the answers that are not rendered yet: path and entries
    spoiled         \* history: nodes that a dropped or a repeated listing can leave empty

vars == <<mounted, tree, expanded, loads, queue, spoiled>>

Fresh == [loaded |-> FALSE, loading |-> FALSE]

Entries(p) == {c \in Paths : Parent[c] = p}

\* What is below a directory: the least set with its entries and, for every path in the
\* set, the entries of that path.
Below ==
    [p \in Paths \cup {Root} |->
        {q \in Paths : \A S \in SUBSET Paths :
            Entries(p) \subseteq S /\ (\A c \in S : Entries(c) \subseteq S) => q \in S}]

\* A path is longer than that of its directory.
ASSUME TreeAssumption == \A p \in Paths : p \notin Below[p]

\* The component is mounted: no nodes, and the root is being listed.
Mounted ==
    /\ mounted' = TRUE
    /\ tree' = [p \in Paths |-> None]
    /\ expanded' = {}
    /\ loads' = <<Root>>
    /\ queue' = <<>>
    /\ spoiled' = {}

Init ==
    /\ mounted = TRUE
    /\ tree = [p \in Paths |-> None]
    /\ expanded = {}
    /\ loads = <<Root>>
    /\ queue = <<>>
    /\ spoiled = {}

-----------------------------------------------------------------------------
\* A bug to catch: files become nodes too.
AllNodes(entries) == entries

\* The nodes that are made of a listing: its directories.
NewNodes(entries) == entries \cap Dirs

\* A bug to catch: only the nodes below the root are looked at.
UpdateTopOnly(nodes, p, children) ==
    IF p # Root /\ Parent[p] # Root THEN nodes
    ELSE LET below == Below[p]
         IN  [q \in Paths |-> CASE q \in children -> Fresh
                               [] q \in below \ children -> None
                               [] q = p -> [loaded |-> TRUE, loading |-> FALSE]
                               [] OTHER -> nodes[q]]

\* The node, if there is one, gets these children in place of those it had.
UpdateTree(nodes, p, children) ==
    IF p # Root /\ nodes[p] = None THEN nodes
    ELSE LET below == Below[p]
         IN  [q \in Paths |-> CASE q \in children -> Fresh
                               [] q \in below \ children -> None
                               [] q = p -> [loaded |-> TRUE, loading |-> FALSE]
                               [] OTHER -> nodes[q]]

\* React renders what is queued, in order; several answers may take one rendering.
Render ==
    /\ queue # <<>>
    /\ tree' = UpdateTree(tree, Head(queue).path, NewNodes(Head(queue).entries))
    /\ queue' = Tail(queue)
    /\ UNCHANGED <<mounted, expanded, loads, spoiled>>

\* A bug to catch: the answer to a listing that failed is dropped.
LoadOrForget(i) ==
    /\ loads' = RemoveAt(loads, i)
    /\ \/ queue' = Append(queue, [path |-> loads[i], entries |-> Entries(loads[i])])
       \/ queue' = queue
    /\ UNCHANGED <<mounted, tree, expanded, spoiled>>

\* SftpListDir has answered; an error is an empty listing, and is not asked for again.
LoadDirectory(i) ==
    /\ loads' = RemoveAt(loads, i)
    /\ \E entries \in {Entries(loads[i]), {}} :
        queue' = Append(queue, [path |-> loads[i], entries |-> entries])
    /\ UNCHANGED <<mounted, tree, expanded, spoiled>>

Queued == {queue[i].path : i \in DOMAIN queue}

Close(p) ==
    /\ p \in expanded
    /\ expanded' = expanded \ {p}
    /\ UNCHANGED <<mounted, tree, loads, queue, spoiled>>

\* The listing is asked for while the new tree is computed.
Open(p) ==
    /\ p \notin expanded
    /\ expanded' = expanded \cup {p}
    /\ queue' = <<>>
    /\ IF tree[p].loaded
       THEN UNCHANGED <<tree, loads>> /\ spoiled' = spoiled \cup Queued
       ELSE /\ Len(loads) < MaxLoads
            /\ tree' = [tree EXCEPT ![p].loading = TRUE]
            /\ loads' = Append(loads, p)
            /\ spoiled' = spoiled \cup Queued \cup (IF p \in ToSet(loads) THEN Below[p] ELSE {})
    /\ UNCHANGED mounted

ToggleNode(p) == Close(p) \/ Open(p)

\* A node is rendered if all nodes above it are open.
Shown(p) ==
    /\ tree[p] # None
    /\ \A q \in Dirs : p \in Below[q] => tree[q] # None /\ q \in expanded

\* A double click toggles twice; what it does in the explorer is NavigateTo of SftpStore.
RenderNode(p) == mounted /\ Shown(p) /\ ToggleNode(p)

-----------------------------------------------------------------------------
\* The button in the panel's header.  A tree that is hidden is unmounted; what is still
\* under way for it lands nowhere.
SetShowTree ==
    \/ /\ mounted
       /\ mounted' = FALSE
       /\ loads' = <<>>
       /\ queue' = <<>>
       /\ UNCHANGED <<tree, expanded, spoiled>>
    \/ ~mounted /\ Mounted

Next ==
    \/ \E i \in DOMAIN loads : LoadDirectory(i)
    \/ Render
    \/ \E p \in Paths : RenderNode(p)
    \/ SetShowTree

Spec == Init /\ [][Next]_vars

\* SftpListDir answers and React renders.
FairSpec ==
    /\ Spec
    /\ WF_vars(Render)
    /\ \A i \in 1..MaxLoads : WF_vars(i \in DOMAIN loads /\ LoadDirectory(i))

-----------------------------------------------------------------------------
(* Properties                                                              *)

TypeOK ==
    /\ mounted \in BOOLEAN
    /\ tree \in [Paths -> Nodes \cup {None}]
    /\ expanded \in SUBSET Dirs
    /\ loads \in Seq(Dirs \cup {Root})
    /\ queue \in Seq([path : Dirs \cup {Root}, entries : SUBSET Paths])
    /\ spoiled \in SUBSET Paths

Children(p) == {q \in Entries(p) : tree[q] # None}

\* A node has no children, or those that are directories in its directory; and only a
\* node whose answer was rendered has any: whatever other answers came, in whatever
\* order, and whatever clicks dropped.
ChildrenAreDirectories ==
    mounted =>
        /\ \A p \in Dirs \cup {Root} : Children(p) \in {{}, Entries(p) \cap Dirs}
        /\ \A p \in Dirs : Children(p) # {} => tree[p] # None /\ tree[p].loaded

\* The answer of an open node is there or on its way: it is not lost between clicks on
\* other nodes, nor because its directory could not be listed.
NoAnswerLost ==
    mounted =>
        \A p \in expanded :
            p \in ToSet(loads) \cup Queued \cup spoiled \/ (tree[p] # None /\ tree[p].loaded)

\* An open node shows its directory in the end: the answer is not lost between the
\* clicks on other nodes.  Left out are nodes whose answer a click dropped from the queue,
\* and those below a node that was opened again while its first listing was under way,
\* which the second answer resets.
OpenNodesLoad ==
    \A p \in Dirs :
        (p \in expanded) ~>
            (p \notin expanded \/ ~mounted \/ p \in spoiled
             \/ (tree[p] # None /\ tree[p].loaded))
=============================================================================
