----------------------------- MODULE FileTreeProofs -----------------------------
(***************************************************************************)
(* What the nodes of the directory tree are, and that no answer an open    *)
(* node waits for is lost between the clicks, for trees of any depth and   *)
(* any number of listings under way.                                       *)
(***************************************************************************)
EXTENDS FileTree, SequenceTheorems, TLAPS

(***************************************************************************)
(* The paths below a directory.                                            *)
(***************************************************************************)

\* Below is the least closed set: what holds of the entries, and of the entries of a path
\* it holds of, holds of everything below.
LEMMA BelowIsLeast ==
    ASSUME NEW p \in Paths \cup {Root}, NEW S \in SUBSET Paths,
           Entries(p) \subseteq S, \A c \in S : Entries(c) \subseteq S
    PROVE  Below[p] \subseteq S
BY DEF Below

LEMMA BelowIsClosed ==
    ASSUME NEW p \in Paths \cup {Root}
    PROVE  /\ Below[p] \in SUBSET Paths
           /\ Entries(p) \subseteq Below[p]
           /\ \A c \in Below[p] : Entries(c) \subseteq Below[p]
<1>1. Entries(p) \subseteq Paths /\ \A c \in Paths : Entries(c) \subseteq Paths
  BY DEF Entries
<1> QED
  BY <1>1 DEF Below

\* Whatever is below a directory is an entry of it or of something below it.
LEMMA ParentOfBelow ==
    ASSUME NEW p \in Paths \cup {Root}, NEW q \in Below[p]
    PROVE  q \in Paths /\ Parent[q] \in Below[p] \cup {p}
<1> DEFINE S == {c \in Paths : Parent[c] \in Below[p] \cup {p}}
<1>1. Entries(p) \subseteq S
  BY DEF Entries
<1>2. ASSUME NEW c \in S PROVE Entries(c) \subseteq S
  <2>1. c \in Below[p]
    BY <1>2, BelowIsClosed DEF Entries
  <2> QED
    BY <2>1 DEF Entries
<1>3. Below[p] \subseteq S
  BY <1>1, <1>2, BelowIsLeast
<1> QED
  BY <1>3

(***************************************************************************)
(* Listings: those under way and those whose answer waits to be rendered.   *)
(***************************************************************************)
Pending(p) ==
    \/ \E i \in DOMAIN loads : loads[i] = p
    \/ \E i \in DOMAIN queue : queue[i].path = p

Twice(p) ==
    \/ \E i, j \in DOMAIN loads : i # j /\ loads[i] = p /\ loads[j] = p
    \/ \E i, j \in DOMAIN queue : i # j /\ queue[i].path = p /\ queue[j].path = p
    \/ (\E i \in DOMAIN loads : loads[i] = p) /\ (\E i \in DOMAIN queue : queue[i].path = p)

Loaded(p) == tree[p] # None /\ tree[p].loaded

\* What RemoveAt keeps, position by position.
LEMMA RemoveAtProperties ==
    ASSUME NEW S, NEW s \in Seq(S), NEW i \in DOMAIN s
    PROVE  /\ RemoveAt(s, i) \in Seq(S)
           /\ DOMAIN RemoveAt(s, i) = 1..(Len(s) - 1)
           /\ \A k \in 1..(Len(s) - 1) : RemoveAt(s, i)[k] = IF k < i THEN s[k] ELSE s[k + 1]
<1> DEFINE front == SubSeq(s, 1, i - 1)
           back == SubSeq(s, i + 1, Len(s))
<1>1. i \in 1..Len(s) /\ Len(s) \in Nat
  BY LenProperties
<1>2. /\ front \in Seq(S) /\ Len(front) = i - 1
      /\ \A k \in 1..(i - 1) : front[k] = s[k]
  BY <1>1, SubSeqProperties
<1>3. /\ back \in Seq(S) /\ Len(back) = Len(s) - i
      /\ \A k \in 1..(Len(s) - i) : back[k] = s[i + k]
  BY <1>1, SubSeqProperties
<1>4. RemoveAt(s, i) = front \o back
  BY DEF RemoveAt
<1> HIDE DEF front, back
<1>5. RemoveAt(s, i) \in Seq(S) /\ Len(RemoveAt(s, i)) = Len(s) - 1
  BY <1>1, <1>2, <1>3, <1>4, ConcatProperties
<1>6. DOMAIN RemoveAt(s, i) = 1..(Len(s) - 1)
  BY <1>5, LenProperties
<1>7. ASSUME NEW k \in 1..(Len(s) - 1)
      PROVE  RemoveAt(s, i)[k] = IF k < i THEN s[k] ELSE s[k + 1]
  <2>1. (front \o back)[k] = IF k <= Len(front) THEN front[k] ELSE back[k - Len(front)]
    <3>1. \A m \in 1..(Len(front) + Len(back)) :
            (front \o back)[m] = IF m <= Len(front) THEN front[m] ELSE back[m - Len(front)]
      BY <1>2, <1>3, ConcatProperties
    <3>2. k \in 1..(Len(front) + Len(back))
      BY <1>1, <1>2, <1>3
    <3> QED  BY <3>1, <3>2
  <2>2. CASE k < i
    BY <1>1, <1>2, <1>4, <2>1, <2>2
  <2>3. CASE k >= i
    <3>1. k - Len(front) \in 1..(Len(s) - i) /\ i + (k - Len(front)) = k + 1
      BY <1>1, <1>2, <2>3
    <3>2. back[k - Len(front)] = s[k + 1]
      BY <1>3, <3>1
    <3>3. ~(k <= Len(front)) /\ ~(k < i)
      BY <1>1, <1>2, <2>3
    <3> QED
      BY <1>4, <2>1, <3>2, <3>3
  <2> QED
    BY <1>1, <2>2, <2>3
<1> QED
  BY <1>5, <1>6, <1>7

\* RemoveAt keeps every other element, and adds none.

\* An answer moves one listing from those under way to the queue.
LEMMA AnswerMoves ==
    ASSUME loads \in Seq(Dirs \cup {Root}),
           queue \in Seq([path : Dirs \cup {Root}, entries : SUBSET Paths]),
           NEW i \in DOMAIN loads, NEW a \in [path : Dirs \cup {Root}, entries : SUBSET Paths],
           a.path = loads[i],
           loads' = RemoveAt(loads, i),
           queue' = Append(queue, a)
    PROVE  /\ \A p : Pending(p)' <=> Pending(p)
           /\ \A p : Twice(p)' => Twice(p)
<1> DEFINE n == Len(loads)
           old(k) == IF k < i THEN k ELSE k + 1
<1>1. /\ n \in Nat /\ i \in 1..n /\ DOMAIN loads = 1..n /\ DOMAIN loads' = 1..(n - 1)
      /\ \A k \in 1..(n - 1) : loads'[k] = loads[old(k)]
  BY RemoveAtProperties, LenProperties
<1>2. /\ Len(queue) \in Nat /\ DOMAIN queue = 1..Len(queue)
      /\ DOMAIN queue' = 1..(Len(queue) + 1)
      /\ \A k \in 1..Len(queue) : queue'[k] = queue[k]
      /\ queue'[Len(queue) + 1] = a
  BY AppendProperties, LenProperties
<1>3. \A k \in 1..(n - 1) : old(k) \in (1..n) \ {i}
  BY <1>1
<1>4. \A k, m \in 1..(n - 1) : k # m => old(k) # old(m)
  BY <1>1
<1>5. \A j \in (1..n) \ {i} : \E k \in 1..(n - 1) : old(k) = j
  <2> SUFFICES ASSUME NEW j \in (1..n) \ {i} PROVE \E k \in 1..(n - 1) : old(k) = j
    OBVIOUS
  <2>1. CASE j < i
    BY <1>1, <2>1
  <2>2. CASE j > i
    <3>1. j - 1 \in 1..(n - 1) /\ old(j - 1) = j
      BY <1>1, <2>2
    <3> QED
      BY <3>1
  <2> QED
    BY <1>1, <2>1, <2>2
<1> HIDE DEF old, n
<1>6. ASSUME NEW p PROVE (\E k \in DOMAIN loads' : loads'[k] = p)
                             <=> \E j \in DOMAIN loads \ {i} : loads[j] = p
  <2>1. ASSUME NEW k \in DOMAIN loads', loads'[k] = p
        PROVE  \E j \in DOMAIN loads \ {i} : loads[j] = p
    BY <1>1, <1>3, <2>1
  <2>2. ASSUME NEW j \in DOMAIN loads \ {i}, loads[j] = p
        PROVE  \E k \in DOMAIN loads' : loads'[k] = p
    <3>1. PICK k \in 1..(n - 1) : old(k) = j
      BY <1>1, <1>5
    <3> QED
      BY <1>1, <2>2, <3>1
  <2> QED
    BY <2>1, <2>2
<1>7. ASSUME NEW p PROVE (\E k \in DOMAIN queue' : queue'[k].path = p)
                             <=> loads[i] = p \/ \E k \in DOMAIN queue : queue[k].path = p
  <2>1. DOMAIN queue' = DOMAIN queue \cup {Len(queue) + 1}
    BY <1>2
  <2> QED
    BY <1>2, <2>1
<1>8. ASSUME NEW p PROVE Pending(p)' <=> Pending(p)
  BY <1>6, <1>7 DEF Pending
<1>9. ASSUME NEW p, Twice(p)' PROVE Twice(p)
  <2>1. CASE \E k, m \in DOMAIN loads' : k # m /\ loads'[k] = p /\ loads'[m] = p
    BY <1>1, <1>3, <1>4, <2>1 DEF Twice
  <2>2. CASE \E k, m \in DOMAIN queue' : k # m /\ queue'[k].path = p /\ queue'[m].path = p
    <3>1. PICK k, m \in DOMAIN queue' : k # m /\ queue'[k].path = p /\ queue'[m].path = p
      BY <2>2
    <3>2. CASE k \in DOMAIN queue /\ m \in DOMAIN queue
      BY <1>2, <3>1, <3>2 DEF Twice
    <3>3. CASE k \notin DOMAIN queue \/ m \notin DOMAIN queue
      <4>1. loads[i] = p /\ \E j \in DOMAIN queue : queue[j].path = p
        BY <1>2, <3>1, <3>3
      <4> QED
        BY <4>1 DEF Twice
    <3> QED
      BY <3>2, <3>3
  <2>3. CASE /\ \E k \in DOMAIN loads' : loads'[k] = p
             /\ \E k \in DOMAIN queue' : queue'[k].path = p
    <3>1. PICK j \in DOMAIN loads \ {i} : loads[j] = p
      BY <1>6, <2>3
    <3>2. CASE loads[i] = p
      BY <1>1, <3>1, <3>2 DEF Twice
    <3>3. CASE \E k \in DOMAIN queue : queue[k].path = p
      BY <3>1, <3>3 DEF Twice
    <3> QED
      BY <1>7, <2>3, <3>2, <3>3
  <2> QED
    BY <1>9, <2>1, <2>2, <2>3 DEF Twice
<1> QED
  BY <1>8, <1>9

\* A rendering takes the first answer.
LEMMA RenderTakes ==
    ASSUME queue \in Seq([path : Dirs \cup {Root}, entries : SUBSET Paths]), queue # <<>>,
           queue' = Tail(queue), UNCHANGED loads,
           NEW r, r = Head(queue).path
    PROVE  /\ \A p : Pending(p)' => Pending(p)
           /\ \A p : Pending(p) /\ p # r => Pending(p)'
           /\ Pending(r)
           /\ Pending(r)' => Twice(r)
           /\ \A p : Twice(p)' => Twice(p)
<1> DEFINE n == Len(queue)
<1>1. /\ n \in Nat \ {0} /\ DOMAIN queue = 1..n /\ Head(queue) = queue[1]
      /\ DOMAIN queue' = 1..(n - 1)
      /\ \A k \in 1..(n - 1) : queue'[k] = queue[k + 1]
  BY HeadTailProperties, EmptySeq, LenProperties
<1> HIDE DEF n
<1>2. \A k \in 1..(n - 1) : k + 1 \in 1..n /\ k + 1 # 1
  BY <1>1
<1>3. \A j \in 1..n : j # 1 => \E k \in 1..(n - 1) : queue'[k] = queue[j]
  <2> SUFFICES ASSUME NEW j \in 1..n, j # 1 PROVE \E k \in 1..(n - 1) : queue'[k] = queue[j]
    OBVIOUS
  <2>1. j - 1 \in 1..(n - 1) /\ (j - 1) + 1 = j
    BY <1>1
  <2> QED
    BY <1>1, <2>1
<1>4. ASSUME NEW p, Pending(p)' PROVE Pending(p) /\ (p = r => Twice(p))
  BY <1>1, <1>2, <1>4 DEF Pending, Twice
<1>5. ASSUME NEW p, Pending(p), p # r PROVE Pending(p)'
  <2>1. CASE \E i \in DOMAIN loads : loads[i] = p
    BY <2>1 DEF Pending
  <2>2. ASSUME NEW j \in 1..n, queue[j].path = p PROVE Pending(p)'
    <3>1. PICK k \in 1..(n - 1) : queue'[k] = queue[j]
      BY <1>1, <1>3, <1>5, <2>2
    <3> QED
      BY <1>1, <2>2, <3>1 DEF Pending
  <2> QED
    BY <1>1, <1>5, <2>1, <2>2 DEF Pending
<1>6. Pending(r)
  BY <1>1 DEF Pending
<1>7. ASSUME NEW p, Twice(p)' PROVE Twice(p)
  <2>1. CASE \E k, m \in DOMAIN queue' : k # m /\ queue'[k].path = p /\ queue'[m].path = p
    <3>1. PICK k, m \in 1..(n - 1) : k # m /\ queue'[k].path = p /\ queue'[m].path = p
      BY <1>1, <2>1
    <3>2. k + 1 # m + 1
      BY <3>1
    <3> QED
      BY <1>1, <1>2, <3>1, <3>2 DEF Twice
  <2>2. CASE /\ \E i \in DOMAIN loads : loads[i] = p
             /\ \E k \in DOMAIN queue' : queue'[k].path = p
    BY <1>1, <1>2, <2>2 DEF Twice
  <2> QED
    BY <1>7, <2>1, <2>2 DEF Twice
<1> QED
  BY <1>1, <1>4, <1>5, <1>6, <1>7

(***************************************************************************)
(* The invariant.  Only a node that has been loaded has children; a node is *)
(* answered once, unless it was opened again while it was being listed, and *)
(* then all below it are spoiled; a node that is gone is not waited for.    *)
(***************************************************************************)
Types ==
    /\ mounted \in BOOLEAN
    /\ tree \in [Paths -> Nodes \cup {None}]
    /\ expanded \in SUBSET Dirs
    /\ loads \in Seq(Dirs \cup {Root})
    /\ queue \in Seq([path : Dirs \cup {Root}, entries : SUBSET Paths])
    /\ spoiled \in SUBSET Paths

\* An answer is the whole directory, or nothing.
AnswersOK == \A i \in DOMAIN queue : queue[i].entries \in {Entries(queue[i].path), {}}

ChildrenOK ==
    /\ \A p \in Dirs \cup {Root} : Children(p) \in {{}, Entries(p) \cap Dirs}
    /\ \A p \in Dirs : Children(p) # {} => Loaded(p)

\* The root is listed once.
RootOK == Pending(Root) => ~Twice(Root) /\ \A q \in Paths : tree[q] = None

AnswersOnce ==
    \A p \in Dirs : Twice(p) \/ (Pending(p) /\ Loaded(p)) => Below[p] \subseteq spoiled

AwaitedOK ==
    /\ \A p \in Dirs : Pending(p) /\ tree[p] = None => p \in spoiled
    /\ \A p \in expanded : p \in spoiled \/ Loaded(p) \/ (Pending(p) /\ tree[p] # None)

\* A tree that is hidden waits for nothing.
HiddenOK == ~mounted => loads = <<>> /\ queue = <<>>

IInv ==
    /\ Types
    /\ HiddenOK
    /\ mounted => AnswersOK /\ ChildrenOK /\ RootOK /\ AnswersOnce /\ AwaitedOK

\* A node is a directory.
LEMMA NodesAreDirs ==
    ASSUME ChildrenOK, NEW p \in Paths, tree[p] # None
    PROVE  p \in Dirs
<1>1. Parent[p] \in Dirs \cup {Root}
  BY PathsAssumption DEF PathsAssumption
<1>2. p \in Children(Parent[p])
  BY DEF Children, Entries
<1> QED
  BY <1>1, <1>2 DEF ChildrenOK

LEMMA QueuedPaths ==
    ASSUME Types
    PROVE  \A i \in DOMAIN queue : queue[i].path \in Dirs \cup {Root}
<1>1. \A i \in DOMAIN queue : queue[i] \in [path : Dirs \cup {Root}, entries : SUBSET Paths]
  BY ElementOfSeq, LenProperties DEF Types
<1> QED
  BY <1>1

LEMMA PendingAreDirs ==
    ASSUME Types, NEW p \in Paths, Pending(p)
    PROVE  p \in Dirs
<1>1. p # Root
  BY PathsAssumption DEF PathsAssumption
<1>2. \A i \in DOMAIN loads : loads[i] \in Dirs \cup {Root}
  BY ElementOfSeq, LenProperties DEF Types
<1> QED
  BY <1>1, <1>2, QueuedPaths DEF Pending

\* Below a directory without children there are no nodes.
LEMMA NothingBelow ==
    ASSUME ChildrenOK, NEW p \in Dirs \cup {Root}, Children(p) = {}
    PROVE  \A q \in Below[p] : tree[q] = None
<1> DEFINE S == {q \in Paths : tree[q] = None}
<1>1. Entries(p) \subseteq S
  BY DEF Children, Entries
<1>2. ASSUME NEW c \in S PROVE Entries(c) \subseteq S
  <2>1. CASE c \in Dirs
    BY <1>2, <2>1 DEF ChildrenOK, Children, Entries, Loaded
  <2>2. CASE c \notin Dirs
    BY <1>2, <2>2, PathsAssumption DEF PathsAssumption, Entries, Paths
  <2> QED
    BY <2>1, <2>2
<1>3. Below[p] \subseteq S
  BY <1>1, <1>2, BelowIsLeast DEF Paths
<1> QED
  BY <1>3

\* What a rendered answer makes of the nodes.
LEMMA UpdateTreeEffect ==
    ASSUME NEW p \in Dirs \cup {Root}, NEW children \in SUBSET Below[p],
           p = Root \/ tree[p] # None, NEW q \in Paths
    PROVE  UpdateTree(tree, p, children)[q] =
               IF q \in children THEN Fresh
               ELSE IF q \in Below[p] THEN None
               ELSE IF q = p THEN [loaded |-> TRUE, loading |-> FALSE]
               ELSE tree[q]
<1>1. q \in Below[p] => q # p
  BY TreeAssumption DEF TreeAssumption
<1> DEFINE t == [d \in Paths |-> CASE d \in children -> Fresh
                                  [] d \in Below[p] \ children -> None
                                  [] d = p -> [loaded |-> TRUE, loading |-> FALSE]
                                  [] OTHER -> tree[d]]
<1>2. UpdateTree(tree, p, children) = t
  BY DEF UpdateTree
<1>3. CASE q \in children
  BY <1>1, <1>2, <1>3
<1>4. CASE q \in Below[p] \ children
  BY <1>1, <1>2, <1>4
<1>5. CASE q \notin Below[p]
  BY <1>2, <1>5
<1> QED
  BY <1>3, <1>4, <1>5

LEMMA NewNodesAre ==
    /\ Fresh \in Nodes /\ Fresh # None /\ ~Fresh.loaded
    /\ [loaded |-> TRUE, loading |-> FALSE] \in Nodes
    /\ [loaded |-> TRUE, loading |-> FALSE] # None
<1>1. Fresh \in Nodes /\ [loaded |-> TRUE, loading |-> FALSE] \in Nodes
  BY DEF Fresh, Nodes
<1>2. ~Fresh.loaded
  BY DEF Fresh
<1> QED
  BY <1>1, <1>2, NoneAssumption DEF NoneAssumption

LEMMA RenderKeeps == ASSUME IInv, Render PROVE IInv'
<1> USE DEF Paths
<1> DEFINE r == Head(queue).path
           new == NewNodes(Head(queue).entries)
<1>1. /\ Types /\ mounted /\ AnswersOK /\ ChildrenOK /\ RootOK /\ AnswersOnce /\ AwaitedOK
      /\ queue # <<>> /\ tree' = UpdateTree(tree, r, new) /\ queue' = Tail(queue)
      /\ UNCHANGED <<mounted, expanded, loads, spoiled>>
  BY DEF IInv, Render, HiddenOK
<1>2. /\ Len(queue) \in Nat \ {0} /\ DOMAIN queue = 1..Len(queue) /\ Head(queue) = queue[1]
      /\ queue' \in Seq([path : Dirs \cup {Root}, entries : SUBSET Paths])
      /\ DOMAIN queue' = 1..(Len(queue) - 1)
      /\ \A k \in 1..(Len(queue) - 1) : queue'[k] = queue[k + 1]
  BY <1>1, HeadTailProperties, EmptySeq, LenProperties DEF Types
<1>3. r \in Dirs \cup {Root} /\ new \in {{}, Entries(r) \cap Dirs} /\ new \subseteq Below[r]
  <2>1. queue[1] \in [path : Dirs \cup {Root}, entries : SUBSET Paths] /\ 1 \in DOMAIN queue
    <3>1. queue \in Seq([path : Dirs \cup {Root}, entries : SUBSET Paths])
      BY <1>1 DEF Types
    <3>2. 1 \in 1..Len(queue)
      BY <1>2
    <3> QED
      BY <1>2, <3>1, <3>2, ElementOfSeq
  <2> QED
    BY <1>1, <1>2, <2>1, BelowIsClosed DEF AnswersOK, NewNodes
<1>4. /\ \A p : Pending(p)' => Pending(p)
      /\ \A p : Pending(p) /\ p # r => Pending(p)'
      /\ Pending(r)
      /\ \A p : p = r /\ Pending(p)' => Twice(p)
      /\ \A p : Twice(p)' => Twice(p)
  BY <1>1, RenderTakes DEF Types
<1>5. AnswersOK'
  BY <1>1, <1>2 DEF AnswersOK, Entries
<1> HIDE DEF r, new
<1>6. CASE r # Root /\ tree[r] = None
  <2>1. tree' = tree
    BY <1>1, <1>6 DEF UpdateTree
  <2>2. Types' /\ ChildrenOK'
    BY <1>1, <1>2, <2>1 DEF Types, ChildrenOK, Children, Loaded
  <2>3. RootOK'
    BY <1>1, <1>4, <2>1 DEF RootOK
  <2>4. AnswersOnce'
    BY <1>1, <1>4, <2>1 DEF AnswersOnce, Loaded
  <2>5. AwaitedOK'
    BY <1>1, <1>4, <1>6, <2>1 DEF AwaitedOK, Loaded
  <2> QED
    BY <1>1, <1>5, <2>2, <2>3, <2>4, <2>5 DEF IInv, HiddenOK
<1>7. CASE r = Root \/ tree[r] # None
  <2>1. \A q \in Paths : tree'[q] = IF q \in new THEN Fresh
                                   ELSE IF q \in Below[r] THEN None
                                   ELSE IF q = r THEN [loaded |-> TRUE, loading |-> FALSE]
                                   ELSE tree[q]
    BY <1>1, <1>3, <1>7, UpdateTreeEffect DEF r, new
  <2>2. DOMAIN tree' = Paths /\ tree' = [q \in Paths |-> tree'[q]]
    <3> DEFINE t == [d \in Paths |-> CASE d \in new -> Fresh
                                      [] d \in Below[r] \ new -> None
                                      [] d = r -> [loaded |-> TRUE, loading |-> FALSE]
                                      [] OTHER -> tree[d]]
    <3>1. tree' = t
      BY <1>1, <1>7 DEF UpdateTree
    <3> QED
      BY <3>1
  <2>3. tree' \in [Paths -> Nodes \cup {None}]
    BY <1>1, <2>1, <2>2, NewNodesAre DEF Types
  <2>4. Types'
    BY <1>1, <1>2, <2>3 DEF Types
  <2>5. r \notin Below[r] /\ Root \notin Below[r] /\ Below[r] \subseteq Paths
    BY <1>3, TreeAssumption, PathsAssumption, BelowIsClosed
       DEF TreeAssumption, PathsAssumption
  <2>6. ChildrenOK'
    <3>1. ASSUME NEW p \in Dirs \cup {Root}, p = r PROVE Children(p)' = new
      <4>1. \A q \in Entries(p) : q \in Below[r] /\ q \in Paths
        BY <3>1, BelowIsClosed, <1>3 DEF Entries
      <4>2. new \subseteq Entries(p)
        BY <1>3, <3>1
      <4> QED
        BY <2>1, <4>1, <4>2, NewNodesAre DEF Children, Entries
    <3>2. ASSUME NEW p \in Below[r] PROVE Children(p)' = {}
      <4>1. \A q \in Entries(p) : q \in Below[r] /\ q \in Paths
        BY <1>3, <3>2, BelowIsClosed DEF Entries
      <4>2. \A q \in Entries(p) : q \notin new
        BY <1>3, <2>5, <3>2 DEF Entries
      <4> QED
        BY <2>1, <4>1, <4>2 DEF Children, Entries
    <3>3. ASSUME NEW p \in Dirs \cup {Root}, p # r, p \notin Below[r]
          PROVE  Children(p)' = Children(p)
      <4>1. \A q \in Entries(p) : q \notin Below[r] /\ q \in Paths
        BY <1>3, <3>3, ParentOfBelow DEF Entries
      <4>2. \A q \in Entries(p) : tree'[q] # None <=> tree[q] # None
        BY <1>3, <1>7, <2>1, <4>1, PathsAssumption, NewNodesAre DEF PathsAssumption
      <4> QED
        BY <4>2 DEF Children, Entries
    <3>4. ASSUME NEW p \in Dirs \cup {Root}
          PROVE  Children(p)' \in {{}, Entries(p) \cap Dirs}
      BY <1>1, <1>3, <3>1, <3>2, <3>3 DEF ChildrenOK
    <3>5. ASSUME NEW p \in Dirs, Children(p)' # {} PROVE Loaded(p)'
      <4>1. CASE p = r
        BY <1>3, <2>1, <2>5, <4>1, NewNodesAre DEF Loaded
      <4>2. CASE p # r
        <5>1. p \notin Below[r] /\ Children(p) # {}
          BY <3>2, <3>3, <3>5, <4>2
        <5> QED
          BY <1>1, <1>3, <2>1, <4>2, <5>1 DEF ChildrenOK, Loaded
      <4> QED
        BY <4>1, <4>2
    <3>6. Entries(Root)' = Entries(Root) /\ \A p \in Dirs : Entries(p)' = Entries(p)
      BY DEF Entries
    <3> QED
      BY <3>4, <3>5, <3>6 DEF ChildrenOK
  <2>7. ASSUME NEW q \in Below[r], Pending(q) \/ q \in expanded PROVE q \in spoiled
    <3>1. CASE Below[r] \subseteq spoiled
      BY <2>7, <3>1
    <3>2. CASE ~(Below[r] \subseteq spoiled)
      <4>1. tree[q] = None
        <5>1. CASE r = Root
          BY <1>1, <1>4, <2>5, <2>7, <5>1 DEF RootOK
        <5>2. CASE r # Root
          <6>1. r \in Dirs /\ ~Loaded(r)
            BY <1>1, <1>3, <1>4, <3>2, <5>2 DEF AnswersOnce
          <6>2. Children(r) = {}
            BY <1>1, <6>1 DEF ChildrenOK
          <6> QED
            BY <1>1, <2>7, <6>1, <6>2, NothingBelow
        <5> QED
          BY <5>1, <5>2
      <4>2. CASE q \in expanded
        BY <1>1, <4>1, <4>2 DEF AwaitedOK, Loaded
      <4>3. CASE Pending(q)
        <5>1. q \in Dirs
          BY <2>5, <2>7, <4>3, <1>1, PendingAreDirs
        <5> QED
          BY <1>1, <4>1, <4>3, <5>1 DEF AwaitedOK
      <4> QED
        BY <2>7, <4>2, <4>3
    <3> QED
      BY <3>1, <3>2
  <2>8. RootOK'
    <3> SUFFICES ASSUME Pending(Root)' PROVE ~Twice(Root)' /\ \A q \in Paths : tree'[q] = None
      BY DEF RootOK
    <3>1. Pending(Root) /\ ~Twice(Root) /\ \A q \in Paths : tree[q] = None
      BY <1>1, <1>4 DEF RootOK
    <3>2. r # Root
      BY <1>4, <3>1
    <3> QED
      BY <1>3, <1>7, <3>1, <3>2
  <2>9. AnswersOnce'
    <3> SUFFICES ASSUME NEW p \in Dirs, Twice(p)' \/ (Pending(p)' /\ Loaded(p)')
                 PROVE  Below[p] \subseteq spoiled
      BY <1>1 DEF AnswersOnce
    <3>1. CASE Twice(p)'
      BY <1>1, <1>4, <3>1 DEF AnswersOnce
    <3>2. CASE Pending(p)' /\ Loaded(p)'
      <4>1. CASE p = r
        BY <1>1, <1>4, <3>2, <4>1 DEF AnswersOnce
      <4>2. CASE p # r
        <5>1. Loaded(p)
          BY <2>1, <3>2, <4>2, NewNodesAre DEF Loaded
        <5> QED
          BY <1>1, <1>4, <3>2, <5>1 DEF AnswersOnce
      <4> QED
        BY <4>1, <4>2
    <3> QED
      BY <3>1, <3>2
  <2>10. AwaitedOK'
    <3>1. ASSUME NEW p \in Dirs, Pending(p)', tree'[p] = None PROVE p \in spoiled
      <4>1. CASE p \in Below[r]
        BY <1>4, <2>7, <3>1, <4>1
      <4>2. CASE p \notin Below[r]
        <5>1. tree[p] = None
          BY <1>3, <2>1, <3>1, <4>2, NewNodesAre
        <5> QED
          BY <1>1, <1>4, <3>1, <5>1 DEF AwaitedOK
      <4> QED
        BY <4>1, <4>2
    <3>2. ASSUME NEW p \in expanded
          PROVE  p \in spoiled \/ Loaded(p)' \/ (Pending(p)' /\ tree'[p] # None)
      <4>0. p \in Dirs /\ (p \in spoiled \/ Loaded(p) \/ (Pending(p) /\ tree[p] # None))
        BY <1>1 DEF AwaitedOK, Types
      <4>1. CASE p \in Below[r]
        BY <2>7, <4>0, <4>1
      <4>2. CASE p \notin Below[r] /\ p = r
        BY <1>3, <2>1, <4>0, <4>2, NewNodesAre DEF Loaded
      <4>3. CASE p \notin Below[r] /\ p # r
        BY <1>3, <1>4, <2>1, <4>0, <4>3 DEF Loaded
      <4> QED
        BY <4>0, <4>1, <4>2, <4>3
    <3> QED
      BY <1>1, <3>1, <3>2 DEF AwaitedOK
  <2> QED
    BY <1>1, <1>5, <2>4, <2>6, <2>8, <2>9, <2>10 DEF IInv, HiddenOK
<1> QED
  BY <1>6, <1>7

LEMMA LoadDirectoryKeeps == ASSUME IInv, NEW i \in DOMAIN loads, LoadDirectory(i) PROVE IInv'
<1>1. PICK entries \in {Entries(loads[i]), {}} :
          /\ loads' = RemoveAt(loads, i)
          /\ queue' = Append(queue, [path |-> loads[i], entries |-> entries])
          /\ UNCHANGED <<mounted, tree, expanded, spoiled>>
  BY DEF LoadDirectory
<1> DEFINE a == [path |-> loads[i], entries |-> entries]
<1>2. /\ Types /\ mounted /\ AnswersOK /\ ChildrenOK /\ RootOK /\ AnswersOnce /\ AwaitedOK
  BY EmptySeq DEF IInv, HiddenOK
<1>3. /\ loads[i] \in Dirs \cup {Root} /\ entries \in SUBSET Paths
      /\ a.path = loads[i] /\ a.entries = entries
  BY <1>2, ElementOfSeq, LenProperties DEF Types, Entries
<1>4. a \in [path : Dirs \cup {Root}, entries : SUBSET Paths]
  BY <1>3
<1> HIDE DEF a
<1>5. loads' = RemoveAt(loads, i) /\ queue' = Append(queue, a)
  BY <1>1 DEF a
<1>6. /\ \A p : Pending(p)' <=> Pending(p)
      /\ \A p : Twice(p)' => Twice(p)
  BY <1>2, <1>3, <1>4, <1>5, AnswerMoves DEF Types
<1>7. Types'
  <2>1. loads' \in Seq(Dirs \cup {Root})
    BY <1>2, <1>5, RemoveAtProperties DEF Types
  <2>2. queue' \in Seq([path : Dirs \cup {Root}, entries : SUBSET Paths])
    BY <1>2, <1>4, <1>5, AppendProperties DEF Types
  <2> QED
    BY <1>1, <1>2, <2>1, <2>2 DEF Types
<1>8. AnswersOK'
  <2>1. /\ Len(queue) \in Nat /\ DOMAIN queue = 1..Len(queue)
        /\ DOMAIN queue' = 1..(Len(queue) + 1)
        /\ \A k \in 1..Len(queue) : queue'[k] = queue[k]
        /\ queue'[Len(queue) + 1] = a
    BY <1>2, <1>4, <1>5, AppendProperties, LenProperties DEF Types
  <2>2. a.entries \in {Entries(a.path), {}}
    BY <1>1, <1>3
  <2>3. ASSUME NEW k \in DOMAIN queue' PROVE queue'[k].entries \in {Entries(queue'[k].path), {}}
    BY <1>2, <2>1, <2>2 DEF AnswersOK
  <2> QED
    BY <2>3 DEF AnswersOK, Entries
<1>9. ChildrenOK'
  BY <1>1, <1>2 DEF ChildrenOK, Children, Entries, Loaded
<1>10. RootOK' /\ AnswersOnce' /\ AwaitedOK'
  BY <1>1, <1>2, <1>6 DEF RootOK, AnswersOnce, AwaitedOK, Loaded
<1> QED
  BY <1>1, <1>2, <1>7, <1>8, <1>9, <1>10 DEF IInv, HiddenOK

\* To open a node drops the answers that wait, and spoils their nodes.
LEMMA OpenKeeps == ASSUME IInv, mounted, NEW p \in Paths, Shown(p), Open(p) PROVE IInv'
<1>1. /\ Types /\ AnswersOK /\ ChildrenOK /\ RootOK /\ AnswersOnce /\ AwaitedOK
      /\ tree[p] # None /\ queue' = <<>> /\ mounted' /\ expanded' = expanded \cup {p}
      /\ DOMAIN queue' = {}
      /\ queue' \in Seq([path : Dirs \cup {Root}, entries : SUBSET Paths])
  BY EmptySeq DEF IInv, Shown, Open
<1>2. p \in Dirs /\ ~Pending(Root) /\ p # Root
  BY <1>1, NodesAreDirs, PathsAssumption DEF RootOK, PathsAssumption
<1>3. Queued \subseteq Paths
  <2>1. \A i \in DOMAIN queue : queue[i].path \in Dirs \cup {Root}
    BY <1>1, QueuedPaths
  <2> QED
    BY <1>2, <2>1 DEF Queued, Pending, Paths
<1>4. /\ tree' \in [Paths -> Nodes \cup {None}]
      /\ \A q \in Paths : (tree'[q] = None <=> tree[q] = None) /\ (Loaded(q)' <=> Loaded(q))
  <2>1. CASE tree' = tree
    BY <1>1, <2>1 DEF Types, Loaded
  <2>2. CASE tree' = [tree EXCEPT ![p].loading = TRUE]
    <3> DEFINE n == [tree[p] EXCEPT !.loading = TRUE]
    <3>1. tree[p] \in Nodes
      BY <1>1 DEF Types
    <3>2. n \in Nodes /\ n.loaded = tree[p].loaded
      BY <3>1 DEF Nodes
    <3>3. n # None
      BY <3>2, NoneAssumption DEF NoneAssumption
    <3>4. tree' = [tree EXCEPT ![p] = n]
      BY <2>2
    <3> HIDE DEF n
    <3> QED
      BY <1>1, <3>2, <3>3, <3>4 DEF Types, Loaded
  <2> QED
    BY <2>1, <2>2 DEF Open
<1>5. CASE tree[p].loaded
  <2>1. UNCHANGED <<tree, loads>> /\ spoiled' = spoiled \cup Queued
    BY <1>5 DEF Open
  <2>2. \A q : Pending(q)' => Pending(q)
    BY <1>1, <2>1 DEF Pending
  <2>3. \A q : Pending(q) => Pending(q)' \/ q \in Queued
    BY <1>1, <2>1 DEF Pending, Queued
  <2>4. \A q : Twice(q)' => Twice(q)
    BY <1>1, <2>1 DEF Twice
  <2>5. Types'
    BY <1>1, <1>2, <1>3, <1>4, <2>1 DEF Types
  <2>6. AnswersOK' /\ ChildrenOK' /\ RootOK' /\ AnswersOnce'
    BY <1>1, <1>2, <2>1, <2>2, <2>4
       DEF AnswersOK, ChildrenOK, Children, Entries, RootOK, AnswersOnce, Loaded
  <2>7. AwaitedOK'
    BY <1>1, <1>2, <1>5, <2>1, <2>2, <2>3 DEF AwaitedOK, Loaded
  <2> QED
    BY <1>1, <2>5, <2>6, <2>7 DEF IInv, HiddenOK
<1>6. CASE ~tree[p].loaded
  <2>1. /\ loads' = Append(loads, p)
        /\ spoiled' = spoiled \cup Queued
                         \cup (IF p \in ToSet(loads) THEN Below[p] ELSE {})
    BY <1>6 DEF Open
  <2>2. /\ Len(loads) \in Nat /\ DOMAIN loads = 1..Len(loads)
        /\ DOMAIN loads' = 1..(Len(loads) + 1)
        /\ \A k \in 1..Len(loads) : loads'[k] = loads[k]
        /\ loads'[Len(loads) + 1] = p
        /\ loads' \in Seq(Dirs \cup {Root})
    BY <1>1, <1>2, <2>1, AppendProperties, LenProperties DEF Types
  <2>3. DOMAIN loads' = DOMAIN loads \cup {Len(loads) + 1}
    BY <2>2
  <2>4. \A q : Pending(q)' => Pending(q) \/ q = p
    BY <1>1, <2>2, <2>3 DEF Pending
  <2>5. \A q : Pending(q) => Pending(q)' \/ q \in Queued
    BY <1>1, <2>2, <2>3 DEF Pending, Queued
  <2>6. ASSUME NEW q, Twice(q)' PROVE Twice(q) \/ (q = p /\ p \in ToSet(loads))
    <3>1. PICK i, j \in DOMAIN loads' : i # j /\ loads'[i] = q /\ loads'[j] = q
      BY <1>1, <2>6 DEF Twice
    <3>2. CASE i \in DOMAIN loads /\ j \in DOMAIN loads
      BY <2>2, <3>1, <3>2 DEF Twice
    <3>3. CASE i \notin DOMAIN loads \/ j \notin DOMAIN loads
      BY <2>2, <2>3, <3>1, <3>3 DEF ToSet
    <3> QED
      BY <3>2, <3>3
  <2>7. Pending(p)'
    BY <2>2, <2>3 DEF Pending
  <2>8. Types'
    BY <1>1, <1>2, <1>3, <1>4, <2>1, <2>2, BelowIsClosed DEF Types
  <2>9. AnswersOK' /\ ChildrenOK' /\ RootOK'
    BY <1>1, <1>2, <1>4, <2>4
       DEF AnswersOK, ChildrenOK, Children, Entries, RootOK, Paths
  <2>10. AnswersOnce'
    BY <1>1, <1>4, <1>6, <2>1, <2>4, <2>6 DEF AnswersOnce, Loaded, Paths
  <2>11. AwaitedOK'
    <3>1. ASSUME NEW q \in Dirs, Pending(q)', tree'[q] = None PROVE q \in spoiled'
      BY <1>1, <1>4, <2>1, <2>4, <3>1 DEF AwaitedOK, Paths
    <3>2. ASSUME NEW q \in expanded'
          PROVE  q \in spoiled' \/ Loaded(q)' \/ (Pending(q)' /\ tree'[q] # None)
      <4>1. CASE q = p
        BY <1>1, <1>4, <2>7, <4>1
      <4>2. CASE q \in expanded
        <5>1. q \in Paths /\ (q \in spoiled \/ Loaded(q) \/ (Pending(q) /\ tree[q] # None))
          BY <1>1, <4>2 DEF AwaitedOK, Types, Paths
        <5> QED
          BY <1>4, <2>1, <2>5, <5>1
      <4> QED
        BY <1>1, <4>1, <4>2
    <3> QED
      BY <3>1, <3>2 DEF AwaitedOK
  <2> QED
    BY <1>1, <2>8, <2>9, <2>10, <2>11 DEF IInv, HiddenOK
<1> QED
  BY <1>5, <1>6

LEMMA InitIInv == Init => IInv
<1> SUFFICES ASSUME Init PROVE IInv
  OBVIOUS
<1>1. /\ loads \in Seq(Dirs \cup {Root}) /\ DOMAIN loads = {1} /\ loads[1] = Root
      /\ queue \in Seq([path : Dirs \cup {Root}, entries : SUBSET Paths]) /\ DOMAIN queue = {}
  BY DEF Init
<1>2. Types
  BY <1>1 DEF Init, Types
<1>3. \A p : (Pending(p) <=> p = Root) /\ ~Twice(p)
  BY <1>1 DEF Pending, Twice
<1>4. AnswersOK /\ ChildrenOK /\ RootOK
  BY <1>1, <1>3 DEF Init, AnswersOK, ChildrenOK, Children, Entries, RootOK
<1>5. AnswersOnce /\ AwaitedOK
  BY <1>3, PathsAssumption DEF PathsAssumption, Init, AnswersOnce, AwaitedOK, Paths
<1> QED
  BY <1>2, <1>4, <1>5 DEF Init, IInv, HiddenOK

LEMMA StepIInv == IInv /\ [Next]_vars => IInv'
<1> SUFFICES ASSUME IInv, [Next]_vars PROVE IInv'
  OBVIOUS
<1>1. ASSUME NEW i \in DOMAIN loads, LoadDirectory(i) PROVE IInv'
  BY <1>1, LoadDirectoryKeeps
<1>2. CASE Render
  BY <1>2, RenderKeeps
<1>3. ASSUME NEW p \in Paths, RenderNode(p) PROVE IInv'
  <2>1. CASE Close(p)
    <3>1. /\ expanded' \in SUBSET expanded
          /\ UNCHANGED <<mounted, tree, loads, queue, spoiled>>
      BY <2>1 DEF Close
    <3>2. Types' /\ HiddenOK'
      BY <3>1 DEF IInv, Types, HiddenOK
    <3>3. mounted => AnswersOK' /\ ChildrenOK' /\ RootOK' /\ AnswersOnce'
      BY <3>1 DEF IInv, AnswersOK, ChildrenOK, Children, Entries, RootOK, AnswersOnce, Pending,
                  Twice, Loaded
    <3>4. mounted => AwaitedOK'
      BY <3>1 DEF IInv, AwaitedOK, Pending, Loaded
    <3> QED
      BY <3>1, <3>2, <3>3, <3>4 DEF IInv
  <2>2. CASE Open(p)
    BY <1>3, <2>2, OpenKeeps DEF RenderNode
  <2> QED
    BY <1>3, <2>1, <2>2 DEF RenderNode, ToggleNode
<1>4. CASE SetShowTree
  <2>1. CASE mounted
    <3>1. /\ mounted' = FALSE /\ loads' = <<>> /\ queue' = <<>>
          /\ UNCHANGED <<tree, expanded, spoiled>>
      BY <1>4, <2>1 DEF SetShowTree
    <3>2. /\ loads' \in Seq(Dirs \cup {Root})
          /\ queue' \in Seq([path : Dirs \cup {Root}, entries : SUBSET Paths])
      BY <3>1
    <3> QED
      BY <3>1, <3>2 DEF IInv, Types, HiddenOK
  <2>2. CASE ~mounted
    <3>1. Init'
      BY <1>4, <2>2 DEF SetShowTree, Mounted, Init
    <3>2. Init' => IInv'
      BY InitIInv, PTL
    <3> QED
      BY <3>1, <3>2
  <2> QED
    BY <2>1, <2>2
<1>5. CASE UNCHANGED vars
  BY <1>5 DEF vars, IInv, Types, HiddenOK, AnswersOK, ChildrenOK, Children, Entries, RootOK,
              AnswersOnce, AwaitedOK, Pending, Twice, Loaded
<1> QED
  BY <1>1, <1>2, <1>3, <1>4, <1>5 DEF Next

\* The invariant holds in every state, for trees of any depth.
THEOREM Invariance == Spec => []IInv
<1> QED
  BY InitIInv, StepIInv, PTL DEF Spec

\* Every variable keeps its type.
THEOREM TypesOfTree == Spec => []TypeOK
<1>1. IInv => TypeOK
  BY DEF IInv, Types, TypeOK
<1> QED
  BY <1>1, Invariance, PTL

\* However listings, renderings and clicks interleave, the children of a node are the
\* directories of its directory, and only a node that was answered has any.
THEOREM ChildrenAre == Spec => []ChildrenAreDirectories
<1>1. IInv => ChildrenAreDirectories
  BY DEF IInv, ChildrenOK, Loaded, ChildrenAreDirectories
<1> QED
  BY <1>1, Invariance, PTL

\* The safety part of OpenNodesLoad: what an open node waits for is never lost, unless a
\* click dropped it or its parent was listed again.
THEOREM AnswersAreKept == Spec => []NoAnswerLost
<1>1. IInv => NoAnswerLost
  BY DEF IInv, AwaitedOK, Pending, Loaded, NoAnswerLost, Queued, ToSet
<1> QED
  BY <1>1, Invariance, PTL
=============================================================================
