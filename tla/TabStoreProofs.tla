----------------------------- MODULE TabStoreProofs -----------------------------
(***************************************************************************)
(* Theorems about TabStore for any number of tabs and clicks: a tab is in   *)
(* front whenever there are tabs, and no session is left without a tab or a *)
(* call that closes it.                                                     *)
(***************************************************************************)
EXTENDS TabStore, SequenceTheorems, TLAPS

-----------------------------------------------------------------------------
(* Lemmas about the tab bar                                                 *)

\* What is left when the element at i is taken out, position by position.
LEMMA RemovedAt ==
    ASSUME NEW S, NEW s \in Seq(S), NEW i \in DOMAIN s
    PROVE  /\ RemoveAt(s, i) \in Seq(S)
           /\ Len(RemoveAt(s, i)) = Len(s) - 1
           /\ \A k \in 1..(Len(s) - 1) : RemoveAt(s, i)[k] = s[IF k < i THEN k ELSE k + 1]
<1> DEFINE front == SubSeq(s, 1, i - 1)
           back == SubSeq(s, i + 1, Len(s))
<1>1. i \in 1..Len(s) /\ Len(s) \in Nat
  BY LenProperties
<1>2. front \in Seq(S) /\ Len(front) = i - 1 /\ \A k \in 1..(i - 1) : front[k] = s[k]
  BY <1>1, SubSeqProperties
<1>3. back \in Seq(S) /\ Len(back) = Len(s) - i /\ \A k \in 1..(Len(s) - i) : back[k] = s[i + k]
  BY <1>1, SubSeqProperties
<1>4. RemoveAt(s, i) = front \o back
  BY DEF RemoveAt
<1> HIDE DEF front, back
<1>5. RemoveAt(s, i) \in Seq(S) /\ Len(RemoveAt(s, i)) = Len(s) - 1
  BY <1>1, <1>2, <1>3, <1>4, ConcatProperties
<1>6. ASSUME NEW k \in 1..(Len(s) - 1)
      PROVE  RemoveAt(s, i)[k] = s[IF k < i THEN k ELSE k + 1]
  <2>1. (front \o back)[k] = IF k <= Len(front) THEN front[k] ELSE back[k - Len(front)]
    <3>1. \A m \in 1..(Len(front) + Len(back)) :
            (front \o back)[m] = IF m <= Len(front) THEN front[m] ELSE back[m - Len(front)]
      BY <1>2, <1>3, ConcatProperties
    <3>2. k \in 1..(Len(front) + Len(back))
      BY <1>1, <1>2, <1>3
    <3> QED  BY <3>1, <3>2
  <2>2. CASE k < i
    BY <1>1, <1>2, <1>4, <2>1, <2>2
  <2>3. CASE k >= i
    <3>1. k - Len(front) \in 1..(Len(s) - i) /\ i + (k - Len(front)) = k + 1
      BY <1>1, <1>2, <2>3
    <3>2. back[k - Len(front)] = s[k + 1]
      BY <1>3, <3>1
    <3>3. ~(k <= Len(front)) /\ ~(k < i)
      BY <1>1, <1>2, <2>3
    <3> QED  BY <1>4, <2>1, <3>2, <3>3
  <2> QED  BY <1>1, <2>2, <2>3
<1> QED  BY <1>5, <1>6

\* Taking out one of distinct elements leaves the others, and distinct.
LEMMA RemovedElements ==
    ASSUME NEW S, NEW s \in Seq(S), NEW i \in DOMAIN s
    PROVE  /\ ToSet(s) \ {s[i]} \subseteq ToSet(RemoveAt(s, i))
           /\ ToSet(RemoveAt(s, i)) \subseteq ToSet(s)
           /\ IsInjective(s) => /\ IsInjective(RemoveAt(s, i))
                                /\ s[i] \notin ToSet(RemoveAt(s, i))
<1> DEFINE r == RemoveAt(s, i)
           from(k) == IF k < i THEN k ELSE k + 1
<1>1. i \in 1..Len(s) /\ Len(s) \in Nat /\ DOMAIN s = 1..Len(s)
  BY LenProperties
<1>2. /\ DOMAIN r = 1..(Len(s) - 1)
      /\ \A k \in DOMAIN r : r[k] = s[from(k)]
  <2>1. /\ r \in Seq(S) /\ Len(r) = Len(s) - 1
        /\ \A k \in 1..(Len(s) - 1) : r[k] = s[from(k)]
    BY RemovedAt
  <2> HIDE DEF r
  <2>2. DOMAIN r = 1..(Len(s) - 1)
    BY <2>1, LenProperties
  <2> QED  BY <2>1, <2>2
<1> HIDE DEF r
<1>3. \A k \in DOMAIN r : from(k) \in DOMAIN s \ {i}
  BY <1>1, <1>2
<1>4. \A j, k \in DOMAIN r : from(j) = from(k) => j = k
  BY <1>1, <1>2
<1>5. ASSUME NEW j \in DOMAIN s \ {i} PROVE \E k \in DOMAIN r : from(k) = j
  <2> DEFINE k == IF j < i THEN j ELSE j - 1
  <2>1. k \in DOMAIN r /\ from(k) = j
    BY <1>1, <1>2, <1>5
  <2> QED  BY <2>1
<1> HIDE DEF from
<1>6. ToSet(s) \ {s[i]} \subseteq ToSet(r)
  BY <1>2, <1>5 DEF ToSet
<1>7. ToSet(r) \subseteq ToSet(s)
  BY <1>2, <1>3 DEF ToSet
<1>8. IsInjective(s) => IsInjective(r) /\ s[i] \notin ToSet(r)
  BY <1>2, <1>3, <1>4 DEF IsInjective, ToSet
<1> QED  BY <1>6, <1>7, <1>8 DEF r

\* An element put in at j, position by position.
LEMMA InsertedAt ==
    ASSUME NEW S, NEW s \in Seq(S), NEW j \in 1..(Len(s) + 1), NEW e \in S
    PROVE  /\ InsertAt(s, j, e) \in Seq(S)
           /\ Len(InsertAt(s, j, e)) = Len(s) + 1
           /\ InsertAt(s, j, e)[j] = e
           /\ \A k \in 1..(Len(s) + 1) \ {j} :
                InsertAt(s, j, e)[k] = s[IF k < j THEN k ELSE k - 1]
<1> DEFINE front == SubSeq(s, 1, j - 1)
           back == SubSeq(s, j, Len(s))
           half == front \o <<e>>
<1>1. Len(s) \in Nat
  BY LenProperties
<1>2. front \in Seq(S) /\ Len(front) = j - 1 /\ \A k \in 1..(j - 1) : front[k] = s[k]
  BY <1>1, SubSeqProperties
<1>3. /\ back \in Seq(S) /\ Len(back) = Len(s) - j + 1
      /\ \A k \in 1..(Len(s) - j + 1) : back[k] = s[j + k - 1]
  BY <1>1, SubSeqProperties
<1>4. InsertAt(s, j, e) = half \o back
  BY DEF InsertAt
<1> HIDE DEF front, back
<1>5. <<e>> \in Seq(S) /\ Len(<<e>>) = 1 /\ <<e>>[1] = e
  OBVIOUS
<1>6. /\ half \in Seq(S) /\ Len(half) = j
      /\ \A k \in 1..j : half[k] = IF k <= Len(front) THEN front[k] ELSE <<e>>[k - Len(front)]
  BY <1>1, <1>2, <1>5, ConcatProperties
<1> HIDE DEF half
<1>7. half[j] = e /\ \A k \in 1..(j - 1) : half[k] = s[k]
  BY <1>1, <1>2, <1>5, <1>6
<1>8. /\ half \o back \in Seq(S) /\ Len(half \o back) = Len(s) + 1
      /\ \A k \in 1..(Len(s) + 1) :
            (half \o back)[k] = IF k <= Len(half) THEN half[k] ELSE back[k - Len(half)]
  BY <1>1, <1>3, <1>6, ConcatProperties
<1>9. (half \o back)[j] = e
  BY <1>1, <1>6, <1>7, <1>8
<1>10. ASSUME NEW k \in 1..(Len(s) + 1) \ {j}
       PROVE  (half \o back)[k] = s[IF k < j THEN k ELSE k - 1]
  <2>1. CASE k < j
    BY <1>1, <1>6, <1>7, <1>8, <2>1
  <2>2. CASE k > j
    <3>1. k - Len(half) \in 1..(Len(s) - j + 1) /\ j + (k - Len(half)) - 1 = k - 1
      BY <1>1, <1>6, <2>2
    <3>2. back[k - Len(half)] = s[k - 1]
      BY <1>3, <3>1
    <3>3. ~(k <= Len(half)) /\ ~(k < j)
      BY <1>1, <1>6, <2>2
    <3> QED  BY <1>8, <3>2, <3>3
  <2>3. k < j \/ k > j
    BY <1>1, <1>10
  <2> QED  BY <2>1, <2>2, <2>3
<1> QED  BY <1>4, <1>8, <1>9, <1>10

LEMMA InsertedElements ==
    ASSUME NEW S, NEW s \in Seq(S), NEW j \in 1..(Len(s) + 1), NEW e \in S
    PROVE  /\ ToSet(InsertAt(s, j, e)) = ToSet(s) \cup {e}
           /\ IsInjective(s) /\ e \notin ToSet(s) => IsInjective(InsertAt(s, j, e))
<1> DEFINE r == InsertAt(s, j, e)
           from(k) == IF k < j THEN k ELSE k - 1
<1>1. Len(s) \in Nat /\ DOMAIN s = 1..Len(s)
  BY LenProperties
<1>2. /\ DOMAIN r = 1..(Len(s) + 1) /\ j \in DOMAIN r /\ r[j] = e
      /\ \A k \in DOMAIN r \ {j} : r[k] = s[from(k)]
  <2>1. /\ r \in Seq(S) /\ Len(r) = Len(s) + 1 /\ r[j] = e
        /\ \A k \in 1..(Len(s) + 1) \ {j} : r[k] = s[from(k)]
    BY InsertedAt
  <2> HIDE DEF r
  <2>2. DOMAIN r = 1..(Len(s) + 1)
    BY <2>1, LenProperties
  <2> QED  BY <2>1, <2>2
<1> HIDE DEF r
<1>3. \A k \in DOMAIN r \ {j} : from(k) \in DOMAIN s
  BY <1>1, <1>2
<1>4. \A h, k \in DOMAIN r \ {j} : from(h) = from(k) => h = k
  BY <1>1, <1>2
<1>5. ASSUME NEW i \in DOMAIN s PROVE \E k \in DOMAIN r \ {j} : from(k) = i
  <2> DEFINE k == IF i < j THEN i ELSE i + 1
  <2>1. k \in DOMAIN r \ {j} /\ from(k) = i
    BY <1>1, <1>2, <1>5
  <2> QED  BY <2>1
<1> HIDE DEF from
<1>6. ToSet(s) \cup {e} \subseteq ToSet(r)
  BY <1>2, <1>5 DEF ToSet
<1>7. ToSet(r) \subseteq ToSet(s) \cup {e}
  BY <1>2, <1>3 DEF ToSet
<1>8. IsInjective(s) /\ e \notin ToSet(s) => IsInjective(r)
  BY <1>2, <1>3, <1>4 DEF IsInjective, ToSet
<1> QED  BY <1>6, <1>7, <1>8 DEF r

LEMMA AppendedElements ==
    ASSUME NEW S, NEW s \in Seq(S), NEW e \in S
    PROVE  /\ Append(s, e) \in Seq(S) /\ Append(s, e) # <<>>
           /\ ToSet(Append(s, e)) = ToSet(s) \cup {e}
           /\ IsInjective(s) /\ e \notin ToSet(s) => IsInjective(Append(s, e))
<1> DEFINE r == Append(s, e)
<1>1. Len(s) \in Nat /\ DOMAIN s = 1..Len(s)
  BY LenProperties
<1>2. /\ r \in Seq(S) /\ Len(r) = Len(s) + 1 /\ r[Len(s) + 1] = e
      /\ \A k \in 1..Len(s) : r[k] = s[k]
  BY AppendProperties
<1>3. DOMAIN r = 1..(Len(s) + 1)
  BY <1>2, LenProperties
<1> HIDE DEF r
<1>4. r # <<>>
  BY <1>1, <1>2, EmptySeq
<1>5. ToSet(r) = ToSet(s) \cup {e}
  BY <1>1, <1>2, <1>3 DEF ToSet
<1>6. IsInjective(s) /\ e \notin ToSet(s) => IsInjective(r)
  BY <1>1, <1>2, <1>3 DEF IsInjective, ToSet
<1> QED  BY <1>2, <1>4, <1>5, <1>6 DEF r

LEMMA LastIsElement ==
    ASSUME NEW S, NEW s \in Seq(S)
    PROVE  /\ s # <<>> => Last(s) \in ToSet(s)
           /\ s = <<>> <=> ToSet(s) = {}
<1>1. Len(s) \in Nat /\ DOMAIN s = 1..Len(s)
  BY LenProperties
<1>2. s = <<>> <=> Len(s) = 0
  BY EmptySeq
<1>3. s # <<>> => Len(s) \in DOMAIN s
  BY <1>1, <1>2
<1>4. s = <<>> => DOMAIN s = {}
  BY <1>1, <1>2
<1> QED  BY <1>3, <1>4 DEF Last, ToSet

-----------------------------------------------------------------------------
(* The inductive invariant                                                  *)

\* A tab that was never opened is not in the bar; one whose session is being started
\* is there, or was closed before its session was known.
Progress ==
    \A t \in Tabs :
        /\ open[t] = "idle" => t \notin Opened
        /\ open[t] = "starting" => t \in Opened \cup abandoned
        /\ t \in sessionId => open[t] \notin {"idle", "starting"}
        /\ open[t] = "exploring" => t \in SftpTabs

TabInv == TypeOK /\ ActiveIsOpen /\ LiveIsReachable /\ Progress

LEMMA TabInvInitially == Init => TabInv
<1> SUFFICES ASSUME Init PROVE TabInv
  OBVIOUS
<1>1. tabs = <<>> /\ <<>> \in Seq(Tabs) /\ Opened = {} /\ IsInjective(tabs)
  <2>1. tabs = <<>> /\ <<>> \in Seq(Tabs) /\ DOMAIN <<>> = {}
    BY EmptySeq, LenProperties DEF Init
  <2> QED  BY <2>1 DEF Opened, ToSet, IsInjective
<1>2. TypeOK
  BY <1>1, ClicksAssumption DEF Init, TypeOK
<1>3. ActiveIsOpen /\ LiveIsReachable /\ Progress
  BY <1>1 DEF Init, ActiveIsOpen, LiveIsReachable, Progress
<1> QED  BY <1>2, <1>3 DEF TabInv

\* What closing leaves of the tab bar.
Left(closed, rest) ==
    /\ closed \subseteq Opened
    /\ rest \in Seq(Tabs) /\ IsInjective(rest)
    /\ ToSet(rest) = Opened \ closed

LEMMA ClosingLeaves ==
    ASSUME TypeOK, CloseAll \/ \E i \in DOMAIN tabs : CloseTab(i) \/ CloseOthers(i)
    PROVE  \E closed, rest : CloseTabs(closed, rest) /\ Left(closed, rest)
<1>1. /\ tabs \in Seq(Tabs) /\ IsInjective(tabs) /\ Opened = ToSet(tabs)
      /\ \A i \in DOMAIN tabs : tabs[i] \in Tabs /\ tabs[i] \in Opened
  BY ElementOfSeq, LenProperties DEF TypeOK, Opened, ToSet
<1>2. ASSUME NEW i \in DOMAIN tabs, CloseTab(i)
      PROVE  \E closed, rest : CloseTabs(closed, rest) /\ Left(closed, rest)
  <2>1. RemoveAt(tabs, i) \in Seq(Tabs)
    BY <1>1, RemovedAt
  <2>2. /\ ToSet(tabs) \ {tabs[i]} \subseteq ToSet(RemoveAt(tabs, i))
        /\ ToSet(RemoveAt(tabs, i)) \subseteq ToSet(tabs)
        /\ IsInjective(RemoveAt(tabs, i)) /\ tabs[i] \notin ToSet(RemoveAt(tabs, i))
    BY <1>1, RemovedElements
  <2>3. Left({tabs[i]}, RemoveAt(tabs, i))
    BY <1>1, <2>1, <2>2 DEF Left
  <2> QED  BY <1>2, <2>3 DEF CloseTab
<1>3. ASSUME NEW i \in DOMAIN tabs, CloseOthers(i)
      PROVE  \E closed, rest : CloseTabs(closed, rest) /\ Left(closed, rest)
  <2>1. <<tabs[i]>> \in Seq(Tabs) /\ DOMAIN <<tabs[i]>> = {1} /\ <<tabs[i]>>[1] = tabs[i]
    BY <1>1
  <2>2. ToSet(<<tabs[i]>>) = {tabs[i]} /\ IsInjective(<<tabs[i]>>)
    BY <2>1 DEF ToSet, IsInjective
  <2>3. Left(Opened \ {tabs[i]}, <<tabs[i]>>)
    BY <1>1, <2>1, <2>2 DEF Left
  <2> QED  BY <1>3, <2>3 DEF CloseOthers
<1>4. CASE CloseAll
  <2>1. <<>> \in Seq(Tabs) /\ DOMAIN <<>> = {}
    BY EmptySeq, LenProperties
  <2>2. Left(Opened, <<>>)
    BY <2>1 DEF Left, ToSet, IsInjective
  <2> QED  BY <1>4, <2>2 DEF CloseAll
<1> QED  BY <1>2, <1>3, <1>4

LEMMA CloseKeepsInv ==
    ASSUME TabInv, NEW closed, NEW rest, CloseTabs(closed, rest), Left(closed, rest)
    PROVE  TabInv'
<1> USE DEF TabInv, backendVars, clickVars
<1>1. /\ tabs' = rest /\ Opened' = Opened \ closed /\ closed \subseteq Tabs
      /\ closed \subseteq Opened
  <2>1. tabs' = rest /\ ToSet(rest) = Opened \ closed /\ closed \subseteq Opened
    BY DEF CloseTabs, Left
  <2>2. Opened \subseteq Tabs
    BY ElementOfSeq, LenProperties DEF TypeOK, Opened, ToSet
  <2> QED  BY <2>1, <2>2 DEF Opened
<1>2. TypeOK'
  <2>1. activeTabId' \in Tabs \cup {None}
    <3>1. rest # <<>> => Last(rest) \in ToSet(rest)
      BY LastIsElement DEF Left
    <3>2. ToSet(rest) \subseteq Tabs
      BY ElementOfSeq, LenProperties DEF Left, ToSet
    <3> QED  BY <3>1, <3>2 DEF CloseTabs, TypeOK
  <2>2. calls' \subseteq Calls
    BY <1>1, ClicksAssumption DEF CloseTabs, CloseCalls, Calls, TypeOK
  <2>3. sessionId' \subseteq Opened' /\ abandoned' \subseteq Tabs
    BY <1>1 DEF CloseTabs, TypeOK
  <2> QED  BY <1>1, <2>1, <2>2, <2>3 DEF CloseTabs, Left, TypeOK
<1>3. ActiveIsOpen'
  <2>1. /\ rest # <<>> => Last(rest) \in ToSet(rest)
        /\ rest = <<>> <=> ToSet(rest) = {}
        /\ tabs = <<>> <=> Opened = {}
    BY LastIsElement DEF Left, Opened, TypeOK
  <2>2. activeTabId \in Opened
    BY <1>1, <2>1 DEF ActiveIsOpen, CloseTabs
  <2>3. activeTabId' = IF activeTabId \notin closed THEN activeTabId
                       ELSE IF rest = <<>> THEN None ELSE Last(rest)
    BY DEF CloseTabs
  <2>4. ToSet(rest) = Opened'
    BY <1>1 DEF Opened
  <2>5. CASE activeTabId \notin closed
    BY <1>1, <2>1, <2>2, <2>3, <2>4, <2>5 DEF ActiveIsOpen
  <2>6. CASE activeTabId \in closed
    BY <1>1, <2>1, <2>3, <2>4, <2>6 DEF ActiveIsOpen
  <2> QED  BY <2>5, <2>6
<1>4. LiveIsReachable'
  BY <1>1 DEF LiveIsReachable, CloseTabs, CloseCalls
<1>5. Progress'
  <2>1. \A t \in closed : t \in abandoned' \/ t \in sessionId
    BY DEF CloseTabs
  <2>2. \A t \in sessionId : t \in Tabs /\ open[t] # "starting"
    BY ElementOfSeq, LenProperties DEF Progress, TypeOK, Opened, ToSet
  <2> QED  BY <1>1, <2>1, <2>2 DEF Progress, CloseTabs
<1> QED  BY <1>2, <1>3, <1>4, <1>5

LEMMA OpenKeepsInv ==
    ASSUME TabInv, NEW t \in Tabs, OpenTab(t)
    PROVE  TabInv'
<1> USE DEF TabInv, backendVars, clickVars
<1>1. tabs' = Append(tabs, t) /\ t \notin Opened /\ activeTabId' = t
  BY DEF OpenTab, Progress
<1>2. tabs' \in Seq(Tabs) /\ tabs' # <<>> /\ Opened' = Opened \cup {t} /\ IsInjective(tabs')
  BY <1>1, AppendedElements DEF TypeOK, Opened
<1>3. TypeOK'
  BY <1>1, <1>2 DEF OpenTab, TypeOK
<1>4. ActiveIsOpen'
  BY <1>1, <1>2 DEF ActiveIsOpen
<1>5. LiveIsReachable'
  BY <1>2 DEF OpenTab, LiveIsReachable
<1>6. Progress'
  <2>1. t \notin sessionId
    BY <1>1 DEF TypeOK
  <2>2. open' = [open EXCEPT ![t] = "starting"] /\ UNCHANGED <<sessionId, abandoned>>
    BY DEF OpenTab
  <2> QED  BY <1>2, <2>1, <2>2 DEF Progress, TypeOK
<1> QED  BY <1>3, <1>4, <1>5, <1>6

LEMMA ClickKeepsInv ==
    ASSUME TabInv, NEW t \in Tabs, SetActiveTab(t)
    PROVE  TabInv'
<1> USE DEF TabInv, backendVars, clickVars
<1>1. tabs' = tabs /\ Opened' = Opened /\ t \in Opened /\ activeTabId' = t
  BY DEF SetActiveTab, Opened
<1>2. clicks' \in 0..MaxClicks /\ sessionId \subseteq Tabs
  BY ClicksAssumption, ElementOfSeq, LenProperties DEF SetActiveTab, TypeOK, Opened, ToSet
<1>3. calls \subseteq calls' /\ calls' \subseteq Calls
  BY <1>2 DEF SetActiveTab, VisibilityCalls, Calls, TypeOK
<1>7. meant' \in [Tabs -> {"shown", "hidden", "unsure"}]
  BY DEF SetActiveTab, Meant, TypeOK
<1>4. TypeOK'
  BY <1>1, <1>2, <1>3, <1>7 DEF SetActiveTab, TypeOK
<1>5. ActiveIsOpen'
  <2>1. tabs # <<>>
    BY <1>1, LastIsElement DEF TypeOK, Opened
  <2> QED  BY <1>1, <2>1 DEF ActiveIsOpen
<1>6. LiveIsReachable' /\ Progress'
  BY <1>1, <1>3 DEF SetActiveTab, LiveIsReachable, Progress
<1> QED  BY <1>4, <1>5, <1>6

LEMMA MoveKeepsInv ==
    ASSUME TabInv, NEW i \in DOMAIN tabs, NEW j \in DOMAIN tabs, MoveTab(i, j)
    PROVE  TabInv'
<1> USE DEF TabInv, backendVars, clickVars
<1> DEFINE r == RemoveAt(tabs, i)
<1>1. /\ tabs \in Seq(Tabs) /\ IsInjective(tabs) /\ DOMAIN tabs = 1..Len(tabs) /\ Len(tabs) \in Nat
      /\ tabs[i] \in Tabs
  BY ElementOfSeq, LenProperties DEF TypeOK
<1>2. r \in Seq(Tabs) /\ Len(r) = Len(tabs) - 1
  BY <1>1, RemovedAt
<1>3. /\ ToSet(tabs) \ {tabs[i]} \subseteq ToSet(r) /\ ToSet(r) \subseteq ToSet(tabs)
      /\ IsInjective(r) /\ tabs[i] \notin ToSet(r)
  BY <1>1, RemovedElements
<1>4. tabs' = InsertAt(r, j, tabs[i])
  BY DEF MoveTab
<1> HIDE DEF r
<1>5. j \in 1..(Len(r) + 1)
  BY <1>1, <1>2
<1>6. tabs' \in Seq(Tabs) /\ Len(tabs') = Len(r) + 1
  BY <1>1, <1>2, <1>4, <1>5, InsertedAt
<1>7. ToSet(tabs') = ToSet(r) \cup {tabs[i]} /\ IsInjective(tabs')
  BY <1>1, <1>2, <1>3, <1>4, <1>5, InsertedElements
<1>8. tabs[i] \in ToSet(tabs)
  BY DEF ToSet
<1>9. Opened' = Opened
  BY <1>3, <1>7, <1>8 DEF Opened
<1>10. TypeOK'
  BY <1>6, <1>7, <1>9 DEF MoveTab, TypeOK
<1>11. ActiveIsOpen'
  <2>1. tabs # <<>> /\ tabs' # <<>>
    BY <1>6, <1>7, <1>8, <1>1, LastIsElement
  <2> QED  BY <1>9, <2>1 DEF ActiveIsOpen, MoveTab
<1>12. LiveIsReachable' /\ Progress'
  BY <1>9 DEF MoveTab, LiveIsReachable, Progress
<1> QED  BY <1>10, <1>11, <1>12

\* Steps that leave the tab bar and the tab in front alone.
LEMMA BehindTheTabs ==
    ASSUME TabInv, UNCHANGED <<tabs, activeTabId>>
    PROVE  Opened' = Opened /\ ActiveIsOpen'
BY DEF TabInv, ActiveIsOpen, Opened

LEMMA AwaitKeepsInv ==
    ASSUME TabInv, NEW t \in Tabs,
           StartSucceeds(t) \/ StartFails(t) \/ SetSessionId(t) \/ ExplorerOpens(t)
           \/ ExplorerFails(t) \/ FinishOpen(t)
    PROVE  TabInv'
<1> USE DEF TabInv, backendVars, storeVars, clickVars
<1>1. Opened' = Opened /\ ActiveIsOpen'
  BY BehindTheTabs DEF StartSucceeds, StartFails, SetSessionId, ExplorerOpens, ExplorerFails, FinishOpen
<1>2. CASE StartSucceeds(t)
  <2>1. TypeOK'
    BY <1>1, <1>2 DEF StartSucceeds, TypeOK
  <2>2. LiveIsReachable'
    BY <1>1, <1>2 DEF StartSucceeds, LiveIsReachable, Progress, TypeOK
  <2>3. Progress'
    BY <1>1, <1>2 DEF StartSucceeds, Progress, TypeOK
  <2> QED  BY <1>1, <2>1, <2>2, <2>3
<1>3. CASE SetSessionId(t)
  <2>1. TypeOK'
    BY <1>1, <1>3 DEF SetSessionId, TypeOK
  <2>2. LiveIsReachable' /\ Progress'
    BY <1>1, <1>3 DEF SetSessionId, LiveIsReachable, Progress, TypeOK
  <2> QED  BY <1>1, <2>1, <2>2
<1>4. CASE ExplorerOpens(t)
  <2>1. t \in SftpTabs
    BY <1>4 DEF ExplorerOpens, Progress
  <2>2. TypeOK'
    BY <1>1, <1>4, <2>1 DEF ExplorerOpens, TypeOK
  <2>3. LiveIsReachable' /\ Progress'
    BY <1>1, <1>4 DEF ExplorerOpens, LiveIsReachable, Progress, TypeOK
  <2> QED  BY <1>1, <2>2, <2>3
<1>5. CASE StartFails(t) \/ ExplorerFails(t) \/ FinishOpen(t)
  <2>1. /\ UNCHANGED <<storeVars, backendVars>>
        /\ open[t] # "idle" /\ \E p \in {"failed", "ready", "error"} : open' = [open EXCEPT ![t] = p]
    BY <1>5 DEF StartFails, ExplorerFails, FinishOpen
  <2>2. TypeOK'
    BY <1>1, <2>1 DEF TypeOK
  <2>3. LiveIsReachable' /\ Progress'
    BY <1>1, <2>1 DEF LiveIsReachable, Progress, TypeOK
  <2> QED  BY <1>1, <2>2, <2>3
<1> QED  BY <1>2, <1>3, <1>4, <1>5

LEMMA BackendKeepsInv ==
    ASSUME TabInv, (\E c \in Calls : Call(c)) \/ (\E t \in Tabs : SessionEnds(t))
    PROVE  TabInv'
<1> USE DEF TabInv, storeVars, clickVars
<1>1. Opened' = Opened /\ ActiveIsOpen'
  BY BehindTheTabs DEF Call, RunVisibility, RunClose, SessionEnds
<1>2. Progress'
  BY <1>1 DEF Progress, Call, RunVisibility, RunClose, SessionEnds
<1>3. ASSUME NEW c \in Calls, RunVisibility(c) PROVE TypeOK' /\ LiveIsReachable'
  <2>1. c[2] \in Tabs /\ c[1] # "close" /\ (c[1] = "show") \in BOOLEAN
    BY <1>3 DEF Calls, RunVisibility
  <2>2. visible' \in [Tabs -> BOOLEAN]
    BY <1>3, <2>1 DEF RunVisibility, TypeOK
  <2>3. TypeOK'
    BY <1>1, <1>3, <2>2 DEF RunVisibility, TypeOK
  <2>4. \A t \in Tabs : <<"close", t, 0>> \in calls => <<"close", t, 0>> \in calls'
    BY <1>3, <2>1 DEF RunVisibility
  <2>5. LiveIsReachable'
    BY <1>1, <1>3, <2>4 DEF RunVisibility, LiveIsReachable
  <2> QED  BY <2>3, <2>5
<1>4. ASSUME NEW c \in Calls, RunClose(c) PROVE TypeOK' /\ LiveIsReachable'
  <2>1. c[2] \in Tabs
    BY DEF Calls
  <2>2. TypeOK'
    BY <1>1, <1>4, <2>1 DEF RunClose, TypeOK
  <2>3. ASSUME NEW t \in Tabs, session'[t] = "live"
        PROVE  /\ session[t] = "live"
               /\ <<"close", t, 0>> \in calls => <<"close", t, 0>> \in calls'
    <3>1. t # c[2] /\ session[t] = "live"
      BY <1>4, <2>1, <2>3 DEF RunClose, TypeOK
    <3> QED  BY <1>4, <3>1 DEF RunClose
  <2>4. LiveIsReachable'
    BY <1>1, <1>4, <2>3 DEF RunClose, LiveIsReachable
  <2> QED  BY <2>2, <2>4
<1>5. ASSUME NEW t \in Tabs, SessionEnds(t) PROVE TypeOK' /\ LiveIsReachable'
  BY <1>1, <1>5 DEF SessionEnds, TypeOK, LiveIsReachable
<1> QED  BY <1>1, <1>2, <1>3, <1>4, <1>5 DEF Call

LEMMA StepKeepsInv == TabInv /\ [Next]_vars => TabInv'
<1> SUFFICES ASSUME TabInv, [Next]_vars PROVE TabInv'
  OBVIOUS
<1>1. CASE UNCHANGED vars
  BY <1>1 DEF vars, storeVars, backendVars, clickVars, TabInv, TypeOK, ActiveIsOpen, LiveIsReachable, Progress, Opened
<1>2. ASSUME NEW t \in Tabs, Continue(t) PROVE TabInv'
  BY <1>2, AwaitKeepsInv DEF Continue
<1>3. CASE CloseAll \/ \E i \in DOMAIN tabs : CloseTab(i) \/ CloseOthers(i)
  BY <1>3, ClosingLeaves, CloseKeepsInv DEF TabInv
<1> QED
  BY <1>1, <1>2, <1>3, OpenKeepsInv, ClickKeepsInv, MoveKeepsInv, AwaitKeepsInv, BackendKeepsInv
     DEF Next

-----------------------------------------------------------------------------
(* Visibility                                                               *)

Visibility == {"show", "hide"}

\* The visibility calls under way for a session say what the clicks mean, unless that is
\* unsure; and calls are only made for sessions that were started.
ClicksInv ==
    /\ \A t \in Tabs :
        /\ t \in sessionId \/ open[t] = "started" => session[t] # "none"
        /\ open[t] \in {"idle", "starting"} => session[t] = "none"
        /\ session[t] = "none" => visible[t] /\ meant[t] = "shown"
    /\ \A c \in calls :
        /\ session[c[2]] # "none"
        /\ c[1] \in Visibility =>
              /\ meant[c[2]] = "shown" => c[1] = "show"
              /\ meant[c[2]] = "hidden" => c[1] = "hide"
    /\ ClicksDecide

LEMMA ClicksInitially == Init => ClicksInv
BY DEF Init, ClicksInv, ClicksDecide, Opened

\* Steps that make no visibility call, run none, and neither start nor end a session.
LEMMA ClicksUntouched ==
    ASSUME TypeOK, ClicksInv, UNCHANGED <<meant, visible, session>>,
           calls \subseteq calls',
           \A c \in calls' \ calls : c[1] \notin Visibility /\ session[c[2]] # "none",
           \A t \in Tabs :
               /\ t \in sessionId' \/ open'[t] = "started" => session[t] # "none"
               /\ open'[t] \in {"idle", "starting"} => session[t] = "none"
    PROVE  ClicksInv'
<1>1. \A t \in Tabs : Pending(t)' <=> Pending(t)
  BY DEF Pending, Visibility
<1>2. ClicksDecide'
  BY <1>1 DEF ClicksInv, ClicksDecide
<1> QED
  BY <1>2 DEF ClicksInv

LEMMA CallsOfTabs ==
    ASSUME TypeOK, NEW c \in calls
    PROVE  c[1] \in {"show", "hide", "close"} /\ c[2] \in Tabs
BY DEF TypeOK, Calls

LEMMA ClickKeepsClicks ==
    ASSUME TypeOK, ClicksInv, NEW new \in Tabs, SetActiveTab(new)
    PROVE  ClicksInv'
<1>1. /\ UNCHANGED <<sessionId, open, session, visible>>
      /\ calls' = calls \cup VisibilityCalls(activeTabId, new)
      /\ \A u \in Tabs : meant'[u] = Meant(activeTabId, new, u)
  BY DEF SetActiveTab, backendVars
<1>2. sessionId \subseteq Tabs
  BY ElementOfSeq, LenProperties DEF TypeOK, Opened, ToSet
<1>3. ASSUME NEW c \in VisibilityCalls(activeTabId, new)
      PROVE  /\ c[2] \in {activeTabId, new} \cap sessionId
             /\ \/ c[1] = "show" /\ c[2] = new
                \/ c[1] = "hide" /\ c[2] = activeTabId
  BY DEF VisibilityCalls
<1>4. ASSUME NEW u \in {activeTabId, new} \cap sessionId PROVE Pending(u)'
  <2>1. \E op \in {"show", "hide"} : <<op, u, clicks'>> \in VisibilityCalls(activeTabId, new)
    BY DEF VisibilityCalls
  <2>2. PICK op \in {"show", "hide"} : <<op, u, clicks'>> \in calls'
    BY <1>1, <2>1
  <2>3. <<op, u, clicks'>>[1] = op /\ <<op, u, clicks'>>[2] = u
    OBVIOUS
  <2> QED
    BY <2>2, <2>3 DEF Pending
<1>5. ASSUME NEW u \in Tabs, u \notin {activeTabId, new} \cap sessionId
      PROVE  meant'[u] = meant[u] /\ (Pending(u)' <=> Pending(u))
  BY <1>1, <1>3, <1>5 DEF Meant, Pending
<1>6. ASSUME NEW t \in Tabs
      PROVE  /\ t \in sessionId' \/ open'[t] = "started" => session'[t] # "none"
             /\ open'[t] \in {"idle", "starting"} => session'[t] = "none"
             /\ session'[t] = "none" => visible'[t] /\ meant'[t] = "shown"
  BY <1>1, <1>5 DEF ClicksInv
<1>7. ASSUME NEW c \in calls'
      PROVE  /\ session'[c[2]] # "none"
             /\ c[1] \in Visibility =>
                   /\ meant'[c[2]] = "shown" => c[1] = "show"
                   /\ meant'[c[2]] = "hidden" => c[1] = "hide"
  <2>1. CASE c \in calls /\ c[2] \notin {activeTabId, new} \cap sessionId
    BY <1>1, <1>5, <2>1, CallsOfTabs DEF ClicksInv
  <2>2. CASE c \in calls /\ c[2] \in {activeTabId, new} \cap sessionId
    <3>1. c[1] \in Visibility => Pending(c[2])
      BY <2>2 DEF Pending, Visibility
    <3>2. c[1] \in Visibility => meant'[c[2]] = "unsure"
      BY <1>1, <1>2, <2>2, <3>1 DEF Meant
    <3> QED
      BY <1>1, <2>2, <3>2 DEF ClicksInv
  <2>3. CASE c \in VisibilityCalls(activeTabId, new)
    <3>1. session'[c[2]] # "none" /\ c[2] \in Tabs
      BY <1>1, <1>2, <1>3, <2>3 DEF ClicksInv
    <3>2. meant'[c[2]] \in {"unsure", IF c[2] = new THEN "shown" ELSE "hidden"}
      BY <1>1, <1>3, <2>3, <3>1 DEF Meant
    <3>3. activeTabId = new => meant'[c[2]] = "unsure"
      BY <1>1, <1>3, <2>3, <3>1 DEF Meant
    <3> QED
      BY <1>3, <2>3, <3>1, <3>2, <3>3
  <2> QED
    BY <1>1, <2>1, <2>2, <2>3
<1>8. ClicksDecide'
  BY <1>1, <1>4, <1>5 DEF ClicksInv, ClicksDecide
<1> QED
  BY <1>6, <1>7, <1>8 DEF ClicksInv

LEMMA CallsKeepClicks ==
    ASSUME TypeOK, ClicksInv, NEW c \in Calls, Call(c)
    PROVE  ClicksInv'
<1>0. c \in calls /\ c[2] \in Tabs /\ UNCHANGED <<meant, sessionId, open>>
      /\ calls' = calls \ {c}
  BY CallsOfTabs DEF Call, RunVisibility, RunClose, clickVars
<1>1. CASE RunVisibility(c)
  <2>1. session' = session /\ c[1] \in Visibility
    BY <1>1 DEF RunVisibility, Visibility
  <2>2. ASSUME NEW t \in Tabs, t # c[2]
        PROVE  visible'[t] = visible[t] /\ (Pending(t)' <=> Pending(t))
    BY <1>0, <1>1, <2>2 DEF RunVisibility, Pending, TypeOK
  <2>3. session[c[2]] = "live" => visible'[c[2]] = (c[1] = "show")
    BY <1>0, <1>1 DEF RunVisibility, TypeOK
  <2>4. session[c[2]] # "none"
    BY <1>0 DEF ClicksInv
  <2>5. /\ meant[c[2]] = "shown" => c[1] = "show"
        /\ meant[c[2]] = "hidden" => c[1] = "hide"
    BY <1>0, <2>1 DEF ClicksInv
  <2>6. ClicksDecide'
    BY <1>0, <2>1, <2>2, <2>3, <2>5 DEF ClicksInv, ClicksDecide
  <2>7. ASSUME NEW t \in Tabs, session[t] = "none" PROVE visible'[t]
    BY <2>2, <2>4, <2>7 DEF ClicksInv
  <2> QED
    BY <1>0, <2>1, <2>6, <2>7 DEF ClicksInv
<1>2. CASE RunClose(c)
  <2>1. visible' = visible /\ session' = [session EXCEPT ![c[2]] = "gone"] /\ c[1] = "close"
    BY <1>2 DEF RunClose
  <2>2. session[c[2]] # "none"
    BY <1>0 DEF ClicksInv
  <2>3. \A t \in Tabs : /\ session'[t] = "live" => session[t] = "live"
                        /\ session'[t] = "none" <=> session[t] = "none"
    BY <2>1, <2>2 DEF TypeOK
  <2>4. \A t \in Tabs : Pending(t)' <=> Pending(t)
    BY <1>0, <2>1 DEF Pending
  <2>5. ClicksDecide'
    BY <1>0, <2>1, <2>3, <2>4 DEF ClicksInv, ClicksDecide
  <2>6. \A d \in calls' : d \in calls /\ d[2] \in Tabs
    BY <1>0, CallsOfTabs
  <2> QED
    BY <1>0, <2>1, <2>3, <2>5, <2>6 DEF ClicksInv
<1> QED
  BY <1>1, <1>2 DEF Call

LEMMA ClicksStep ==
    ASSUME TabInv, ClicksInv, [Next]_vars
    PROVE  ClicksInv'
<1> USE DEF backendVars, storeVars, clickVars
<1>0. TypeOK
  BY DEF TabInv
<1>1. CASE UNCHANGED vars
  BY <1>0, <1>1, ClicksUntouched DEF vars, ClicksInv
<1>2. ASSUME NEW t \in Tabs, OpenTab(t) PROVE ClicksInv'
  BY <1>0, <1>2, ClicksUntouched DEF OpenTab, ClicksInv, TypeOK
<1>3. ASSUME NEW t \in Tabs, StartSucceeds(t) PROVE ClicksInv'
  <2>1. /\ open[t] = "starting" /\ open' = [open EXCEPT ![t] = "started"]
        /\ session' = [session EXCEPT ![t] = "live"]
        /\ UNCHANGED <<sessionId, meant, calls, visible>>
    BY <1>3 DEF StartSucceeds
  <2>2. session[t] = "none" /\ visible[t] /\ meant[t] = "shown"
    BY <2>1 DEF ClicksInv
  <2>3. \A c \in calls : c[2] \in Tabs /\ c[2] # t
    BY <1>0, <2>2, CallsOfTabs DEF ClicksInv
  <2>4. \A u \in Tabs : Pending(u)' <=> Pending(u)
    BY <2>1 DEF Pending
  <2>5. ClicksDecide'
    BY <1>0, <2>1, <2>2, <2>4 DEF ClicksInv, ClicksDecide, TypeOK
  <2> QED
    BY <1>0, <2>1, <2>2, <2>3, <2>5 DEF ClicksInv, TypeOK
<1>4. ASSUME NEW t \in Tabs,
             StartFails(t) \/ SetSessionId(t) \/ ExplorerOpens(t) \/ ExplorerFails(t) \/ FinishOpen(t)
      PROVE  ClicksInv'
  <2>1. /\ UNCHANGED <<meant, visible, session, calls>>
        /\ open[t] \notin {"idle"}
        /\ \E p \in {"failed", "exploring", "ready", "explored", "error"} :
               open' = [open EXCEPT ![t] = p]
        /\ sessionId' \subseteq sessionId \cup {u \in {t} : open[t] = "started"}
    BY <1>4 DEF StartFails, SetSessionId, ExplorerOpens, ExplorerFails, FinishOpen
  <2> QED
    BY <1>0, <2>1, ClicksUntouched DEF ClicksInv, TypeOK
<1>5. CASE CloseAll \/ \E i \in DOMAIN tabs : CloseTab(i) \/ CloseOthers(i)
  <2>1. PICK closed, rest : CloseTabs(closed, rest)
    BY <1>5 DEF CloseAll, CloseTab, CloseOthers
  <2>2. /\ UNCHANGED <<meant, visible, session, open>>
        /\ sessionId' \subseteq sessionId
        /\ calls' = calls \cup CloseCalls(closed)
    BY <2>1 DEF CloseTabs
  <2>3. sessionId \subseteq Tabs
    BY <1>0, ElementOfSeq, LenProperties DEF TypeOK, Opened, ToSet
  <2>4. \A c \in CloseCalls(closed) : c[1] \notin Visibility /\ session[c[2]] # "none"
    BY <2>3 DEF CloseCalls, Visibility, ClicksInv
  <2> QED
    BY <1>0, <2>2, <2>4, ClicksUntouched DEF ClicksInv
<1>6. ASSUME NEW i \in DOMAIN tabs, NEW j \in DOMAIN tabs, MoveTab(i, j) PROVE ClicksInv'
  BY <1>0, <1>6, ClicksUntouched DEF MoveTab, ClicksInv
<1>7. ASSUME NEW t \in Tabs, SessionEnds(t) PROVE ClicksInv'
  <2>1. /\ session[t] = "live" /\ session' = [session EXCEPT ![t] = "gone"]
        /\ UNCHANGED <<sessionId, meant, calls, open, visible>>
    BY <1>7 DEF SessionEnds
  <2>2. \A u \in Tabs : /\ session'[u] = "live" => session[u] = "live"
                        /\ session'[u] = "none" <=> session[u] = "none"
    BY <1>0, <2>1 DEF TypeOK
  <2>3. \A u \in Tabs : Pending(u)' <=> Pending(u)
    BY <2>1 DEF Pending
  <2>4. ClicksDecide'
    BY <2>1, <2>2, <2>3 DEF ClicksInv, ClicksDecide
  <2>5. \A c \in calls : c[2] \in Tabs
    BY <1>0, CallsOfTabs
  <2> QED
    BY <2>1, <2>2, <2>4, <2>5 DEF ClicksInv
<1> QED
  BY <1>0, <1>1, <1>2, <1>3, <1>4, <1>5, <1>6, <1>7, ClickKeepsClicks, CallsKeepClicks
     DEF Next, Continue

-----------------------------------------------------------------------------
\* The tabs are distinct, and only a tab in the bar knows a session.
THEOREM TabTypes == Spec => []TypeOK
<1>1. TabInv => TypeOK
  BY DEF TabInv
<1> QED  BY <1>1, TabInvInitially, StepKeepsInv, PTL DEF Spec

\* There is a tab in front whenever there are tabs, through every closing, opening,
\* moving and click (terminalStore.ts, TabBar.tsx).
THEOREM ATabIsInFront == Spec => []ActiveIsOpen
<1>1. TabInv => ActiveIsOpen
  BY DEF TabInv
<1> QED  BY <1>1, TabInvInitially, StepKeepsInv, PTL DEF Spec

\* SetTabVisibility calls are not awaited and run in any order; still, with no other call
\* for its session under way a click on another tab is what decides whether the output of
\* a session is shown or buffered, for any number of tabs and clicks.
THEOREM ClicksAreObeyed == Spec => []ClicksDecide
<1>1. ClicksInv => ClicksDecide
  BY DEF ClicksInv
<1>2. Init => TabInv /\ ClicksInv
  BY TabInvInitially, ClicksInitially
<1>3. TabInv /\ ClicksInv /\ [Next]_vars => TabInv' /\ ClicksInv'
  BY StepKeepsInv, ClicksStep
<1> QED  BY <1>1, <1>2, <1>3, PTL DEF Spec

\* No session of a tab that knew it is left behind: a live one has its tab, or a call
\* on the way that closes it.
THEOREM LiveSessionsAreReachable == Spec => []LiveIsReachable
<1>1. TabInv => LiveIsReachable
  BY DEF TabInv
<1> QED  BY <1>1, TabInvInitially, StepKeepsInv, PTL DEF Spec
=============================================================================
