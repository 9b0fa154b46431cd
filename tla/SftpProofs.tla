------------------------------- MODULE SftpProofs -------------------------------
(***************************************************************************)
(* What the explorers of backend and frontend agree on, and what the       *)
(* status of a transfer is worth, for any number of explorers, transfers,  *)
(* directories and listings in flight.                                     *)
(***************************************************************************)
EXTENDS SftpStore, SequenceTheorems, TLAPS

(***************************************************************************)
(* The backend's explorers.                                                *)
(***************************************************************************)
BackendOK ==
    /\ session \in {"up", "gone"}
    /\ opening \in SUBSET Explorers
    /\ explorers \in SUBSET Explorers
    /\ client \in [Explorers -> {"none", "open", "closed"}]
    /\ closeCalls \in SUBSET Explorers
    /\ closing \in SUBSET Explorers
    /\ shutdown \in BOOLEAN

BackendInv == BackendOK /\ ClientsAccountedFor

\* Which steps touch the backend's explorers.
LEMMA BackendCases ==
    ASSUME [Next]_vars
    PROVE  \/ \E e \in Explorers :
                  \/ NewClient(e) \/ Register(e) \/ Unregister(e) \/ CloseClient(e)
                  \/ CloseExplorer(e)
           \/ Shutdown \/ SessionEnds
           \/ UNCHANGED serviceVars
<1>1. CASE BackendStep
  BY <1>1 DEF BackendStep, Backend, Copy, LookUp, CreateFile, CopyChunk, Finish, Fail
<1>2. CASE \E e \in Explorers : CallOpen(e)
  BY <1>2 DEF CallOpen
<1>3. CASE Components
  BY <1>3 DEF Components, NavigateTo, GoUp, GoBack, Change, Changed, FindExplorer,
              ReadDir, Answer
<1>4. CASE StoreCallers
  BY <1>4 DEF StoreCallers, OpenExplorer, ShowPanel, Transfer, Progress, Settle
<1>5. CASE UNCHANGED vars
  BY <1>5 DEF vars
<1> QED
  BY <1>1, <1>2, <1>3, <1>4, <1>5 DEF Next

LEMMA BackendStepInv == BackendInv /\ [Next]_vars => BackendInv'
<1> SUFFICES ASSUME BackendInv, [Next]_vars PROVE BackendInv'
  OBVIOUS
<1> USE DEF BackendInv, BackendOK, ClientsAccountedFor
<1>1. ASSUME NEW e \in Explorers, NewClient(e) PROVE BackendInv'
  BY <1>1 DEF NewClient
<1>2. ASSUME NEW e \in Explorers, Register(e) PROVE BackendInv'
  BY <1>2 DEF Register
<1>3. ASSUME NEW e \in Explorers, Unregister(e) PROVE BackendInv'
  BY <1>3 DEF Unregister
<1>4. ASSUME NEW e \in Explorers, CloseClient(e) PROVE BackendInv'
  BY <1>4 DEF CloseClient
<1>5. ASSUME NEW e \in Explorers, CloseExplorer(e) PROVE BackendInv'
  BY <1>5 DEF CloseExplorer
<1>6. CASE Shutdown
  BY <1>6 DEF Shutdown
<1>7. CASE SessionEnds
  BY <1>7 DEF SessionEnds
<1>8. CASE UNCHANGED serviceVars
  BY <1>8 DEF serviceVars
<1> QED
  BY <1>1, <1>2, <1>3, <1>4, <1>5, <1>6, <1>7, <1>8, BackendCases

(***************************************************************************)
(* The transfers.  A file is whole when its copy loop ended well, is not   *)
(* there before it was created, and is never reported beyond its length.   *)
(***************************************************************************)
TransferOK ==
    /\ transfer \in [Transfers -> {"idle", "called", "opening", "copying", "ok", "error"}]
    /\ of \in [Transfers -> Explorers \cup {None}]
    /\ isUpload \in [Transfers -> BOOLEAN]
    /\ written \in [Transfers -> 0..Size \cup {None}]
    /\ status \in [Transfers -> Statuses \cup {None}]
    /\ awaiting \in [Transfers -> BOOLEAN]
    /\ told \in [Transfers -> 0..Size]

FilesOK ==
    \A t \in Transfers :
        /\ transfer[t] # "idle" => of[t] \in Explorers
        /\ transfer[t] \in {"idle", "called", "opening"} => written[t] = None
        /\ transfer[t] = "copying" => written[t] \in 0..Size
        /\ transfer[t] = "ok" => written[t] = Size
        /\ written[t] # None => written[t] \in 0..Size /\ told[t] <= written[t]
        /\ written[t] = None => told[t] = 0
        /\ transfer[t] = "idle" => status[t] = None /\ ~awaiting[t]
        /\ transfer[t] \in {"called", "opening", "copying"} => awaiting[t]

TransferInv == TransferOK /\ FilesOK /\ SettledIsOutcome /\ EarlyDoneHasTwin

LEMMA TransferCases ==
    ASSUME [Next]_vars
    PROVE  \/ \E t \in Transfers :
                  \/ /\ LookUp(t) \/ CreateFile(t) \/ CopyChunk(t) \/ Finish(t) \/ Fail(t)
                     /\ UNCHANGED transferVars
                  \/ Progress(t) \/ Settle(t)
           \/ \E t \in Transfers, e \in Explorers, up \in BOOLEAN : Transfer(t, e, up)
           \/ \E e \in Explorers : CloseExplorer(e)
           \/ UNCHANGED <<copyVars, transferVars>>
<1>1. CASE BackendStep
  <2>1. CASE \/ \E e \in Explorers : Register(e) \/ Unregister(e) \/ CloseClient(e)
             \/ Shutdown \/ SessionEnds
    BY <1>1, <2>1 DEF BackendStep, storeVars, Register, Unregister, CloseClient, Shutdown,
                      SessionEnds
  <2> QED
    BY <1>1, <2>1 DEF BackendStep, Backend, Copy, storeVars
<1>2. CASE \E e \in Explorers : CallOpen(e)
  BY <1>2 DEF CallOpen, NewClient, storeVars
<1>3. CASE Components
  BY <1>3 DEF Components, NavigateTo, GoUp, GoBack, Change, Changed, FindExplorer,
              ReadDir, Answer, storeVars
<1>4. CASE StoreCallers
  BY <1>4 DEF StoreCallers, OpenExplorer, ShowPanel, storeVars
<1>5. CASE UNCHANGED vars
  BY <1>5 DEF vars
<1> QED
  BY <1>1, <1>2, <1>3, <1>4, <1>5 DEF Next

LEMMA TransferStepInv == TransferInv /\ [Next]_vars => TransferInv'
<1> SUFFICES ASSUME TransferInv, [Next]_vars PROVE TransferInv'
  OBVIOUS
<1> USE SizeAssumption, NoneAssumption, NoRecordAssumption
    DEF SizeAssumption, NoneAssumption, NoRecordAssumption, Statuses
<1>0. TransferOK /\ FilesOK /\ SettledIsOutcome /\ EarlyDoneHasTwin
  BY DEF TransferInv
<1>1. ASSUME NEW t \in Transfers, LookUp(t), UNCHANGED transferVars PROVE TransferInv'
  <2>1. TransferOK'
    BY <1>0, <1>1 DEF TransferOK, LookUp, transferVars
  <2>2. FilesOK'
    BY <1>0, <1>1 DEF TransferOK, FilesOK, LookUp, transferVars
  <2>3. SettledIsOutcome'
    BY <1>0, <1>1 DEF TransferOK, FilesOK, SettledIsOutcome, LookUp, transferVars
  <2>4. EarlyDoneHasTwin'
    BY <1>0, <1>1 DEF TransferOK, FilesOK, EarlyDoneHasTwin, LookUp, transferVars
  <2> QED
    BY <2>1, <2>2, <2>3, <2>4 DEF TransferInv
<1>2. ASSUME NEW t \in Transfers, CreateFile(t), UNCHANGED transferVars PROVE TransferInv'
  <2>1. TransferOK'
    BY <1>0, <1>2 DEF TransferOK, CreateFile, transferVars
  <2>2. FilesOK'
    BY <1>0, <1>2 DEF TransferOK, FilesOK, CreateFile, transferVars
  <2>3. SettledIsOutcome'
    BY <1>0, <1>2 DEF TransferOK, FilesOK, SettledIsOutcome, CreateFile, transferVars
  <2>4. EarlyDoneHasTwin'
    BY <1>0, <1>2 DEF TransferOK, FilesOK, EarlyDoneHasTwin, CreateFile, transferVars
  <2> QED
    BY <2>1, <2>2, <2>3, <2>4 DEF TransferInv
<1>3. ASSUME NEW t \in Transfers, CopyChunk(t), UNCHANGED transferVars PROVE TransferInv'
  <2>1. TransferOK'
    <3>1. written[t] + 1 \in 0..Size
      BY <1>0, <1>3 DEF FilesOK, CopyChunk
    <3> QED
      BY <1>0, <1>3, <3>1 DEF TransferOK, CopyChunk, transferVars
  <2>2. FilesOK'
    BY <1>0, <1>3 DEF TransferOK, FilesOK, CopyChunk, transferVars
  <2>3. SettledIsOutcome'
    BY <1>0, <1>3 DEF TransferOK, FilesOK, SettledIsOutcome, CopyChunk, transferVars
  <2>4. EarlyDoneHasTwin'
    BY <1>0, <1>3 DEF TransferOK, FilesOK, EarlyDoneHasTwin, CopyChunk, transferVars
  <2> QED
    BY <2>1, <2>2, <2>3, <2>4 DEF TransferInv
<1>4. ASSUME NEW t \in Transfers, Finish(t), UNCHANGED transferVars PROVE TransferInv'
  <2>1. TransferOK'
    BY <1>0, <1>4 DEF TransferOK, Finish, transferVars
  <2>2. FilesOK'
    BY <1>0, <1>4 DEF TransferOK, FilesOK, Finish, transferVars
  <2>3. SettledIsOutcome'
    BY <1>0, <1>4 DEF TransferOK, FilesOK, SettledIsOutcome, Finish, transferVars
  <2>4. EarlyDoneHasTwin'
    BY <1>0, <1>4 DEF TransferOK, FilesOK, EarlyDoneHasTwin, Finish, transferVars
  <2> QED
    BY <2>1, <2>2, <2>3, <2>4 DEF TransferInv
<1>5. ASSUME NEW t \in Transfers, Fail(t), UNCHANGED transferVars PROVE TransferInv'
  <2>1. TransferOK'
    BY <1>0, <1>5 DEF TransferOK, Fail, transferVars
  <2>2. FilesOK'
    BY <1>0, <1>5 DEF TransferOK, FilesOK, Fail, transferVars
  <2>3. SettledIsOutcome'
    BY <1>0, <1>5 DEF TransferOK, FilesOK, SettledIsOutcome, Fail, transferVars
  <2>4. EarlyDoneHasTwin'
    BY <1>0, <1>5 DEF TransferOK, FilesOK, EarlyDoneHasTwin, Fail, transferVars
  <2> QED
    BY <2>1, <2>2, <2>3, <2>4 DEF TransferInv
<1>6. ASSUME NEW t \in Transfers, Progress(t) PROVE TransferInv'
  <2>1. TransferOK'
    BY <1>0, <1>6 DEF TransferOK, Progress, copyVars
  <2>2. FilesOK'
    BY <1>0, <1>6 DEF TransferOK, FilesOK, Progress, copyVars
  <2>3. SettledIsOutcome'
    BY <1>0, <1>6 DEF TransferOK, FilesOK, SettledIsOutcome, Progress, copyVars
  <2>4. EarlyDoneHasTwin'
    BY <1>0, <1>6 DEF TransferOK, FilesOK, EarlyDoneHasTwin, Progress, copyVars
  <2> QED
    BY <2>1, <2>2, <2>3, <2>4 DEF TransferInv
<1>7. ASSUME NEW t \in Transfers, Settle(t) PROVE TransferInv'
  <2>1. TransferOK'
    BY <1>0, <1>7 DEF TransferOK, Settle, copyVars
  <2>2. FilesOK'
    BY <1>0, <1>7 DEF TransferOK, FilesOK, Settle, copyVars
  <2>3. SettledIsOutcome'
    BY <1>0, <1>7 DEF TransferOK, FilesOK, SettledIsOutcome, Settle, copyVars
  <2>4. EarlyDoneHasTwin'
    BY <1>0, <1>7 DEF TransferOK, FilesOK, EarlyDoneHasTwin, Settle, copyVars
  <2> QED
    BY <2>1, <2>2, <2>3, <2>4 DEF TransferInv
<1>8. ASSUME NEW t \in Transfers, NEW e \in Explorers, NEW up \in BOOLEAN, Transfer(t, e, up) PROVE TransferInv'
  <2>1. TransferOK'
    BY <1>0, <1>8 DEF TransferOK, Transfer
  <2>2. FilesOK'
    BY <1>0, <1>8 DEF TransferOK, FilesOK, Transfer
  <2>3. SettledIsOutcome'
    BY <1>0, <1>8 DEF TransferOK, FilesOK, SettledIsOutcome, Transfer
  <2>4. EarlyDoneHasTwin'
    BY <1>0, <1>8 DEF TransferOK, FilesOK, EarlyDoneHasTwin, Transfer
  <2> QED
    BY <2>1, <2>2, <2>3, <2>4 DEF TransferInv
<1>9. ASSUME NEW e \in Explorers, CloseExplorer(e) PROVE TransferInv'
  <2>1. TransferOK'
    BY <1>0, <1>9 DEF TransferOK, CloseExplorer, copyVars
  <2>2. FilesOK'
    BY <1>0, <1>9 DEF TransferOK, FilesOK, CloseExplorer, copyVars
  <2>3. SettledIsOutcome'
    BY <1>0, <1>9 DEF TransferOK, FilesOK, SettledIsOutcome, CloseExplorer, copyVars
  <2>4. EarlyDoneHasTwin'
    BY <1>0, <1>9 DEF TransferOK, FilesOK, EarlyDoneHasTwin, CloseExplorer, copyVars
  <2> QED
    BY <2>1, <2>2, <2>3, <2>4 DEF TransferInv
<1>10. ASSUME UNCHANGED <<copyVars, transferVars>> PROVE TransferInv'
  <2>1. TransferOK'
    BY <1>0, <1>10 DEF TransferOK, copyVars, transferVars
  <2>2. FilesOK'
    BY <1>0, <1>10 DEF TransferOK, FilesOK, copyVars, transferVars
  <2>3. SettledIsOutcome'
    BY <1>0, <1>10 DEF TransferOK, FilesOK, SettledIsOutcome, copyVars, transferVars
  <2>4. EarlyDoneHasTwin'
    BY <1>0, <1>10 DEF TransferOK, FilesOK, EarlyDoneHasTwin, copyVars, transferVars
  <2> QED
    BY <2>1, <2>2, <2>3, <2>4 DEF TransferInv
<1> QED
  BY <1>1, <1>2, <1>3, <1>4, <1>5, <1>6, <1>7, <1>8, <1>9, <1>10, TransferCases

(***************************************************************************)
(* What the panels show.  A record without a path, or none, means that the *)
(* explorer was closed from its panel, which stays: it is never opened     *)
(* again, and a listing of no path is one of such an explorer.             *)
(***************************************************************************)
ViewOK ==
    /\ views \in [Explorers -> View \cup {None}]
    /\ panels \in SUBSET Explorers
    /\ requests \in [Requests -> Listing \cup {None}]

Gone(e) == views[e] = None \/ views[e].path = None

GoneForGood ==
    /\ \A e \in Explorers : views[e] # None /\ views[e].path = None => e \in panels
    /\ \A r \in Requests : requests[r] # None =>
           /\ Gone(requests[r].explorer) => requests[r].explorer \in panels
           /\ requests[r].path = None => Gone(requests[r].explorer)

ViewInv == ViewOK /\ GoneForGood /\ ShowsItsPath /\ SpinnerHasRequest

LEMMA ViewCases ==
    ASSUME [Next]_vars
    PROVE  \/ \E e \in Explorers :
                  \/ \E path \in Paths : NavigateTo(e, path)
                  \/ GoUp(e) \/ GoBack(e) \/ CloseExplorer(e) \/ Changed(e)
                  \/ OpenExplorer(e) \/ ShowPanel(e)
           \/ \E r \in Requests : FindExplorer(r) \/ ReadDir(r) \/ Answer(r)
           \/ \E t \in Transfers : Settle(t)
           \/ UNCHANGED <<viewVars, panels>>
<1>1. CASE BackendStep
  BY <1>1 DEF BackendStep, storeVars
<1>2. CASE \E e \in Explorers : CallOpen(e)
  BY <1>2 DEF CallOpen, storeVars
<1>3. CASE Components
  BY <1>3 DEF Components, Change
<1>4. CASE StoreCallers
  BY <1>4 DEF StoreCallers, Transfer, Progress
<1>5. CASE UNCHANGED vars
  BY <1>5 DEF vars
<1> QED
  BY <1>1, <1>2, <1>3, <1>4, <1>5 DEF Next

\* Setting out for a path, from a record that shows what the old one did.
LEMMA NavigateKeeps ==
    ASSUME ViewInv, NEW e \in Explorers, NEW v \in View, NEW path \in Paths \cup {None},
           path = None => v.path = None,
           v.path = None => e \in panels,
           v.path # None =>
               /\ Gone(e) => e \notin panels
               /\ v.entries = v.path \/ (v.entries = None /\ v.path = Root)
               /\ v.history # <<>> /\ v.history[1] = Root,
           Navigate(e, v, path),
           UNCHANGED panels
    PROVE  ViewInv'
<1> USE NoRecordAssumption, PathsAssumption DEF NoRecordAssumption, PathsAssumption
<1>0. ViewOK /\ GoneForGood /\ ShowsItsPath /\ SpinnerHasRequest
  BY DEF ViewInv
<1>1. PICK r \in Requests :
          /\ requests[r] = None
          /\ requests' = [requests EXCEPT ![r] =
                             [explorer |-> e, path |-> path, answer |-> "none"]]
          /\ views' = [views EXCEPT ![e] = [v EXCEPT !.loading = TRUE]]
  BY DEF Navigate
<1> DEFINE w == [v EXCEPT !.loading = TRUE]
           q == [explorer |-> e, path |-> path, answer |-> "none"]
<1>2. /\ w \in View /\ w # None /\ w.path = v.path /\ w.entries = v.entries
      /\ w.history = v.history /\ w.loading = TRUE
  BY DEF View
<1>3. q \in Listing /\ q # None /\ q.explorer = e /\ q.path = path
  BY DEF Listing
<1>4. /\ views'[e] = w /\ \A d \in Explorers \ {e} : views'[d] = views[d]
      /\ requests'[r] = q /\ \A p \in Requests \ {r} : requests'[p] = requests[p]
  BY <1>0, <1>1 DEF ViewOK
<1>5. ViewOK'
  BY <1>0, <1>1, <1>2, <1>3 DEF ViewOK
<1> HIDE DEF w, q
<1>6. GoneForGood'
  BY <1>0, <1>2, <1>3, <1>4 DEF ViewOK, GoneForGood, Gone, Listing
<1>7. ShowsItsPath'
  BY <1>0, <1>2, <1>4 DEF ShowsItsPath
<1>8. SpinnerHasRequest'
  BY <1>0, <1>1, <1>3, <1>4 DEF SpinnerHasRequest
<1> QED
  BY <1>5, <1>6, <1>7, <1>8 DEF ViewInv

\* A record that is there to navigate from.
LEMMA Recorded ==
    ASSUME ViewInv, NEW e \in Explorers, views[e] # None
    PROVE  /\ views[e] \in View
           /\ views[e].path = None => e \in panels
           /\ views[e].path # None =>
                  /\ ~Gone(e)
                  /\ views[e].entries = views[e].path
                         \/ (views[e].entries = None /\ views[e].path = Root)
                  /\ views[e].history # <<>> /\ views[e].history[1] = Root
BY DEF ViewInv, ViewOK, GoneForGood, ShowsItsPath, Gone

\* A path more or less at the end of a history leaves its beginning.
LEMMA LongerHistory ==
    ASSUME NEW h \in Seq(Paths), h # <<>>, NEW p \in Paths
    PROVE  /\ Append(h, p) \in Seq(Paths) /\ Append(h, p) # <<>>
           /\ Append(h, p)[1] = h[1]
<1>1. 1 \in 1..Len(h)
  BY LenProperties, EmptySeq
<1> QED
  BY <1>1, AppendProperties

LEMMA ShorterHistory ==
    ASSUME NEW h \in Seq(Paths), Len(h) > 1
    PROVE  /\ Front(h) \in Seq(Paths) /\ Front(h) # <<>>
           /\ Front(h)[1] = h[1] /\ Last(Front(h)) \in Paths
<1> DEFINE n == Len(h) - 1
           f == SubSeq(h, 1, n)
<1>1. n \in Nat /\ n >= 1 /\ Len(h) \in Nat /\ 1 \in Int /\ n \in Int
  BY LenProperties
<1>2. \A i \in 1..n : h[i] \in Paths
  BY <1>1, ElementOfSeq
<1> HIDE DEF n
<1>3. f \in Seq(Paths) /\ Len(f) = n /\ \A i \in 1..n : f[i] = h[1 + i - 1]
  BY <1>1, <1>2, SubSeqProperties
<1>4. f # <<>> /\ f[1] = h[1]
  BY <1>1, <1>3, EmptySeq
<1> HIDE DEF f
<1>5. f[Len(f)] \in Paths
  BY <1>1, <1>3, ElementOfSeq
<1> QED
  BY <1>3, <1>4, <1>5 DEF Front, Last, f, n

LEMMA ViewStepInv == TransferInv /\ ViewInv /\ [Next]_vars => ViewInv'
<1> SUFFICES ASSUME TransferInv, ViewInv, [Next]_vars PROVE ViewInv'
  OBVIOUS
<1> USE NoRecordAssumption, PathsAssumption DEF NoRecordAssumption, PathsAssumption
<1>0. ViewOK /\ GoneForGood /\ ShowsItsPath /\ SpinnerHasRequest
  BY DEF ViewInv
<1>1. ASSUME NEW e \in Explorers, NEW path \in Paths, NavigateTo(e, path) PROVE ViewInv'
  <2>1. views[e] # None /\ Navigate(e, views[e], path) /\ UNCHANGED panels
    BY <1>1 DEF NavigateTo, OnScreen, storeVars
  <2> QED
    BY <2>1, Recorded, NavigateKeeps
<1>2. ASSUME NEW e \in Explorers, GoUp(e) PROVE ViewInv'
  <2>1. /\ views[e] # None /\ views[e].path # None
        /\ Navigate(e, views[e], Parent[views[e].path]) /\ UNCHANGED panels
    BY <1>2 DEF GoUp, OnScreen, Crashed, storeVars
  <2>2. Parent[views[e].path] \in Paths
    BY <2>1, Recorded DEF View
  <2> QED
    BY <2>1, <2>2, Recorded, NavigateKeeps
<1>3. ASSUME NEW e \in Explorers, GoBack(e) PROVE ViewInv'
  <2> DEFINE h == Front(views[e].history)
             v == [views[e] EXCEPT !.history = h]
  <2>1. /\ views[e] # None /\ views[e].path # None /\ Len(views[e].history) > 1
        /\ Navigate(e, v, Last(h)) /\ UNCHANGED panels
    BY <1>3 DEF GoBack, OnScreen, Crashed, storeVars
  <2>2. views[e] \in View /\ views[e].history \in Seq(Paths)
    BY <2>1, Recorded DEF View
  <2>3. h \in Seq(Paths) /\ h # <<>> /\ h[1] = views[e].history[1] /\ Last(h) \in Paths
    BY <2>1, <2>2, ShorterHistory
  <2> HIDE DEF h
  <2>4. v \in View /\ v.path = views[e].path /\ v.entries = views[e].entries /\ v.history = h
    BY <2>2, <2>3 DEF View
  <2> HIDE DEF v
  <2> QED
    BY <2>1, <2>3, <2>4, Recorded, NavigateKeeps
<1>4. ASSUME NEW e \in Explorers, CloseExplorer(e) PROVE ViewInv'
  BY <1>0, <1>4 DEF CloseExplorer, ViewInv, ViewOK, GoneForGood, Gone, ShowsItsPath,
                    SpinnerHasRequest, Listing
<1>5. ASSUME NEW e \in Explorers, Changed(e) PROVE ViewInv'
  <2>1. CASE views[e] # None /\ Navigate(e, views[e], views[e].path)
    BY <1>5, <2>1, Recorded, NavigateKeeps DEF Changed, View
  <2>2. CASE UNCHANGED viewVars
    BY <1>0, <1>5, <2>2 DEF Changed, viewVars, ViewInv, ViewOK, GoneForGood, Gone,
                            ShowsItsPath, SpinnerHasRequest
  <2> QED
    BY <1>5, <2>1, <2>2 DEF Changed
<1>6. ASSUME NEW e \in Explorers, OpenExplorer(e) PROVE ViewInv'
  <2>1. /\ e \notin panels /\ views[e] = None
        /\ Navigate(e, NewView, Root) /\ UNCHANGED panels
    BY <1>6 DEF OpenExplorer, storeVars
  <2>2. /\ NewView \in View /\ NewView.path = Root /\ NewView.entries = None
        /\ NewView.history # <<>> /\ NewView.history[1] = Root
    BY DEF NewView, View
  <2> QED
    BY <2>1, <2>2, NavigateKeeps
<1>7. ASSUME NEW e \in Explorers, ShowPanel(e) PROVE ViewInv'
  BY <1>0, <1>7 DEF ShowPanel, viewVars, ViewInv, ViewOK, GoneForGood, Gone, ShowsItsPath,
                    SpinnerHasRequest
<1>8. ASSUME NEW r \in Requests, FindExplorer(r) \/ ReadDir(r) PROVE ViewInv'
  <2>1. PICK a \in {"found", "listing", "error"} :
            /\ requests[r] # None
            /\ requests' = [requests EXCEPT ![r].answer = a]
            /\ UNCHANGED <<views, panels>>
    BY <1>8 DEF FindExplorer, ReadDir, storeVars
  <2> DEFINE q == [requests[r] EXCEPT !.answer = a]
  <2>2. requests[r] \in Listing /\ requests'[r] = q
        /\ \A p \in Requests \ {r} : requests'[p] = requests[p]
    BY <1>0, <2>1 DEF ViewOK
  <2>3. /\ q \in Listing /\ q # None
        /\ q.explorer = requests[r].explorer /\ q.path = requests[r].path
    BY <2>2 DEF Listing
  <2>4. ViewOK'
    BY <1>0, <2>1, <2>2, <2>3 DEF ViewOK
  <2> HIDE DEF q
  <2>5. GoneForGood'
    BY <1>0, <2>1, <2>2, <2>3 DEF GoneForGood, Gone
  <2>6. ShowsItsPath' /\ SpinnerHasRequest'
    BY <1>0, <2>1, <2>2, <2>3 DEF ShowsItsPath, SpinnerHasRequest
  <2> QED
    BY <2>4, <2>5, <2>6 DEF ViewInv
<1>9. ASSUME NEW r \in Requests, Answer(r) PROVE ViewInv'
  <2> DEFINE e == requests[r].explorer
             p == requests[r].path
             w == views'[e]
  <2>1. /\ requests[r] # None /\ requests[r] \in Listing
        /\ requests' = [requests EXCEPT ![r] = None] /\ UNCHANGED panels
    BY <1>0, <1>9 DEF Answer, ViewOK, storeVars
  <2>2. e \in Explorers /\ (p # None => p \in Paths)
    BY <2>1 DEF Listing
  <2>3. CASE Gone(e)
    <3>1. views' = [views EXCEPT ![e] = HollowView]
      BY <1>9, <2>3 DEF Answer, Gone
    <3>2. /\ HollowView \in View /\ HollowView.path = None
          /\ HollowView.loading = FALSE /\ e \in panels
      BY <1>0, <2>1, <2>3 DEF HollowView, View, GoneForGood
    <3> HIDE DEF e
    <3>3. ViewOK' /\ GoneForGood'
      BY <1>0, <2>1, <2>2, <3>1, <3>2 DEF ViewOK, GoneForGood, Gone, Listing
    <3>4. ShowsItsPath'
      BY <1>0, <2>2, <3>1, <3>2 DEF ViewOK, ShowsItsPath
    <3>5. SpinnerHasRequest'
      <4>1. \A d \in Explorers \ {e} : views'[d] = views[d]
        BY <1>0, <3>1 DEF ViewOK
      <4>2. ~views'[e].loading
        BY <1>0, <2>2, <3>1, <3>2 DEF ViewOK
      <4>3. \A q \in Requests : requests[q] # None /\ requests[q].explorer # e
                => requests'[q] = requests[q]
        BY <1>0, <2>1 DEF ViewOK, e
      <4> QED
        BY <1>0, <4>1, <4>2, <4>3 DEF SpinnerHasRequest
    <3> QED
      BY <3>3, <3>4, <3>5 DEF ViewInv
  <2>4. CASE ~Gone(e)
    <3> DEFINE v == IF requests[r].answer = "listing"
                    THEN [views[e] EXCEPT !.path = p, !.entries = p, !.loading = FALSE,
                                          !.history = Append(@, p)]
                    ELSE [views[e] EXCEPT !.loading = FALSE]
    <3>1. views' = [views EXCEPT ![e] = v]
      BY <1>9, <2>4 DEF Answer, Gone
    <3>2. views[e] \in View /\ views[e].path # None /\ p # None /\ p \in Paths
      BY <1>0, <2>1, <2>2, <2>4 DEF ViewOK, GoneForGood, Gone
    <3>3. /\ v \in View /\ v # None /\ v.path # None /\ v.loading = FALSE
          /\ v.entries = v.path \/ (v.entries = None /\ v.path = Root)
          /\ v.history # <<>> /\ v.history[1] = Root
      <4>1. /\ views[e].history \in Seq(Paths) /\ views[e].history # <<>>
            /\ views[e].history[1] = Root
            /\ views[e].entries = views[e].path
                   \/ (views[e].entries = None /\ views[e].path = Root)
        BY <1>0, <2>2, <3>2 DEF View, ShowsItsPath
      <4>2. CASE requests[r].answer = "listing"
        <5>1. /\ Append(views[e].history, p) \in Seq(Paths)
              /\ Append(views[e].history, p) # <<>>
              /\ Append(views[e].history, p)[1] = Root
          BY <3>2, <4>1, LongerHistory
        <5>2. v = [path |-> p, entries |-> p, loading |-> FALSE,
                   history |-> Append(views[e].history, p)]
          BY <3>2, <4>2 DEF View
        <5> HIDE DEF v
        <5>3. /\ v \in View /\ v.path = p /\ v.entries = p /\ v.loading = FALSE
              /\ v.history = Append(views[e].history, p)
          BY <3>2, <5>1, <5>2 DEF View
        <5> QED
          BY <3>2, <5>1, <5>3
      <4>3. CASE requests[r].answer # "listing"
        BY <3>2, <4>1, <4>3 DEF View
      <4> QED
        BY <4>2, <4>3
    <3> HIDE DEF e, v
    <3>4. ViewOK' /\ GoneForGood'
      <4>1. ViewOK'
        BY <1>0, <2>1, <2>2, <3>1, <3>3 DEF ViewOK
      <4>2. views'[e] = v /\ \A d \in Explorers \ {e} : views'[d] = views[d]
        BY <1>0, <2>2, <3>1 DEF ViewOK
      <4>3. \A q \in Requests : requests'[q] # None =>
                requests'[q] = requests[q] /\ requests[q].explorer \in Explorers
        BY <1>0, <2>1 DEF ViewOK, Listing
      <4>4. GoneForGood'
        BY <1>0, <2>1, <2>2, <2>4, <3>3, <4>2, <4>3 DEF GoneForGood, Gone
      <4> QED
        BY <4>1, <4>4
    <3>5. ShowsItsPath'
      BY <1>0, <2>2, <3>1, <3>3 DEF ViewOK, ShowsItsPath
    <3>6. SpinnerHasRequest'
      <4>1. \A d \in Explorers \ {e} : views'[d] = views[d]
        BY <1>0, <3>1 DEF ViewOK
      <4>2. ~views'[e].loading
        BY <1>0, <2>2, <3>1, <3>3 DEF ViewOK
      <4>3. \A q \in Requests : requests[q] # None /\ requests[q].explorer # e
                => requests'[q] = requests[q]
        BY <1>0, <2>1 DEF ViewOK, e
      <4> QED
        BY <1>0, <4>1, <4>2, <4>3 DEF SpinnerHasRequest
    <3> QED
      BY <3>4, <3>5, <3>6 DEF ViewInv
  <2> QED
    BY <2>3, <2>4
<1>10. ASSUME NEW t \in Transfers, Settle(t) PROVE ViewInv'
  <2>1. UNCHANGED panels
    BY <1>10 DEF Settle
  <2>2. CASE UNCHANGED viewVars
    BY <1>0, <2>1, <2>2 DEF viewVars, ViewInv, ViewOK, GoneForGood, Gone, ShowsItsPath,
                            SpinnerHasRequest
  <2>3. CASE views[of[t]] # None /\ Navigate(of[t], views[of[t]], views[of[t]].path)
    <3>1. of[t] \in Explorers
      BY <1>10 DEF Settle, TransferInv, FilesOK
    <3> QED
      BY <2>1, <2>3, <3>1, Recorded, NavigateKeeps DEF View
  <2> QED
    BY <1>10, <2>2, <2>3 DEF Settle
<1>11. CASE UNCHANGED <<viewVars, panels>>
  BY <1>0, <1>11 DEF viewVars, ViewInv, ViewOK, GoneForGood, Gone, ShowsItsPath,
                     SpinnerHasRequest
<1> QED
  BY <1>1, <1>2, <1>3, <1>4, <1>5, <1>6, <1>7, <1>8, <1>9, <1>10, <1>11, ViewCases

(***************************************************************************)
(* The theorems.                                                           *)
(***************************************************************************)
ChangesOK == changes \in [Explorers -> 0..MaxChanges]

IInv == BackendInv /\ TransferInv /\ ViewInv /\ ChangesOK

LEMMA ChangesStep == ChangesOK /\ [Next]_vars => ChangesOK'
<1> SUFFICES ASSUME ChangesOK, [Next]_vars PROVE ChangesOK'
  OBVIOUS
<1> USE BoundsAssumption DEF BoundsAssumption, ChangesOK
<1>1. ASSUME NEW e \in Explorers, Change(e) PROVE ChangesOK'
  BY <1>1 DEF Change
<1>2. ASSUME NEW e \in Explorers, Changed(e) PROVE ChangesOK'
  BY <1>2 DEF Changed
<1>3. \/ \E e \in Explorers : Change(e) \/ Changed(e)
      \/ UNCHANGED changes
  <2>1. CASE BackendStep \/ \E e \in Explorers : CallOpen(e)
    BY <2>1 DEF BackendStep, CallOpen, storeVars
  <2>2. CASE Components
    BY <2>2 DEF Components, NavigateTo, GoUp, GoBack, CloseExplorer, FindExplorer, ReadDir,
                Answer, storeVars
  <2>3. CASE StoreCallers
    BY <2>3 DEF StoreCallers, OpenExplorer, ShowPanel, Transfer, Progress, Settle, storeVars
  <2>4. CASE UNCHANGED vars
    BY <2>4 DEF vars
  <2> QED
    BY <2>1, <2>2, <2>3, <2>4 DEF Next
<1> QED
  BY <1>1, <1>2, <1>3

LEMMA InitIInv == Init => IInv
<1> SUFFICES ASSUME Init PROVE IInv
  OBVIOUS
<1> USE SizeAssumption, NoneAssumption, BoundsAssumption
    DEF SizeAssumption, NoneAssumption, BoundsAssumption
<1>1. BackendInv
  BY DEF Init, ServiceInit, BackendInv, BackendOK, ClientsAccountedFor
<1>2. TransferInv
  BY NoRecordAssumption
     DEF NoRecordAssumption, Statuses, Init, ServiceInit, TransferInv, TransferOK, FilesOK,
         SettledIsOutcome, EarlyDoneHasTwin
<1>3. ViewInv
  BY DEF Init, ViewInv, ViewOK, GoneForGood, ShowsItsPath, SpinnerHasRequest
<1>4. ChangesOK
  BY DEF Init, ChangesOK
<1> QED
  BY <1>1, <1>2, <1>3, <1>4 DEF IInv

LEMMA StepIInv == IInv /\ [Next]_vars => IInv'
BY BackendStepInv, TransferStepInv, ViewStepInv, ChangesStep DEF IInv

\* The inductive invariant.
THEOREM Invariance == Spec => []IInv
BY InitIInv, StepIInv, PTL DEF Spec

\* Every variable keeps its type.
THEOREM TypesOfSftp == Spec => []TypeOK
<1>1. IInv => TypeOK
  BY DEF IInv, BackendInv, BackendOK, TransferInv, TransferOK, ViewInv, ViewOK, ChangesOK,
         TypeOK, ServiceTypeOK
<1> QED
  BY <1>1, Invariance, PTL

\* CloseExplorer and CloseAllExplorers close every SFTP client that was opened once, and
\* no call finds a closed one: its id has left the map before.
THEOREM EveryClientAccounted == Spec => []ClientsAccountedFor
<1>1. IInv => ClientsAccountedFor
  BY DEF IInv, BackendInv
<1> QED
  BY <1>1, Invariance, PTL

\* Answers of navigateTo that land late or in another order never show a list under a path
\* it is not the list of.
THEOREM PathAndListAgree == Spec => []ShowsItsPath
<1>1. IInv => ShowsItsPath
  BY DEF IInv, ViewInv
<1> QED
  BY <1>1, Invariance, PTL

\* Whatever closes and fails, the spinner does not turn for nothing.
THEOREM SpinnersHaveRequests == Spec => []SpinnerHasRequest
<1>1. IInv => SpinnerHasRequest
  BY DEF IInv, ViewInv
<1> QED
  BY <1>1, Invariance, PTL

\* What upload and download leave in the record of a transfer is what came of its call.
THEOREM SettledTransfers == Spec => []SettledIsOutcome
<1>1. IInv => SettledIsOutcome
  BY DEF IInv, TransferInv
<1> QED
  BY <1>1, Invariance, PTL

\* Only an event of a like transfer completes one before its time.
THEOREM TwinsOnly == Spec => []EarlyDoneHasTwin
<1>1. IInv => EarlyDoneHasTwin
  BY DEF IInv, TransferInv
<1> QED
  BY <1>1, Invariance, PTL

(***************************************************************************)
(* The refinement of FileTransfers.  A chunk makes no difference to it but *)
(* the last, a progress event none but the one that reports the last.      *)
(***************************************************************************)
FilesSame == UNCHANGED <<of, isUpload, Phase, File, Settled, status>>

LEMMA FilesInit == Init => Files!Init
BY SizeAssumption, NoneAssumption
   DEF SizeAssumption, NoneAssumption, Init, ServiceInit, Files!Init, Phase, File, Settled

\* A call that ends ends for the abstract transfer.
LEMMA CallEnds ==
    ASSUME TransferInv, NEW t \in Transfers, NEW p \in {"ok", "error"},
           transfer[t] \in {"called", "opening", "copying"},
           transfer' = [transfer EXCEPT ![t] = p],
           UNCHANGED <<of, isUpload, written, transferVars>>
    PROVE  /\ Phase[t] = "under way"
           /\ Phase' = [Phase EXCEPT ![t] = p]
           /\ UNCHANGED <<of, isUpload, File, Settled, status>>
<1>1. TransferOK /\ FilesOK
  BY DEF TransferInv
<1>2. awaiting[t]
  BY <1>1 DEF FilesOK
<1>3. Phase[t] = "under way" /\ Phase' = [Phase EXCEPT ![t] = p]
  BY <1>1 DEF TransferOK, Phase
<1>4. UNCHANGED <<File, status>>
  BY DEF File, transferVars
<1>5. Settled' = Settled
  BY <1>1, <1>2 DEF TransferOK, Settled, transferVars
<1> QED
  BY <1>3, <1>4, <1>5

LEMMA CopyImplements ==
    ASSUME TransferInv, NEW t \in Transfers, UNCHANGED transferVars,
           LookUp(t) \/ CreateFile(t) \/ CopyChunk(t) \/ Finish(t) \/ Fail(t)
    PROVE  FilesSame \/ Files!Begin(t) \/ Files!Complete(t) \/ Files!Succeed(t) \/ Files!Fail(t)
<1> USE SizeAssumption, NoneAssumption DEF SizeAssumption, NoneAssumption
<1>0. TransferOK /\ FilesOK
  BY DEF TransferInv
<1>1. CASE LookUp(t) /\ of[t] \in explorers
  <2>1. UNCHANGED <<of, isUpload, File, status>>
    BY <1>1 DEF LookUp, File, transferVars
  <2>2. Phase' = Phase /\ Settled' = Settled
    BY <1>0, <1>1 DEF TransferOK, LookUp, Phase, Settled, transferVars
  <2> QED
    BY <2>1, <2>2 DEF FilesSame
<1>2. CASE (LookUp(t) /\ of[t] \notin explorers) \/ Fail(t)
  <2>1. /\ transfer[t] \in {"called", "opening", "copying"}
        /\ transfer' = [transfer EXCEPT ![t] = "error"]
        /\ UNCHANGED <<of, isUpload, written>>
    BY <1>2 DEF LookUp, Fail
  <2> QED
    BY <2>1, CallEnds DEF Files!Fail
<1>3. CASE Finish(t)
  <2>1. /\ transfer[t] = "copying" /\ written[t] = Size
        /\ transfer' = [transfer EXCEPT ![t] = "ok"]
        /\ UNCHANGED <<of, isUpload, written>>
    BY <1>3 DEF Finish
  <2>2. File[t] = "whole"
    BY <2>1 DEF File
  <2> QED
    BY <2>1, <2>2, CallEnds DEF Files!Succeed
<1>4. CASE CreateFile(t)
  <2>1. written[t] = None /\ written' = [written EXCEPT ![t] = 0]
    BY <1>0, <1>4 DEF FilesOK, CreateFile
  <2>7. 0 # None /\ 0 # Size
    OBVIOUS
  <2>2. File[t] = "absent"
    BY <2>1 DEF File
  <2>4. written \in [Transfers -> 0..Size \cup {None}]
    BY <1>0 DEF TransferOK
  <2>5. ASSUME NEW u \in Transfers
        PROVE  File'[u] = IF u = t THEN "partial" ELSE File[u]
    BY <2>1, <2>4, <2>7 DEF File
  <2>6. File' = [File EXCEPT ![t] = "partial"]
    BY <2>5 DEF File
  <2>3. Phase[t] = "under way" /\ Phase' = Phase /\ Settled' = Settled
    BY <1>0, <1>4 DEF TransferOK, CreateFile, Phase, Settled, transferVars
  <2> QED
    BY <1>4, <2>2, <2>3, <2>6 DEF CreateFile, transferVars, Files!Begin
<1>5. CASE CopyChunk(t)
  <2>1. /\ written[t] \in 0..Size /\ written[t] < Size
        /\ written' = [written EXCEPT ![t] = written[t] + 1]
        /\ transfer[t] = "copying"
    BY <1>0, <1>5 DEF FilesOK, CopyChunk
  <2>2. written[t] # None /\ written[t] + 1 # None /\ written[t] # Size
    BY <2>1
  <2>3. Phase[t] = "under way" /\ UNCHANGED <<of, isUpload, status, Phase, Settled>>
    BY <1>5, <2>1 DEF CopyChunk, Phase, Settled, transferVars
  <2>4. CASE written[t] + 1 = Size
    <3>1. File[t] = "partial" /\ File' = [File EXCEPT ![t] = "whole"]
      BY <1>0, <2>1, <2>2, <2>4 DEF TransferOK, File
    <3> QED
      BY <2>3, <3>1 DEF Files!Complete
  <2>5. CASE written[t] + 1 # Size
    <3>1. File' = File
      BY <1>0, <2>1, <2>2, <2>5 DEF TransferOK, File
    <3> QED
      BY <2>3, <3>1 DEF FilesSame
  <2> QED
    BY <2>4, <2>5
<1> QED
  BY <1>1, <1>2, <1>3, <1>4, <1>5

\* Only an event that reports the whole file changes what is shown.
LEMMA ProgressImplements ==
    ASSUME TransferInv, NEW t \in Transfers, Progress(t)
    PROVE  FilesSame \/ Files!Announce(t)
<1> USE SizeAssumption, NoneAssumption DEF SizeAssumption, NoneAssumption
<1>0. TransferOK /\ FilesOK
  BY DEF TransferInv
<1>1. UNCHANGED <<of, isUpload, Phase, File, Settled>>
  BY DEF Progress, copyVars, Phase, File, Settled
<1>2. written[t] \in 0..Size /\ told[t] \in 0..Size /\ told[t] < written[t]
  BY <1>0 DEF TransferOK, FilesOK, Progress
<1>3. told'[t] = told[t] + 1
  BY <1>0 DEF TransferOK, Progress
<1>4. CASE told'[t] >= Size
  <2>1. written[t] = Size
    BY <1>2, <1>3, <1>4
  <2>2. File[t] = "whole"
    BY <2>1 DEF File
  <2>3. status' = [u \in Transfers |->
            IF status[u] = "in_progress" /\ of[u] = of[t] /\ isUpload[u] = isUpload[t]
            THEN "completed" ELSE status[u]]
    BY <1>4 DEF Progress
  <2> QED
    BY <1>1, <2>2, <2>3 DEF Files!Announce
<1>5. CASE ~(told'[t] >= Size)
  <2>1. status' = status
    BY <1>0, <1>5 DEF TransferOK, Progress
  <2> QED
    BY <1>1, <2>1 DEF FilesSame
<1> QED
  BY <1>4, <1>5

LEMMA SettleImplements ==
    ASSUME TransferInv, NEW t \in Transfers, Settle(t)
    PROVE  Files!Settle(t)
<1>1. TransferOK
  BY DEF TransferInv
<1>2. UNCHANGED <<of, isUpload, Phase, File>>
  BY DEF Settle, copyVars, Phase, File
<1>3. t \notin Settled /\ Settled' = Settled \cup {t}
  BY <1>1 DEF TransferOK, Settle, Settled, copyVars
<1>4. Phase[t] = transfer[t] /\ transfer[t] \in {"ok", "error"}
  BY DEF Settle, Phase
<1>5. status' = [status EXCEPT ![t] =
          IF @ = None THEN None ELSE IF Phase[t] = "ok" THEN "completed" ELSE "failed"]
  BY <1>4 DEF Settle
<1> QED
  BY <1>2, <1>3, <1>4, <1>5 DEF Files!Settle

LEMMA TransferImplements ==
    ASSUME TransferInv, NEW t \in Transfers, NEW e \in Explorers, NEW up \in BOOLEAN,
           Transfer(t, e, up)
    PROVE  Files!Ask(t, e, up)
<1>1. TransferOK
  BY DEF TransferInv
<1>2. Phase[t] = "new" /\ Phase' = [Phase EXCEPT ![t] = "under way"]
  BY <1>1 DEF TransferOK, Transfer, Phase
<1>3. File' = File
  BY DEF Transfer, File
<1>4. Settled' = Settled
  BY <1>1 DEF TransferOK, Transfer, Settled
<1> QED
  BY <1>2, <1>3, <1>4 DEF Transfer, Files!Ask

LEMMA FilesStep == TransferInv /\ [Next]_vars => [Files!Next]_(Files!vars)
<1> SUFFICES ASSUME TransferInv, [Next]_vars PROVE [Files!Next]_(Files!vars)
  OBVIOUS
<1>1. CASE FilesSame
  BY <1>1 DEF FilesSame, Files!vars
<1>2. ASSUME NEW t \in Transfers, UNCHANGED transferVars,
             LookUp(t) \/ CreateFile(t) \/ CopyChunk(t) \/ Finish(t) \/ Fail(t)
      PROVE  [Files!Next]_(Files!vars)
  BY <1>1, <1>2, CopyImplements DEF Files!Next
<1>3. ASSUME NEW t \in Transfers, Progress(t) PROVE [Files!Next]_(Files!vars)
  BY <1>1, <1>3, ProgressImplements DEF Files!Next
<1>4. ASSUME NEW t \in Transfers, Settle(t) PROVE [Files!Next]_(Files!vars)
  BY <1>4, SettleImplements DEF Files!Next
<1>5. ASSUME NEW t \in Transfers, NEW e \in Explorers, NEW up \in BOOLEAN,
             Transfer(t, e, up)
      PROVE  [Files!Next]_(Files!vars)
  BY <1>5, TransferImplements DEF Files!Next
<1>6. ASSUME NEW e \in Explorers, CloseExplorer(e) PROVE [Files!Next]_(Files!vars)
  <2>1. Files!Forget(e)
    BY <1>6 DEF CloseExplorer, copyVars, Phase, File, Settled, Files!Forget
  <2> QED
    BY <2>1 DEF Files!Next
<1>7. CASE UNCHANGED <<copyVars, transferVars>>
  <2>1. FilesSame
    BY <1>7 DEF copyVars, transferVars, FilesSame, Phase, File, Settled
  <2> QED
    BY <1>1, <2>1
<1> QED
  BY <1>2, <1>3, <1>4, <1>5, <1>6, <1>7, TransferCases

\* upload, download, their calls, copy loops and progress events do what FileTransfers
\* says of them, for any number of transfers, explorers and chunks.
THEOREM RefinesTransfers == Spec => ImplementsTransfers
<1>1. IInv => TransferInv
  BY DEF IInv
<1> QED
  BY <1>1, FilesInit, FilesStep, Invariance, PTL DEF Spec, ImplementsTransfers, Files!Spec

(***************************************************************************)
(* The program as it is put together: nobody calls openExplorer, so the    *)
(* store never gets a record, and every operation of a panel needs one.    *)
(***************************************************************************)
NothingShown ==
    /\ \A e \in Explorers : views[e] = None /\ changes[e] = 0
    /\ \A r \in Requests : requests[r] = None

LEMMA AppBackendStep == BackendInv /\ [AppNext]_vars => BackendInv'
<1> SUFFICES ASSUME BackendInv, [AppNext]_vars PROVE BackendInv'
  OBVIOUS
<1>1. CASE [Next]_vars
  BY <1>1, BackendStepInv
<1>2. ASSUME NEW e \in Explorers, OpenTab(e) PROVE BackendInv'
  BY <1>2 DEF OpenTab, serviceVars, BackendInv, BackendOK, ClientsAccountedFor
<1> QED
  BY <1>1, <1>2 DEF AppNext, Next

LEMMA AppShowsNothing == NothingShown /\ [AppNext]_vars => NothingShown'
<1> SUFFICES ASSUME NothingShown, [AppNext]_vars PROVE NothingShown'
  OBVIOUS
<1> USE DEF NothingShown
<1>1. CASE UNCHANGED <<views, requests, changes>>
  BY <1>1
<1>2. ASSUME NEW e \in Explorers, CloseExplorer(e) PROVE NothingShown'
  BY <1>2 DEF CloseExplorer
<1>3. ASSUME NEW e \in Explorers PROVE ~OnScreen(e) /\ ~Changed(e)
  BY DEF OnScreen, Changed
<1>4. ASSUME NEW e \in Explorers
      PROVE  ~GoUp(e) /\ ~GoBack(e) /\ ~Change(e) /\ \A path \in Paths : ~NavigateTo(e, path)
  BY <1>3 DEF GoUp, GoBack, Change, NavigateTo
<1>5. ASSUME NEW r \in Requests PROVE ~FindExplorer(r) /\ ~ReadDir(r) /\ ~Answer(r)
  BY DEF FindExplorer, ReadDir, Answer
<1>6. Components => \E e \in Explorers : CloseExplorer(e)
  BY <1>3, <1>4, <1>5 DEF Components
<1>7. BackendStep \/ (\E e \in Explorers : CallOpen(e) \/ OpenTab(e))
        => UNCHANGED <<views, requests, changes>>
  BY DEF BackendStep, CallOpen, OpenTab, viewVars, storeVars
<1>8. UNCHANGED vars => UNCHANGED <<views, requests, changes>>
  BY DEF vars, viewVars
<1> QED
  BY <1>1, <1>2, <1>6, <1>7, <1>8 DEF AppNext

\* With the tabs as they are no explorer has a record in the store, whatever is opened,
\* closed or answered: the panel of an SFTP tab stays blank for good (openSftpTab in
\* terminalStore.ts makes none; sftpStore.ts and SftpPanel.tsx need one).
THEOREM PanelsStayBlank == AppSpec => [](\A e \in Explorers : views[e] = None)
<1>1. Init => NothingShown
  BY DEF Init, NothingShown
<1>2. NothingShown => \A e \in Explorers : views[e] = None
  BY DEF NothingShown
<1> QED
  BY <1>1, <1>2, AppShowsNothing, PTL DEF AppSpec

\* The tabs as they are still account for every SFTP client of the backend, although
\* nothing is ever shown of it.
THEOREM TabsAccountForClients == AppSpec => []ClientsAccountedFor
<1>1. Init => BackendInv
  BY InitIInv DEF IInv
<1>2. BackendInv => ClientsAccountedFor
  BY DEF BackendInv
<1> QED
  BY <1>1, <1>2, AppBackendStep, PTL DEF AppSpec
=============================================================================
