---------------------- MODULE RecordingDownloadProofs ----------------------
(***************************************************************************)
(* However a download session ends, what kept the camera awake is let go,  *)
(* the closing of the list was tried, and no .part file is left; the        *)
(* recording looked up is the right one, what is saved is whole, and what  *)
(* was saved stays.  For all recordings, listings, scripts and limits.     *)
(***************************************************************************)
EXTENDS RecordingDownload, SequenceTheorems, FiniteSetTheorems, WellFoundedInduction, TLAPS

-----------------------------------------------------------------------------
(* Links and lists.                                                        *)

\* Who keeps the camera awake: the identity of the discovery while the task or an open
\* connection owns its socket, that of a second connection while it is open.
Owned ==
    /\ alive \subseteq {"discovery", "session", "stray", "told"}
    /\ "session" \in alive => conn = "open" /\ lease # "conn"
    /\ "discovery" \in alive => lease = "task" \/ (lease = "conn" /\ conn = "open")
    /\ conn # "none" => lease # "task"

\* Nothing is out of reach while nothing failed.
InReach ==
    failure = "" /\ stage # "idle" =>
        orphan = FALSE /\ ("stray" \in alive => conn = "lost")

\* Where a connection may be open and the task may own a socket.
Stages ==
    /\ conn = "open" => stage \notin {"idle", "release"}
    /\ stage \in {"resolve", "connect"} => conn = "none"
    /\ lease = "task" => stage # "idle"
    /\ sending => conn \in {"open", "lost"}
    /\ handle = "open" => stage \in {"page", "close"}
    /\ stage = "select" => handle \in {"closed", "left"}

SInv == Owned /\ InReach /\ Stages

LEMMA SessionInitially == SessionInit => SInv
BY DEF SessionInit, SInv, Owned, InReach, Stages

\* Steps that leave the links alone.
LEMMA StageStep ==
    ASSUME SInv, UNCHANGED linkVars, stage # "idle",
           stage' \notin {"idle", "resolve", "connect", "release"},
           handle' = "open" => stage' \in {"page", "close"},
           stage' = "select" => handle' \in {"closed", "left"},
           failure' = "" => failure = "" /\ orphan' = orphan
    PROVE  SInv'
<1>1. UNCHANGED <<lease, conn, sending, alive>>
  BY DEF linkVars
<1>2. Owned'
  BY <1>1 DEF SInv, Owned, Stages
<1>3. InReach'
  BY <1>1 DEF SInv, InReach, Stages
<1>4. Stages'
  BY <1>1 DEF SInv, Stages
<1> QED BY <1>2, <1>3, <1>4 DEF SInv

LEMMA FailStep ==
    ASSUME SInv, UNCHANGED linkVars, stage # "idle", NEW s, s # "", Fail(s), UNCHANGED handle
    PROVE  SInv'
BY DEF SInv, Owned, InReach, Stages, linkVars, Fail, Goto

LEMMA WakeUpStep ==
    ASSUME SInv, StartSession \/ Resolve \/ RouteFails \/ Adopt \/ Connect
    PROVE  SInv'
<1>1. CASE StartSession
  BY <1>1 DEF StartSession, SInv, Owned, InReach, Stages, Goto, listVars
<1>2. CASE Resolve
  <2>1. Owned'
    BY <1>2 DEF Resolve, Stray, Goto, Fail, listVars, SInv, Owned, Stages
  <2>2. InReach'
      <3>1. CASE Fail("UID_RESOLVE_ERROR")
      BY <3>1 DEF Fail, InReach
    <3>2. CASE UNCHANGED <<failure, orphan, conn>> /\ alive' = alive \union {"discovery"}
      BY <1>2, <3>2 DEF Resolve, SInv, InReach
    <3> QED BY <1>2, <3>1, <3>2 DEF Resolve
  <2>3. Stages'
    BY <1>2 DEF Resolve, Stray, Goto, Fail, listVars, SInv, Stages
  <2> QED BY <2>1, <2>2, <2>3 DEF SInv
<1>3. CASE RouteFails
  BY <1>3, FailStep DEF RouteFails, listVars
<1>4. CASE Adopt
  <2>1. CASE AdoptionLost
    <3>1. Owned'
      BY <1>4, <2>1 DEF Adopt, AdoptionLost, Stray, Goto, Fail, listVars, SInv, Owned, Stages
    <3>2. InReach'
      BY <1>4, <2>1 DEF Adopt, AdoptionLost, Stray, Goto, Fail, listVars, SInv, InReach, Stages
    <3>3. Stages'
      BY <1>4, <2>1 DEF Adopt, AdoptionLost, Stray, Goto, Fail, listVars, SInv, Stages
    <3> QED BY <3>1, <3>2, <3>3 DEF SInv
  <2>2. CASE ~AdoptionLost
    <3>1. Owned'
      BY <1>4, <2>2 DEF Adopt, Goto, Fail, listVars, SInv, Owned, Stages
    <3>2. InReach'
      BY <1>4, <2>2 DEF Adopt, Goto, Fail, listVars, SInv, InReach, Stages
    <3>3. Stages'
      BY <1>4, <2>2 DEF Adopt, Goto, Fail, listVars, SInv, Stages
    <3> QED BY <3>1, <3>2, <3>3 DEF SInv
  <2> QED BY <2>1, <2>2
<1>5. CASE Connect
  <2>1. CASE ConnectUnfinished
    <3>1. Owned'
      BY <1>5, <2>1 DEF Connect, ConnectUnfinished, Stray, Goto, Fail, listVars, SInv, Owned, Stages
    <3>2. InReach'
      BY <1>5, <2>1 DEF Connect, ConnectUnfinished, Stray, Goto, Fail, listVars, SInv, InReach, Stages
    <3>3. Stages'
      BY <1>5, <2>1 DEF Connect, ConnectUnfinished, Stray, Goto, Fail, listVars, SInv, Stages
    <3> QED BY <3>1, <3>2, <3>3 DEF SInv
  <2>2. CASE ~ConnectUnfinished
    <3>1. Owned'
      BY <1>5, <2>2 DEF Connect, Disconnected, Goto, Fail, listVars, SInv, Owned, Stages
    <3>2. InReach'
      BY <1>5, <2>2 DEF Connect, Disconnected, Goto, Fail, listVars, SInv, InReach, Stages
    <3>3. Stages'
      BY <1>5, <2>2 DEF Connect, Disconnected, Goto, Fail, listVars, SInv, Stages
    <3> QED BY <3>1, <3>2, <3>3 DEF SInv
  <2> QED BY <2>1, <2>2
<1> QED BY <1>1, <1>2, <1>3, <1>4, <1>5

LEMMA ListingStep ==
    ASSUME SInv, Login \/ Query \/ ListStep
    PROVE  SInv'
<1>1. CASE Login
  BY <1>1, FailStep, StageStep DEF Login, Goto, listVars, SInv, Stages
<1>2. CASE Query
  BY <1>2, FailStep, StageStep DEF Query, Goto, listVars, SInv, Stages
<1>3. CASE OpenList
  <2>1. /\ stage = "open" /\ stage' \in {"open", "page", "logout", "close"}
        /\ UNCHANGED linkVars /\ orphan' = orphan
        /\ handle' = handle \/ stage' = "page"
        /\ failure' # "" \/ failure' = failure
    BY <1>3 DEF OpenList, Unanswered, Goto, Fail
  <2>2. handle' = "open" => stage' = "page"
    BY <2>1 DEF SInv, Stages
  <2>3. stage # "idle" /\ stage' \notin {"idle", "resolve", "connect", "release", "select"}
    BY <2>1
  <2>4. failure' = "" => failure = "" /\ orphan' = orphan
    BY <2>1
  <2> QED BY <2>1, <2>2, <2>3, <2>4, StageStep
<1>4. CASE GetPage
  <2>1. /\ stage = "page" /\ stage' \in {"page", "close"}
        /\ UNCHANGED <<linkVars, failure, orphan>>
    BY <1>4 DEF GetPage, Goto
  <2> QED BY <2>1, StageStep
<1>5. CASE PageFails
  <2>1. /\ stage = "page" /\ stage' \in {"logout", "close"}
        /\ UNCHANGED <<orphan, linkVars, handle>>
        /\ handle = "open" => stage' = "close"
        /\ failure' # "" \/ failure' = failure
    BY <1>5 DEF PageFails, Goto, Fail
  <2> QED BY <2>1, StageStep
<1>6. CASE CloseList
  <2>1. /\ stage = "close" /\ stage' \in {"select", "logout"} /\ handle' \in {"closed", "left"}
        /\ UNCHANGED <<linkVars, failure, orphan>>
    BY <1>6 DEF CloseList, TryClose, Goto
  <2> QED BY <2>1, StageStep
<1> QED BY <1>1, <1>2, <1>3, <1>4, <1>5, <1>6 DEF ListStep

LEMMA SelectStep ==
    ASSUME SInv, NEW t, NEW completed, Select(t, completed)
    PROVE  SInv'
<1>1. stage = "select" /\ handle' = "none" /\ UNCHANGED <<linkVars, orphan>>
  BY DEF Select, ForgetList
<1>2. stage' \in {"logout", "transfer"} /\ (failure' # "" \/ failure' = failure)
  <2>1. handle # "open"
    BY <1>1 DEF SInv, Stages
  <2> QED BY <2>1 DEF Select, Fail, Goto
<1> QED BY <1>1, <1>2, StageStep

LEMMA ReleaseStep ==
    ASSUME SInv, Logout \/ CloseConnection \/ ReleaseLease
    PROVE  SInv'
<1>1. CASE Logout
  BY <1>1, StageStep DEF Logout, Goto, listVars, SInv, Stages
<1>2. CASE CloseConnection
  <2>1. CASE conn = "open"
    <3>1. /\ stage = "closing" /\ stage' = "release" /\ UNCHANGED <<orphan, lease>>
          /\ conn' = "closed" /\ sending' = FALSE
          /\ failure' # "" \/ failure' = failure
          /\ alive' = alive \ {Own} \/ alive' = (alive \ {Own}) \union {"told"}
      BY <1>2, <2>1 DEF CloseConnection, Disconnected, Goto
    <3>2. UNCHANGED handle
      BY <1>2 DEF CloseConnection, listVars
    <3>3. Owned'
      BY <2>1, <3>1 DEF Own, SInv, Owned
    <3>4. InReach'
      <4>1. CASE failure' # ""
        BY <4>1 DEF InReach
      <4>2. CASE failure' = ""
        <5>1. failure = "" /\ orphan = FALSE /\ "stray" \notin alive
          BY <2>1, <3>1, <4>2 DEF SInv, InReach
        <5>2. orphan' = FALSE
          BY <3>1, <5>1
        <5>3. "stray" \notin alive'
          <6>1. alive' \subseteq alive \union {"told"}
            BY <3>1
          <6> QED BY <5>1, <6>1
        <5> QED BY <5>2, <5>3 DEF InReach
      <4> QED BY <4>1, <4>2
    <3>5. Stages'
      BY <3>1, <3>2 DEF SInv, Stages
    <3> QED BY <3>3, <3>4, <3>5 DEF SInv
  <2>2. CASE conn # "open"
    <3>1. /\ stage = "closing" /\ stage' = "release" /\ UNCHANGED <<orphan, lease>>
          /\ UNCHANGED <<conn, sending, alive>> /\ (failure' # "" \/ failure' = failure)
      BY <1>2, <2>2 DEF CloseConnection, Goto
    <3>2. UNCHANGED handle
      BY <1>2 DEF CloseConnection, listVars
    <3>3. Owned' /\ InReach'
      BY <3>1 DEF SInv, Owned, InReach
    <3>4. Stages'
      BY <2>2, <3>1, <3>2 DEF SInv, Stages
    <3> QED BY <3>3, <3>4 DEF SInv
  <2> QED BY <2>1, <2>2
<1>3. CASE ReleaseLease
  <2>1. /\ stage = "release" /\ stage' = "idle" /\ handle' = "none" /\ UNCHANGED <<conn, sending>>
    BY <1>3 DEF ReleaseLease, Forget, ForgetList, Goto
  <2>2. \/ /\ lease = "task" /\ lease' = "closed"
           /\ alive' \in {alive \ {"discovery"}, (alive \ {"discovery"}) \union {"told"}}
        \/ lease # "task" /\ UNCHANGED <<lease, alive>>
    BY <1>3 DEF ReleaseLease, Disconnected
  <2>3. Owned'
    <3>1. CASE lease = "task"
      BY <2>1, <2>2, <3>1 DEF SInv, Owned
    <3>2. CASE lease # "task"
      BY <2>1, <2>2, <3>2 DEF SInv, Owned
    <3> QED BY <3>1, <3>2
  <2>4. InReach'
    BY <2>1 DEF InReach
  <2>5. Stages'
    BY <2>1, <2>2 DEF SInv, Stages
  <2> QED BY <2>3, <2>4, <2>5 DEF SInv
<1> QED BY <1>1, <1>2, <1>3

LEMMA InterruptStep ==
    ASSUME SInv, OrphanReturns \/ Cancel \/ ConnectionLost \/ SendersStop
    PROVE  SInv'
<1>1. CASE OrphanReturns
  <2>1. Owned'
    BY <1>1 DEF OrphanReturns, Stray, listVars, SInv, Owned, Stages
  <2>2. InReach'
    BY <1>1 DEF OrphanReturns, Stray, listVars, SInv, InReach, Stages
  <2>3. Stages'
    BY <1>1 DEF OrphanReturns, Stray, listVars, SInv, Stages
  <2> QED BY <2>1, <2>2, <2>3 DEF SInv
<1>2. CASE Cancel
  <2>1. /\ stage' \in {"closing", "logout", "close"} /\ stage # "idle"
        /\ handle' = "open" => stage' = "close"
        /\ failure' = "cancelled"
    <3>1. CASE stage = "logout"
      BY <1>2, <3>1 DEF Cancel, Goto, SInv, Stages
    <3>2. CASE stage = "close"
      BY <1>2, <3>2 DEF Cancel, TryClose, Goto
    <3>3. CASE stage = "open"
      BY <1>2, <3>3 DEF Cancel, Unanswered, Fail, Goto, SInv, Stages
    <3>4. CASE stage \notin {"logout", "close", "open"}
      BY <1>2, <3>4 DEF Cancel, Fail, Goto
    <3> QED BY <3>1, <3>2, <3>3, <3>4
  <2>2. CASE UNCHANGED linkVars
    <3>1. UNCHANGED <<lease, conn, sending, alive>>
      BY <2>2 DEF linkVars
    <3>2. Owned'
      BY <2>1, <3>1 DEF SInv, Owned, Stages
    <3>3. InReach'
      BY <2>1, <3>1 DEF SInv, InReach, Stages
    <3>4. Stages'
      BY <2>1, <3>1 DEF SInv, Stages
    <3> QED BY <3>2, <3>3, <3>4 DEF SInv
  <2>3. CASE AdoptionLost
    <3>1. Owned'
      BY <2>1, <2>3 DEF AdoptionLost, Stray, SInv, Owned, Stages
    <3>2. InReach'
      BY <2>1, <2>3 DEF AdoptionLost, Stray, SInv, InReach, Stages
    <3>3. Stages'
      BY <2>1, <2>3 DEF AdoptionLost, Stray, SInv, Stages
    <3> QED BY <3>1, <3>2, <3>3 DEF SInv
  <2>4. CASE ConnectUnfinished
    <3>1. Owned'
      BY <2>1, <2>4 DEF ConnectUnfinished, Stray, SInv, Owned, Stages
    <3>2. InReach'
      BY <2>1, <2>4 DEF ConnectUnfinished, Stray, SInv, InReach, Stages
    <3>3. Stages'
      BY <2>1, <2>4 DEF ConnectUnfinished, Stray, SInv, Stages
    <3> QED BY <3>1, <3>2, <3>3 DEF SInv
  <2> QED BY <1>2, <2>2, <2>3, <2>4 DEF Cancel
<1>3. CASE ConnectionLost
  <2>1. Owned'
    BY <1>3 DEF ConnectionLost, Own, Stray, listVars, SInv, Owned, Stages
  <2>2. InReach'
    BY <1>3 DEF ConnectionLost, Own, Stray, listVars, SInv, InReach, Stages
  <2>3. Stages'
    BY <1>3 DEF ConnectionLost, Own, Stray, listVars, SInv, Stages
  <2> QED BY <2>1, <2>2, <2>3 DEF SInv
<1>4. CASE SendersStop
  BY <1>4 DEF SendersStop, SInv, Owned, InReach, Stages, listVars
<1> QED BY <1>1, <1>2, <1>3, <1>4

LEMMA TransferStep ==
    ASSUME SInv, TransferReturns \/ TransferRaises
    PROVE  SInv'
<1>1. CASE TransferReturns
  BY <1>1, StageStep DEF TransferReturns, Goto, listVars, SInv, Stages
<1>2. CASE TransferRaises
  BY <1>2, FailStep DEF TransferRaises, listVars
<1> QED BY <1>1, <1>2

LEMMA SessionStutter == ASSUME SInv, UNCHANGED sessionVars PROVE SInv'
BY DEF SInv, Owned, InReach, Stages, sessionVars, linkVars, listVars

LEMMA SessionPreserves == SInv /\ [DownloadNext]_allVars => SInv'
<1> SUFFICES ASSUME SInv, [DownloadNext]_allVars PROVE SInv'
  OBVIOUS
<1>1. CASE Progress
  <2>1. CASE SessionStep
    BY <2>1, WakeUpStep, ListingStep, ReleaseStep DEF SessionStep
  <2>2. CASE SelectAndBegin
    BY <2>2, SelectStep DEF SelectAndBegin
  <2>3. CASE Transfer
    BY <2>3, SessionStutter DEF Transfer
  <2>4. CASE TransferDone
    BY <2>4, TransferStep DEF TransferDone
  <2> QED BY <1>1, <2>1, <2>2, <2>3, <2>4 DEF Progress
<1>2. CASE Environment
  <2>1. CASE StartSession \/ OrphanReturns \/ Cancel \/ SendersStop \/ Lost
    BY <2>1, WakeUpStep, InterruptStep DEF Lost
  <2>2. CASE UNCHANGED sessionVars
    BY <2>2, SessionStutter
  <2>3. CASE PowerLoss
    <3>1. Owned'
      BY <2>3 DEF PowerLoss, Forget, ForgetList, SInv, Owned, Stages
    <3>2. InReach'
      BY <2>3 DEF PowerLoss, Forget, ForgetList, SInv, InReach, Stages
    <3>3. Stages'
      BY <2>3 DEF PowerLoss, Forget, ForgetList, SInv, Stages
    <3> QED BY <3>1, <3>2, <3>3 DEF SInv
  <2> QED BY <1>2, <2>1, <2>2, <2>3 DEF Environment
<1>3. CASE UNCHANGED allVars
  BY <1>3, SessionStutter DEF allVars
<1> QED BY <1>1, <1>2, <1>3 DEF DownloadNext

\* However a session of a download ends (finally of async_prepare_download_for_event,
\* cancelled or not), no connection or socket is left open here and no identity is
\* forgotten: what keeps the camera awake is an identity whose disconnect was tried, or
\* one that a failure, a cancellation or a lost connection put out of reach.
THEOREM SessionsEndQuiet == DownloadSpec => []EndedMeansQuiet
<1>1. DownloadInit => SInv
  BY SessionInitially DEF DownloadInit
<1>2. SInv => EndedMeansQuiet
  BY DEF SInv, Owned, InReach, Stages, EndedMeansQuiet
<1> QED BY <1>1, <1>2, SessionPreserves, PTL DEF DownloadSpec

\* The closing of an opened list (_list_recordings_file_info) is tried before the logout
\* and before the selection, whatever fails or is cancelled.
THEOREM ListsAreClosed == DownloadSpec => []ListClosed
<1>1. DownloadInit => SInv
  BY SessionInitially DEF DownloadInit
<1>2. SInv => ListClosed
  BY DEF SInv, Stages, ListClosed
<1> QED BY <1>1, <1>2, SessionPreserves, PTL DEF DownloadSpec

-----------------------------------------------------------------------------
(* The .part files.                                                        *)

\* Only the recording of a running session has a .part file that is not a left-over,
\* until it is renamed.
Writing == pc \notin {"idle", "directory"}

PInv ==
    /\ DOMAIN part = Names
    /\ \A n \in Names : part[n] \in {NoFile, LeftOver} \/ (Writing /\ n = name)

LEMMA OwnPart ==
    ASSUME PInv, NEW file, part' = [part EXCEPT ![name] = file],
           (Writing' /\ rec' = rec) \/ file \in {NoFile, LeftOver}
    PROVE  PInv'
BY DEF PInv, name

LEMMA KeepPart ==
    ASSUME PInv, part' = part, Writing => Writing' /\ rec' = rec
    PROVE  PInv'
BY DEF PInv, name

LEMMA BeginStep ==
    ASSUME PInv, NEW r, Begin(r)
    PROVE  PInv'
BY DEF Begin, PInv, Writing, name

LEMMA PartStep ==
    ASSUME PInv, Next
    PROVE  PInv'
<1>1. ASSUME NEW r, Begin(r) PROVE PInv'
  BY <1>1, BeginStep
<1>2. CASE FrameArrives
  <2>1. pc' = pc /\ rec' = rec /\ Writing /\ Writing'
    BY <1>2 DEF FrameArrives, Collecting, Writing
  <2>2. part' = part \/ \E file : part' = [part EXCEPT ![name] = file]
    BY <1>2 DEF FrameArrives, Persist
  <2> QED BY <2>1, <2>2, OwnPart, KeepPart
<1>3. ASSUME Abandon PROVE PInv'
  BY <1>3, OwnPart DEF Abandon
<1>4. CASE Answered \/ StopCollecting \/ StreamTimeout \/ Disconnect \/ DiskChanges
  BY <1>4, KeepPart
  DEF Answered, StopCollecting, StreamTimeout, Disconnect, DiskChanges, fileVars, Writing
<1>5. CASE Flush
  <2> DEFINE file == [part[name] EXCEPT !.state = "synced"]
  <2>1. CASE Abandon
    BY <1>3, <2>1
  <2>2. CASE part' = [part EXCEPT ![name] = file] /\ pc' = "verify" /\ UNCHANGED rec
    <3> HIDE DEF file
    <3> QED BY <2>2, OwnPart DEF Writing
  <2> QED BY <1>5, <2>1, <2>2 DEF Flush
<1>6. CASE Verify
  <2>1. CASE part' = part /\ pc' = "rename" /\ UNCHANGED rec
    BY <2>1, KeepPart DEF Writing
  <2>2. CASE part' = [part EXCEPT ![name] = NoFile]
    BY <2>2, OwnPart
  <2> QED BY <1>6, <2>1, <2>2 DEF Verify
<1>7. CASE Rename
  BY <1>7, OwnPart DEF Rename
<1>8. CASE SyncDirectory
  BY <1>8, KeepPart DEF SyncDirectory, Writing
<1>9. CASE Crash
  BY <1>9 DEF Crash, PInv
<1> QED BY <1>1, <1>2, <1>3, <1>4, <1>5, <1>6, <1>7, <1>8, <1>9 DEF Next, Session, Raise

\* The steps of a download are steps of its parts, or leave the files alone.
LEMMA PartPreserves == PInv /\ [DownloadNext]_allVars => PInv'
<1> SUFFICES ASSUME PInv, [DownloadNext]_allVars PROVE PInv'
  OBVIOUS
<1>1. CASE UNCHANGED vars
  BY <1>1, KeepPart DEF vars, fileVars, Writing
<1>2. CASE SelectAndBegin
  BY <1>1, <1>2, BeginStep DEF SelectAndBegin
<1>3. CASE Transfer
  BY <1>3, PartStep DEF Transfer, Next, Session
<1>4. CASE TransferDone
  BY <1>4, PartStep DEF TransferDone, Next, Session
<1>5. CASE DiskChanges \/ Lost \/ PowerLoss
  BY <1>1, <1>5, PartStep DEF Lost, PowerLoss, Next
<1> QED BY <1>1, <1>2, <1>3, <1>4, <1>5 DEF DownloadNext, Progress, Environment, allVars

\* A session that failed at whichever await or step of _finalize_verified_file leaves no
\* .part file, except one whose removal a full disk or a power loss prevented.
THEOREM PartsAreRemoved == DownloadSpec => []NoPartLeft
<1>1. DownloadInit => PInv
  BY DEF DownloadInit, Init, PInv
<1>2. PInv => NoPartLeft
  BY DEF PInv, Writing, NoPartLeft
<1> QED BY <1>1, <1>2, PartPreserves, PTL DEF DownloadSpec
-----------------------------------------------------------------------------
(* The saved files.                                                        *)

\* The file that will be renamed is synced; neither the final file of a saved name nor
\* what a power loss may bring back instead is nothing.
DInv ==
    /\ pc # "idle" => rec \in Recordings
    /\ DOMAIN part = Names /\ DOMAIN final = Names /\ DOMAIN undo = Names
    /\ pc \in {"verify", "rename"} => part[name].state = "synced"
    /\ pc = "directory" => final[name] # NoFile
    /\ saved \subseteq Names
    /\ \A n \in saved : final[n] # NoFile /\ (undo[n] # << >> => undo[n][1] # NoFile)

LEMMA CollectorKeepsSaved ==
    ASSUME DInv,
           \/ FrameArrives \/ Answered \/ StopCollecting \/ StreamTimeout
           \/ Disconnect \/ DiskChanges \/ UNCHANGED vars
    PROVE  DInv'
<1>1. CASE FrameArrives
  <2>1. /\ pc \in Collecting /\ DOMAIN part' = DOMAIN part
        /\ UNCHANGED <<pc, rec, final, undo, saved>>
    BY <1>1 DEF FrameArrives, Persist
  <2> QED BY <2>1 DEF DInv, Collecting, name
<1>2. CASE Answered \/ StopCollecting \/ StreamTimeout
  BY <1>2 DEF Answered, StopCollecting, StreamTimeout, DInv, name, fileVars
<1>3. CASE Disconnect \/ DiskChanges \/ UNCHANGED vars
  BY <1>3 DEF Disconnect, DiskChanges, DInv, name, fileVars, vars
<1> QED BY <1>1, <1>2, <1>3

LEMMA AbandonKeepsSaved == ASSUME DInv, Abandon PROVE DInv'
BY DEF Abandon, DInv, ForgetStream

LEMMA FinalizeKeepsSaved ==
    ASSUME DInv, Flush \/ Verify \/ Rename \/ SyncDirectory
    PROVE  DInv'
<1>1. CASE Flush
  <2>1. CASE Abandon
    BY <2>1, AbandonKeepsSaved
  <2>2. CASE ~Abandon
    <3>1. /\ pc = "flush" /\ pc' = "verify" /\ UNCHANGED <<rec, final, undo, saved>>
          /\ part' = [part EXCEPT ![name].state = "synced"]
      BY <1>1, <2>2 DEF Flush
    <3>2. name \in Names
      BY <3>1 DEF DInv, Names, name
    <3>3. DOMAIN part' = Names /\ part'[name].state = "synced"
      BY <3>1, <3>2 DEF DInv
    <3> QED BY <3>1, <3>3 DEF DInv, name
  <2> QED BY <2>1, <2>2
<1>2. CASE Verify
  BY <1>2 DEF Verify, DInv, name, ForgetStream
<1>3. CASE Rename
  <2>1. /\ pc = "rename" /\ name \in Names /\ part[name] # NoFile
    BY <1>3 DEF Rename, DInv, Names, name, NoFile
  <2>2. /\ pc' = "directory" /\ UNCHANGED <<rec, saved>>
        /\ final' = [final EXCEPT ![name] = part[name]]
        /\ undo' = [undo EXCEPT ![name] = IF @ = << >> THEN <<final[name]>> ELSE @]
        /\ part' = [part EXCEPT ![name] = NoFile]
    BY <1>3 DEF Rename
  <2>3. ASSUME NEW n \in saved
        PROVE  final'[n] # NoFile /\ (undo'[n] # << >> => undo'[n][1] # NoFile)
    <3>1. CASE n = name
      BY <2>1, <2>2, <2>3, <3>1 DEF DInv
    <3>2. CASE n # name
      BY <2>1, <2>2, <2>3, <3>2 DEF DInv
    <3> QED BY <3>1, <3>2
  <2> QED BY <2>1, <2>2, <2>3 DEF DInv, name
<1>4. CASE SyncDirectory
  <2>1. name \in Names /\ final[name] # NoFile
    BY <1>4 DEF SyncDirectory, DInv, Names, name
  <2> QED BY <1>4, <2>1 DEF SyncDirectory, DInv, ForgetStream
<1> QED BY <1>1, <1>2, <1>3, <1>4

LEMMA CrashKeepsSaved ==
    ASSUME DInv, Crash
    PROVE  DInv'
<1>1. /\ pc' = "idle" /\ UNCHANGED saved /\ undo' = [n \in Names |-> << >>]
      /\ DOMAIN final' = Names /\ DOMAIN part' = Names
  BY DEF Crash
<1>2. ASSUME NEW n \in saved
      PROVE  final'[n] # NoFile
  BY <1>2 DEF Crash, DInv, NoFile
<1> QED BY <1>1, <1>2 DEF DInv

LEMMA SavedStep == ASSUME DInv, [Next]_vars PROVE DInv'
<1>1. ASSUME NEW r \in Recordings, Begin(r) PROVE DInv'
  BY <1>1 DEF Begin, DInv
<1>2. CASE Raise
  BY <1>2, AbandonKeepsSaved DEF Raise
<1> QED BY <1>1, <1>2, CollectorKeepsSaved, FinalizeKeepsSaved, CrashKeepsSaved
        DEF Next, Session

\* Once a session saved a file and synced its directory, the name has a final file for
\* ever, also when later downloads of the same name fail or power fails during them.
THEOREM SavedFilesStay == Spec => []SavedStays
<1>1. Init => DInv
  BY DEF Init, DInv
<1>2. DInv => SavedStays
  BY DEF DInv, SavedStays
<1> QED BY <1>1, <1>2, SavedStep, PTL DEF Spec
-----------------------------------------------------------------------------
(* The lookup.                                                             *)

LEMMA LeastOf ==
    ASSUME NEW T \in SUBSET Nat, T # {}
    PROVE  \E m \in T : \A n \in T : m <= n
<1> DEFINE R == OpToRel(<, Nat)
<1>1. IsWellFoundedOn(R, Nat)
  BY NatLessThanWellFounded
<1> HIDE DEF R
<1>2. PICK m \in T : \A n \in T : <<n, m>> \notin R
  BY <1>1, WFMin
<1>3. \A n \in T : ~(n < m)
  BY <1>2 DEF R, OpToRel
<1> QED BY <1>3

LEMMA DistanceType == ASSUME NEW t \in Nat, NEW r \in Recordings PROVE Distance(t, r) \in Nat
<1>1. Start[r] \in Nat /\ End[r] \in Nat
  BY SessionAssumption
<1> QED BY <1>1 DEF Distance

LEMMA NearestExists ==
    ASSUME NEW t \in Nat, NEW files \in SUBSET Recordings, files # {}
    PROVE  /\ Nearest(t, files) \in files
           /\ \A q \in files : Distance(t, Nearest(t, files)) <= Distance(t, q)
<1> DEFINE distances == {Distance(t, r) : r \in files}
<1>1. \A r \in files : Distance(t, r) \in Nat /\ Start[r] \in Nat
  BY DistanceType, SessionAssumption
<1>2. PICK d \in distances : \A e \in distances : d <= e
  <2>1. distances \in SUBSET Nat /\ distances # {}
    BY <1>1
  <2> HIDE DEF distances
  <2> QED BY <2>1, LeastOf
<1> DEFINE closest == {r \in files : Distance(t, r) = d}
           starts == {Start[r] : r \in closest}
<1>3. PICK b \in starts : \A e \in starts : b <= e
  <2>1. starts \in SUBSET Nat /\ starts # {}
    BY <1>1, <1>2
  <2> HIDE DEF starts
  <2> QED BY <2>1, LeastOf
<1>4. PICK r \in closest : Start[r] = b
  BY <1>3
<1>5. \A q \in files : ~Before(t, q, r)
  <2> SUFFICES ASSUME NEW q \in files PROVE ~Before(t, q, r)
    OBVIOUS
  <2>1. d <= Distance(t, q) /\ Distance(t, r) = d
    BY <1>2, <1>4
  <2>2. Distance(t, q) = d => b <= Start[q]
    BY <1>3
  <2> QED BY <1>1, <1>4, <2>1, <2>2 DEF Before
<1>6. /\ Nearest(t, files) \in files
      /\ \A q \in files : ~Before(t, q, Nearest(t, files))
  BY <1>4, <1>5, Zenon DEF Nearest
<1> HIDE DEF closest, distances, starts
<1> QED BY <1>1, <1>6 DEF Before

\* select_recording_candidate returns the only nearest recording of the list, and none
\* only when there is none within the tolerance or two are equally near.
LEMMA SelectionSound ==
    ASSUME NEW t \in Nat, NEW files \in SUBSET Recordings
    PROVE  IF SelectCandidate(t, files) = NoRecording THEN OnlyNearest(t, files) = {}
           ELSE SelectCandidate(t, files) \in OnlyNearest(t, files)
<1>1. \A r \in files : Distance(t, r) \in Nat
  BY DistanceType
<1>2. CASE files = {}
  BY <1>2 DEF SelectCandidate, OnlyNearest
<1>3. CASE files # {}
  <2> DEFINE first == Nearest(t, files)
             others == files \ {first}
             second == Nearest(t, others)
             tie == others # {} /\ Distance(t, second) = Distance(t, first)
  <2>1. first \in files /\ \A q \in files : Distance(t, first) <= Distance(t, q)
    BY <1>3, NearestExists
  <2>2. others # {} => second \in others /\ \A q \in others : Distance(t, second) <= Distance(t, q)
    <3>1. others \in SUBSET Recordings
      OBVIOUS
    <3> HIDE DEF others
    <3> QED BY <3>1, NearestExists
  <2>3. SelectCandidate(t, files) =
            IF Distance(t, first) > Tolerance \/ tie THEN NoRecording ELSE first
    BY <1>3 DEF SelectCandidate
  <2>4. Tolerance \in Nat /\ NoRecording \notin Recordings
    BY SessionAssumption
  <2> HIDE DEF first, second
  <2>5. CASE Distance(t, first) > Tolerance
    <3>1. \A r \in files : Distance(t, r) > Tolerance
      BY <1>1, <2>1, <2>4, <2>5
    <3>2. OnlyNearest(t, files) = {}
      BY <1>1, <3>1, <2>4 DEF OnlyNearest
    <3> QED BY <2>3, <2>5, <3>2
  <2>6. CASE ~(Distance(t, first) > Tolerance) /\ tie
    <3>1. \A r \in files : \E q \in files \ {r} : Distance(t, q) <= Distance(t, r)
      BY <1>1, <2>1, <2>2, <2>6
    <3>2. OnlyNearest(t, files) = {}
      BY <1>1, <3>1 DEF OnlyNearest
    <3> QED BY <2>3, <2>6, <3>2
  <2>7. CASE ~(Distance(t, first) > Tolerance) /\ ~tie
    <3>1. \A q \in files \ {first} : Distance(t, first) < Distance(t, q)
      BY <1>1, <2>1, <2>2, <2>7
    <3>2. first \in OnlyNearest(t, files)
      BY <1>1, <2>1, <2>4, <2>7, <3>1 DEF OnlyNearest
    <3> QED BY <2>1, <2>3, <2>4, <2>7, <3>2
  <2> QED BY <2>5, <2>6, <2>7
<1> QED BY <1>2, <1>3

-----------------------------------------------------------------------------
(* The list of the day.                                                    *)

FilesUpTo(list, n) == UNION {list[i].files : i \in 1 .. n}

BeforeList == {"idle", "resolve", "connect", "login", "query", "open"}

\* The locals of the listing are untouched before it; while pages are fetched, listed
\* holds what they brought; and a list that ended by itself holds every recording.
ListInv ==
    /\ stage \in BeforeList => pages = 0 /\ listed = {} /\ ~cut /\ failure = ""
    /\ stage = "page" =>
        /\ listing \in Listings /\ pages < MaxPages /\ pages <= Len(listing)
        /\ ~cut /\ failure = "" /\ listed = FilesUpTo(listing, pages)
    /\ stage \in {"close", "select"} /\ failure = "" =>
        /\ listing \in Listings
        /\ NothingFollows /\ ~cut => listed = FilesUpTo(listing, Len(listing))
    /\ stage = "select" => failure = ""
    /\ stage = "transfer" => candidate \in Recordings

LInv == SessionTypeOK /\ ListInv

StageType ==
    /\ stage \in {"idle", "resolve", "connect", "login", "query", "open", "page", "close",
                  "select", "transfer", "logout", "closing", "release"}
    /\ kind \in Kinds \union {"none"} /\ target \in Targets \union {0}

LinkType ==
    /\ lease \in {"none", "task", "conn", "closed"}
    /\ conn \in {"none", "open", "lost", "closed"}
    /\ alive \subseteq {"discovery", "session", "stray", "told"}

ListType ==
    /\ handle \in {"none", "open", "closed", "left"} /\ attempts \in 0 .. OpenRetries
    /\ pages \in 0 .. MaxPages /\ listed \subseteq Recordings
    /\ candidate \in Recordings \union {NoRecording}

Flags == orphan \in BOOLEAN /\ sending \in BOOLEAN /\ cut \in BOOLEAN /\ unread \in BOOLEAN

\* The provers take SessionTypeOK in parts.
LEMMA TypeParts == SessionTypeOK <=> StageType /\ LinkType /\ ListType /\ Flags
BY DEF SessionTypeOK, StageType, LinkType, ListType, Flags

LEMMA Numbers ==
    /\ MaxPages \in Nat /\ 0 < MaxPages /\ OpenRetries \in Nat /\ Tolerance \in Nat
    /\ Targets \subseteq Nat /\ NoRecording \notin Recordings /\ Listings \subseteq Seq(Pages)
    /\ 0 \in 0 .. MaxPages /\ 0 \in 0 .. OpenRetries
<1>1. /\ MaxPages \in Nat /\ 0 < MaxPages /\ OpenRetries \in Nat /\ Tolerance \in Nat
      /\ Targets \subseteq Nat /\ NoRecording \notin Recordings
      /\ Listings \subseteq Seq(Pages)
  BY SessionAssumption
<1>2. 0 \in 0 .. MaxPages /\ 0 \in 0 .. OpenRetries
  BY <1>1
<1> QED BY <1>1, <1>2

\* The steps that leave the variables of the list alone.
LinkStep ==
    \/ StartSession \/ Resolve \/ RouteFails \/ Adopt \/ Connect \/ Login \/ Query
    \/ Logout \/ CloseConnection \/ OrphanReturns \/ ConnectionLost \/ SendersStop
    \/ TransferReturns \/ TransferRaises

Selecting == \E t \in Targets : \E completed : Select(t, completed)
Over == ReleaseLease \/ PowerLoss

LEMMA ListType1 ==
    ASSUME NEW list \in Listings
    PROVE  list \in Seq(Pages) /\ Len(list) \in Nat /\ DOMAIN list = 1 .. Len(list)
<1>1. list \in Seq(Pages)
  BY Numbers
<1> QED BY <1>1

LEMMA LinkStepKeeps == LinkStep => UNCHANGED listVars
BY DEF LinkStep, StartSession, Resolve, RouteFails, Adopt, Connect, Login, Query, Logout,
   CloseConnection, OrphanReturns, ConnectionLost, SendersStop, TransferReturns,
   TransferRaises

LEMMA StageTyped ==
    ASSUME StageType, LinkStep \/ ListStep \/ Cancel \/ Selecting \/ Over
    PROVE  StageType'
BY DEF StageType, Kinds, LinkStep, ListStep, Selecting, Over, Goto, Fail, Forget,
   StartSession, Resolve, RouteFails, Adopt, Connect, Login, Query, OpenList, GetPage,
   PageFails, CloseList, Select, Logout, CloseConnection, ReleaseLease, OrphanReturns,
   Cancel, ConnectionLost, SendersStop, TransferReturns, TransferRaises, PowerLoss

LEMMA LinkTyped ==
    ASSUME LinkType, LinkStep \/ ListStep \/ Cancel \/ Selecting \/ Over
    PROVE  LinkType'
BY DEF LinkType, linkVars, LinkStep, ListStep, Selecting, Over, AdoptionLost,
   ConnectUnfinished, Stray, Disconnected, Own,
   StartSession, Resolve, RouteFails, Adopt, Connect, Login, Query, OpenList, GetPage,
   PageFails, CloseList, Select, Logout, CloseConnection, ReleaseLease, OrphanReturns,
   Cancel, ConnectionLost, SendersStop, TransferReturns, TransferRaises, PowerLoss

LEMMA FlagsTyped ==
    ASSUME Flags, LinkStep \/ ListStep \/ Cancel \/ Selecting \/ Over
    PROVE  Flags'
BY DEF Flags, linkVars, listVars, LinkStep, ListStep, Selecting, Over, AdoptionLost,
   ConnectUnfinished, Unanswered, TryClose, ForgetList, Forget,
   StartSession, Resolve, RouteFails, Adopt, Connect, Login, Query, OpenList, GetPage,
   PageFails, CloseList, Select, Logout, CloseConnection, ReleaseLease, OrphanReturns,
   Cancel, ConnectionLost, SendersStop, TransferReturns, TransferRaises, PowerLoss

LEMMA ListTyped ==
    ASSUME LInv, LinkStep \/ ListStep \/ Cancel \/ Selecting \/ Over
    PROVE  ListType'
<1>1. ListType
  BY TypeParts DEF LInv
<1>2. CASE LinkStep
  BY <1>1, <1>2, LinkStepKeeps DEF listVars, ListType
<1>3. CASE OpenList
  <2>1. handle' \in {handle, "open"} /\ UNCHANGED <<pages, listed, candidate>>
    BY <1>3 DEF OpenList, Unanswered
  <2>2. attempts' \in 0 .. OpenRetries
    BY <1>1, <1>3, Numbers DEF OpenList, MayRetry, ListType
  <2> QED BY <1>1, <2>1, <2>2 DEF ListType
<1>4. CASE GetPage
  <2>1. listing \in Listings /\ pages < MaxPages /\ pages < Len(listing)
    BY <1>4 DEF GetPage, LInv, ListInv
  <2>4. pages \in Nat
    BY <1>1, Numbers DEF ListType
  <2>2. pages' \in 0 .. MaxPages
    <3>1. pages' = pages + 1
      BY <1>4 DEF GetPage
    <3> QED BY <2>1, <2>4, <3>1, Numbers
  <2>3. listing[pages + 1] \in Pages
    BY <2>1, <2>4, ListType1
  <2> QED BY <1>1, <1>4, <2>2, <2>3 DEF GetPage, ListType, Pages
<1>5. CASE PageFails \/ CloseList \/ Cancel
  BY <1>1, <1>5 DEF PageFails, CloseList, Cancel, TryClose, Unanswered, ListType
<1>6. ASSUME NEW t \in Targets, NEW completed, Select(t, completed) PROVE ListType'
  <2>1. t \in Nat /\ listed \in SUBSET Recordings
    BY <1>1, Numbers DEF ListType
  <2>2. SelectCandidate(t, listed) \in Recordings \union {NoRecording}
    BY <2>1, SelectionSound DEF OnlyNearest
  <2> QED BY <1>1, <1>6, <2>2, Numbers DEF Select, ForgetList, ListType
<1>7. CASE Over
  BY <1>7, Numbers DEF Over, ReleaseLease, PowerLoss, Forget, ForgetList, ListType
<1> QED BY <1>2, <1>3, <1>4, <1>5, <1>6, <1>7 DEF ListStep, Selecting

LEMMA SessionTyped ==
    ASSUME LInv, LinkStep \/ ListStep \/ Cancel \/ Selecting \/ Over
    PROVE  SessionTypeOK'
<1>1. StageType /\ LinkType /\ Flags
  BY TypeParts DEF LInv
<1>2. StageType' /\ LinkType' /\ Flags'
  BY <1>1, StageTyped, LinkTyped, FlagsTyped
<1>3. ListType'
  BY ListTyped
<1> QED BY <1>2, <1>3, TypeParts DEF SessionTypeOK, StageType, LinkType, ListType, Flags

LEMMA ListInitially == SessionInit => LInv
<1> SUFFICES ASSUME SessionInit PROVE LInv
  OBVIOUS
<1>1. StageType /\ LinkType /\ Flags
  BY DEF SessionInit, StageType, LinkType, Flags
<1>2. ListType
  BY Numbers DEF SessionInit, ListType
<1>3. ListInv
  BY DEF SessionInit, ListInv, BeforeList
<1> QED BY <1>1, <1>2, <1>3, TypeParts DEF LInv

\* After an exception nothing of the list is used any more.
LEMMA FailKeepsList ==
    ASSUME LInv, NEW s, Fail(s), s # "", candidate' = candidate
    PROVE  ListInv'
BY DEF LInv, ListInv, Fail, Goto, BeforeList

\* Steps to a stage at which the list is over.
LEMMA QuietStep ==
    ASSUME stage' \in {"logout", "closing", "release"} \/ (stage' = "close" /\ failure' # "")
    PROVE  ListInv'
BY DEF ListInv, BeforeList

\* Steps before the list, that leave its variables alone.
LEMMA EarlyStep ==
    ASSUME LInv, stage \in BeforeList, stage' \in BeforeList,
           UNCHANGED <<failure, pages, listed, cut>>
    PROVE  ListInv'
BY DEF LInv, ListInv, BeforeList

LEMMA StayingStep ==
    ASSUME LInv, UNCHANGED <<stage, failure, listVars>>
    PROVE  ListInv'
<1>1. UNCHANGED <<stage, failure, candidate, pages, listing, listed, cut>>
  BY DEF listVars
<1>2. FilesUpTo(listing, pages)' = FilesUpTo(listing, pages)
  BY <1>1 DEF FilesUpTo
<1>3. FilesUpTo(listing, Len(listing))' = FilesUpTo(listing, Len(listing))
  BY <1>1 DEF FilesUpTo
<1> QED BY <1>1, <1>2, <1>3 DEF LInv, ListInv

LEMMA LinkStepKeepsList ==
    ASSUME LInv, LinkStep
    PROVE  ListInv'
<1>1. UNCHANGED listVars
  BY LinkStepKeeps
<1>2. CASE StartSession \/ Resolve \/ RouteFails \/ Adopt \/ Connect \/ Login \/ Query
  <2>1. stage \in BeforeList
    BY <1>2 DEF StartSession, Resolve, RouteFails, Adopt, Connect, Login, Query, BeforeList
  <2>2. \/ \E s : s # "" /\ Fail(s)
        \/ stage' \in BeforeList /\ failure' = failure
        \/ stage' = "logout"
    BY <1>2 DEF StartSession, Resolve, RouteFails, Adopt, Connect, Login, Query,
       BeforeList, Goto, AdoptionLost
  <2> QED BY <1>1, <2>1, <2>2, FailKeepsList, EarlyStep, QuietStep DEF listVars
<1>3. CASE Logout \/ CloseConnection \/ TransferReturns
  BY <1>3, QuietStep DEF Logout, CloseConnection, TransferReturns, Goto
<1>4. CASE TransferRaises
  BY <1>1, <1>4, FailKeepsList DEF TransferRaises, listVars
<1>5. CASE OrphanReturns \/ ConnectionLost \/ SendersStop
  BY <1>1, <1>5, StayingStep DEF OrphanReturns, ConnectionLost, SendersStop
<1> QED BY <1>2, <1>3, <1>4, <1>5 DEF LinkStep

LEMMA OpenKeepsList ==
    ASSUME LInv, OpenList
    PROVE  ListInv'
<1>1. UNCHANGED <<pages, listed, cut, candidate>> /\ stage \in BeforeList
  BY DEF OpenList, BeforeList
<1>2. CASE \E s : s # "" /\ Fail(s)
  BY <1>1, <1>2, FailKeepsList
<1>3. CASE stage' = stage /\ failure' = failure
  BY <1>1, <1>3, EarlyStep
<1>4. CASE listing' \in Listings /\ stage' = "page" /\ failure' = failure
  <2>1. pages' = 0 /\ listed' = {} /\ ~cut' /\ failure' = ""
    BY <1>1, <1>4 DEF LInv, ListInv
  <2>2. FilesUpTo(listing, pages)' = {}
    <3>1. 1 .. 0 = {}
      OBVIOUS
    <3> QED BY <2>1, <3>1 DEF FilesUpTo
  <2>3. pages' < MaxPages /\ pages' <= Len(listing')
    <3>1. Len(listing') \in Nat
      BY <1>4, ListType1
    <3>2. pages' = 0
      BY <2>1
    <3> QED BY <3>1, <3>2, Numbers
  <2> QED BY <1>4, <2>1, <2>2, <2>3 DEF ListInv, BeforeList
<1> QED BY <1>2, <1>3, <1>4 DEF OpenList, Goto

LEMMA PageKeepsList ==
    ASSUME LInv, GetPage
    PROVE  ListInv'
<1> DEFINE page == listing[pages + 1]
<1>1. /\ stage = "page" /\ pages < Len(listing)
      /\ pages' = pages + 1 /\ listed' = listed \union page.files
      /\ stage' = IF LastPage(page) \/ pages' = MaxPages THEN "close" ELSE "page"
      /\ cut' = (~LastPage(page) /\ pages' = MaxPages)
      /\ UNCHANGED <<failure, listing, candidate>>
  BY DEF GetPage, Goto
<1>2. pages \in Nat
  BY Numbers, TypeParts DEF LInv, ListType
<1>3. /\ listing \in Listings /\ pages < MaxPages /\ failure = ""
      /\ listed = FilesUpTo(listing, pages)
  BY <1>1 DEF LInv, ListInv
<1>4. Len(listing) \in Nat /\ pages + 1 \in DOMAIN listing
  <2>1. Len(listing) \in Nat /\ DOMAIN listing = 1 .. Len(listing)
    BY <1>3, ListType1
  <2> QED BY <1>1, <1>2, <2>1
<1>5. listed' = FilesUpTo(listing, pages')
  <2>1. 1 .. pages + 1 = (1 .. pages) \union {pages + 1}
    BY <1>2
  <2>2. FilesUpTo(listing, pages + 1) = FilesUpTo(listing, pages) \union page.files
    BY <2>1 DEF FilesUpTo
  <2> QED BY <1>1, <1>3, <2>2
<1>6. NothingFollows /\ LastPage(page) => pages' = Len(listing)
  BY <1>1, <1>3, <1>4 DEF NothingFollows
<1>7. CASE stage' = "page"
  <2>1. ~cut' /\ pages' # MaxPages
    BY <1>1, <1>7
  <2>2. pages' < MaxPages /\ pages' <= Len(listing')
    <3>1. pages' = pages + 1 /\ listing' = listing /\ pages < Len(listing) /\ pages < MaxPages
      BY <1>1, <1>3
    <3> HIDE DEF page
    <3> QED BY <1>2, <1>4, <2>1, <3>1, Numbers
  <2> QED BY <1>1, <1>3, <1>5, <1>7, <2>1, <2>2 DEF ListInv, BeforeList
<1>8. CASE stage' = "close"
  <2>1. ASSUME NothingFollows, ~cut' PROVE listed' = FilesUpTo(listing, Len(listing))'
    <3>1. pages' = Len(listing)
      BY <1>1, <1>6, <1>8, <2>1
    <3>2. listed' = FilesUpTo(listing, Len(listing))
      BY <1>5, <3>1
    <3> QED BY <1>1, <3>2
  <2> QED BY <1>1, <1>3, <1>8, <2>1 DEF ListInv, BeforeList
<1> QED BY <1>1, <1>7, <1>8

LEMMA ListEndsStep ==
    ASSUME LInv, PageFails \/ CloseList
    PROVE  ListInv'
<1>1. CASE PageFails
  <2>1. CASE \E s : s # "" /\ Fail(s)
    BY <1>1, <2>1, FailKeepsList DEF PageFails
  <2>2. CASE stage' = "close" /\ cut' = TRUE
    BY <1>1, <2>2 DEF PageFails, LInv, ListInv, BeforeList
  <2> QED BY <1>1, <2>1, <2>2 DEF PageFails, Goto
<1>2. CASE CloseList
  <2>1. CASE failure = ""
    <3>1. FilesUpTo(listing, Len(listing))' = FilesUpTo(listing, Len(listing))
      BY <1>2 DEF CloseList, FilesUpTo
    <3> QED BY <1>2, <2>1, <3>1 DEF CloseList, LInv, ListInv, Goto, BeforeList
  <2>2. CASE failure # ""
    BY <1>2, <2>2, QuietStep DEF CloseList, Goto
  <2> QED BY <2>1, <2>2
<1> QED BY <1>1, <1>2

LEMMA SelectKeepsList ==
    ASSUME LInv, NEW t \in Targets, NEW completed, Select(t, completed)
    PROVE  ListInv'
<1>1. ListType'
  <2>1. Selecting
    BY DEF Selecting
  <2> QED BY <2>1, ListTyped
<1>2. /\ stage' \in {"close", "logout", "transfer"}
      /\ candidate' = NoRecording => stage' # "transfer"
      /\ stage' = "close" => failure' # ""
  BY DEF Select, Fail, Goto
<1> QED BY <1>1, <1>2 DEF ListType, ListInv, BeforeList

LEMMA CancelKeepsList == ASSUME Cancel PROVE ListInv'
<1>1. \/ stage' \in {"closing", "logout"}
      \/ stage' = "close" /\ failure' # ""
  BY DEF Cancel, Fail, Goto
<1> QED BY <1>1, QuietStep

LEMMA OverKeepsList == ASSUME Over PROVE ListInv'
BY DEF Over, ReleaseLease, PowerLoss, Forget, ForgetList, Goto, ListInv, BeforeList

\* Every step of a download is one of these for the session.
LEMMA SessionSteps ==
    ASSUME DownloadNext
    PROVE  LinkStep \/ ListStep \/ Cancel \/ Selecting \/ Over \/ UNCHANGED sessionVars
<1>1. CASE Progress
  <2>1. CASE SelectAndBegin
    BY <2>1 DEF SelectAndBegin, Selecting
  <2> QED BY <1>1, <2>1
          DEF Progress, SessionStep, LinkStep, Over, Transfer, TransferDone
<1>2. CASE Environment
  BY <1>2 DEF Environment, LinkStep, Over, Lost
<1> QED BY <1>1, <1>2 DEF DownloadNext

LEMMA ListPreserves == LInv /\ [DownloadNext]_allVars => LInv'
<1> SUFFICES ASSUME LInv, [DownloadNext]_allVars PROVE LInv'
  OBVIOUS
<1>1. CASE LinkStep \/ ListStep \/ Cancel \/ Selecting \/ Over
  <2>1. SessionTypeOK'
    BY <1>1, SessionTyped
  <2>2. ListInv'
    BY <1>1, LinkStepKeepsList, OpenKeepsList, PageKeepsList, ListEndsStep,
       SelectKeepsList, CancelKeepsList, OverKeepsList
    DEF ListStep, Selecting
  <2> QED BY <2>1, <2>2 DEF LInv
<1>2. CASE UNCHANGED sessionVars
  <2>1. ListInv'
    BY <1>2, StayingStep DEF sessionVars
  <2>2. SessionTypeOK'
    <3>1. StageType /\ LinkType /\ ListType /\ Flags
      BY TypeParts DEF LInv
    <3>2. StageType' /\ LinkType' /\ Flags'
      BY <1>2, <3>1 DEF sessionVars, linkVars, listVars, StageType, LinkType, Flags
    <3>3. ListType'
      BY <1>2, <3>1 DEF sessionVars, listVars, ListType
    <3> QED BY <3>2, <3>3 DEF SessionTypeOK, StageType, LinkType, ListType, Flags
  <2> QED BY <2>1, <2>2 DEF LInv
<1> QED BY <1>1, <1>2, SessionSteps DEF allVars

-----------------------------------------------------------------------------
\* The recording that is selected is the only nearest one of the day, and "no match" means
\* there is none, unless the list was cut short; when no page follows the last.
THEOREM LookupIsSound ==
    ASSUME NothingFollows
    PROVE  DownloadSpec => LookupSound
<1>1. DownloadInit => LInv
  BY ListInitially DEF DownloadInit
<1>2. ASSUME LInv, [DownloadNext]_allVars, stage = "select", stage' \notin {"select", "idle"},
             ~cut
      PROVE  LET day == OnlyNearest(target', UNION {listing[i].files : i \in DOMAIN listing})
             IN  IF candidate' = NoRecording THEN day = {} ELSE candidate' \in day
  <2>1. PICK t \in Targets : \E completed : Select(t, completed)
    <3>1. DownloadNext
      BY <1>2 DEF allVars, sessionVars
    <3>2. ~LinkStep
      BY <1>2 DEF LinkStep, StartSession, Resolve, RouteFails, Adopt, Connect, Login, Query,
         Logout, CloseConnection, OrphanReturns, ConnectionLost, SendersStop,
         TransferReturns, TransferRaises
    <3>3. ~ListStep /\ ~Cancel /\ ~Over
      BY <1>2 DEF ListStep, OpenList, GetPage, PageFails, CloseList, Cancel, Over,
         ReleaseLease, PowerLoss
    <3>4. ~UNCHANGED sessionVars
      BY <1>2 DEF sessionVars
    <3> QED BY <3>1, <3>2, <3>3, <3>4, SessionSteps DEF Selecting
  <2>2. target' = t /\ candidate' = SelectCandidate(t, listed)
    BY <2>1 DEF Select
  <2>3. t \in Nat /\ listed \in SUBSET Recordings
    BY <1>2, Numbers, TypeParts DEF LInv, ListType
  <2>4. listed = UNION {listing[i].files : i \in DOMAIN listing}
    <3>1. listing \in Listings /\ listed = FilesUpTo(listing, Len(listing))
      BY <1>2 DEF LInv, ListInv
    <3>3. DOMAIN listing = 1 .. Len(listing)
      BY <3>1, ListType1
    <3> QED BY <3>1, <3>3 DEF FilesUpTo
  <2> QED BY <2>2, <2>3, <2>4, SelectionSound
<1> QED BY <1>1, <1>2, ListPreserves, PTL DEF DownloadSpec, LookupSound

-----------------------------------------------------------------------------
(* Types of the transfer.                                                  *)

CollectorType ==
    [agg : Seq(Units), expected : Nat, handle : BOOLEAN, first : Nat \union {NoCode},
     stop : BOOLEAN, limit : Nat, bytes : Nat, frames : Nat, reached : BOOLEAN,
     match : BOOLEAN, persisted : Nat, failed : BOOLEAN]

Limited == Len(collector.agg) <= collector.limit /\ collector.limit <= HardCap

LEMMA Limits ==
    /\ ProbeLimit \in Nat /\ Overhead \in Nat /\ HardCap \in Nat /\ MinFrames \in Nat
    /\ \A r \in Recordings : ScriptsOf[r] \subseteq Seq(Frames) /\ Len(Content[r]) \in Nat
    /\ \A s \in Scripts : s \in Seq(Frames) /\ s # << >>
BY DownloadAssumption, ScriptsAssumption

LEMMA FrameFields ==
    ASSUME NEW f \in Frames
    PROVE  /\ f.cmd \in Nat /\ f.code \in Nat /\ f.size \in Nat /\ f.handle \in BOOLEAN
           /\ f.data \in Seq(Units) /\ f.bytes \in Nat
BY DownloadAssumption

LEMMA ByteLimitBounds ==
    ASSUME NEW n \in Nat
    PROVE  ByteLimit(n) \in 0 .. HardCap
BY Limits DEF ByteLimit, Smaller, Larger

LEMMA EmptyCollectorType ==
    ASSUME NEW n \in Nat
    PROVE  /\ EmptyCollector(n) \in CollectorType
           /\ Len(EmptyCollector(n).agg) = 0 /\ EmptyCollector(n).limit \in 0 .. HardCap
<1>1. ByteLimit(n) \in Nat /\ ByteLimit(n) \in 0 .. HardCap
  BY ByteLimitBounds, Limits
<1>2. << >> \in Seq(Units) /\ Len(<< >>) = 0
  OBVIOUS
<1> QED BY <1>1, <1>2 DEF EmptyCollector, CollectorType

\* The first MP4 head, and what follows it.
LEMMA Mp4Cases ==
    ASSUME NEW agg \in Seq(Units)
    PROVE  \/ Mp4(agg) = << >> /\ \A i \in 1 .. Len(agg) : agg[i] # Ftyp
           \/ \E h \in 1 .. Len(agg) :
                /\ agg[h] = Ftyp /\ \A i \in 1 .. h - 1 : agg[i] # Ftyp
                /\ Mp4(agg) = SubSeq(agg, h, Len(agg))
<1> DEFINE heads == {i \in DOMAIN agg : agg[i] = Ftyp}
<1>1. DOMAIN agg = 1 .. Len(agg) /\ Len(agg) \in Nat
  OBVIOUS
<1>2. CASE heads = {}
  BY <1>1, <1>2 DEF Mp4
<1>3. CASE heads # {}
  <2> DEFINE h == CHOOSE i \in heads : \A j \in heads : i <= j
  <2>1. \E i \in heads : \A j \in heads : i <= j
    <3>1. heads \in SUBSET Nat
      BY <1>1
    <3> HIDE DEF heads
    <3> QED BY <1>3, <3>1, LeastOf
  <2>2. h \in heads /\ \A j \in heads : h <= j
    <3> HIDE DEF heads
    <3> QED BY <2>1
  <2>3. Mp4(agg) = SubSeq(agg, h, Len(agg))
    BY <1>3 DEF Mp4
  <2> HIDE DEF h
  <2>4. \A i \in 1 .. h - 1 : agg[i] # Ftyp
    BY <1>1, <2>2
  <2> QED BY <1>1, <2>2, <2>3, <2>4
<1> QED BY <1>2, <1>3

LEMMA Mp4Type ==
    ASSUME NEW agg \in Seq(Units)
    PROVE  /\ Mp4(agg) \in Seq(Units) /\ Len(Mp4(agg)) \in 0 .. Len(agg)
           /\ Mp4(agg) # << >> => Mp4(agg)[1] = Ftyp
<1>1. CASE Mp4(agg) = << >>
  BY <1>1
<1>2. ASSUME NEW h \in 1 .. Len(agg), agg[h] = Ftyp, Mp4(agg) = SubSeq(agg, h, Len(agg))
      PROVE  /\ Mp4(agg) \in Seq(Units) /\ Len(Mp4(agg)) \in 0 .. Len(agg)
             /\ Mp4(agg)[1] = Ftyp
  BY <1>2
<1> QED BY <1>1, <1>2, Mp4Cases

\* The MP4 of a beginning of a stream is a beginning of the stream's MP4.
LEMMA Mp4Prefix ==
    ASSUME NEW stream \in Seq(Units), NEW n \in 0 .. Len(stream)
    PROVE  LET m == Mp4(SubSeq(stream, 1, n)) IN
           Len(m) <= Len(Mp4(stream)) /\ m = SubSeq(Mp4(stream), 1, Len(m))
<1> DEFINE p == SubSeq(stream, 1, n)
<1>1. p \in Seq(Units) /\ Len(p) = n /\ \A i \in 1 .. n : p[i] = stream[i]
  OBVIOUS
<1>2. Mp4(stream) \in Seq(Units) /\ Len(Mp4(stream)) \in Nat
  BY Mp4Type
<1> HIDE DEF p
<1>3. ASSUME Mp4(p) = << >>
      PROVE  Len(Mp4(p)) <= Len(Mp4(stream)) /\ Mp4(p) = SubSeq(Mp4(stream), 1, Len(Mp4(p)))
  <2>1. SubSeq(Mp4(stream), 1, 0) = << >>
    BY <1>2
  <2>2. Len(Mp4(p)) = 0
    BY <1>3
  <2> QED BY <1>2, <1>3, <2>1, <2>2
<1>4. ASSUME NEW h \in 1 .. Len(p), p[h] = Ftyp, \A i \in 1 .. h - 1 : p[i] # Ftyp,
             Mp4(p) = SubSeq(p, h, Len(p))
      PROVE  Len(Mp4(p)) <= Len(Mp4(stream)) /\ Mp4(p) = SubSeq(Mp4(stream), 1, Len(Mp4(p)))
  <2>1. stream[h] = Ftyp /\ (\A i \in 1 .. h - 1 : stream[i] # Ftyp) /\ h \in 1 .. Len(stream)
    BY <1>1, <1>4
  <2>2. PICK g \in 1 .. Len(stream) :
            /\ stream[g] = Ftyp /\ \A i \in 1 .. g - 1 : stream[i] # Ftyp
            /\ Mp4(stream) = SubSeq(stream, g, Len(stream))
    BY <2>1, Mp4Cases
  <2>3. g = h
    <3>1. ~(g < h) /\ ~(h < g)
      BY <2>1, <2>2
    <3> QED BY <3>1
  <2>4. Len(Mp4(p)) = n - h + 1
    BY <1>1, <1>4
  <2>5. Mp4(p) = SubSeq(stream, h, n)
    <3>1. SubSeq(SubSeq(stream, 1, n), h, n) = SubSeq(stream, 1 + h - 1, 1 + n - 1)
      <4>1. 1 \in 1 .. Len(stream) /\ n \in 1 .. Len(stream) /\ h \in 1 .. n - 1 + 1
            /\ n \in 1 .. n - 1 + 1
        BY <1>1, <2>1
      <4> QED BY <4>1, SubSeqOfSubSeq
    <3> QED BY <1>1, <1>4, <3>1 DEF p
  <2>6. SubSeq(SubSeq(stream, h, Len(stream)), 1, n - h + 1) = SubSeq(stream, h, n)
    <3>1. /\ h \in 1 .. Len(stream) /\ Len(stream) \in 1 .. Len(stream)
          /\ 1 \in 1 .. Len(stream) - h + 1 /\ n - h + 1 \in 1 .. Len(stream) - h + 1
          /\ h + 1 - 1 = h /\ h + (n - h + 1) - 1 = n
      BY <1>1, <2>1
    <3> QED BY <3>1, SubSeqOfSubSeq
  <2>7. Len(Mp4(stream)) = Len(stream) - h + 1
    BY <2>1, <2>2, <2>3
  <2> QED BY <1>1, <2>1, <2>2, <2>3, <2>4, <2>5, <2>6, <2>7
<1>5. Len(Mp4(p)) <= Len(Mp4(stream)) /\ Mp4(p) = SubSeq(Mp4(stream), 1, Len(Mp4(p)))
  BY <1>1, <1>3, <1>4, Mp4Cases
<1> QED BY <1>5 DEF p

\* What a frame does to the collector.
Counted(c, f) == c.first # NoCode \/ f.cmd = 13
NewExpected(c, f) == Larger(c.expected, f.size)
NewLimit(c, f) ==
    IF f.cmd = 13 /\ Accepted(f) /\ NewExpected(c, f) > 0
    THEN Larger(c.limit, ByteLimit(NewExpected(c, f))) ELSE c.limit
Room(c, f) == Smaller(Larger(NewLimit(c, f) - Len(c.agg), 0), Len(f.data))
NewAgg(c, f) ==
    IF CarriesData(f) /\ f.data # << >> THEN c.agg \o SubSeq(f.data, 1, Room(c, f)) ELSE c.agg
Matches(c, f) ==
    IF CarriesData(f) /\ f.data # << >> /\ Mp4(NewAgg(c, f)) # << >> /\ NewExpected(c, f) > 0
    THEN Len(Mp4(NewAgg(c, f))) = NewExpected(c, f) ELSE c.match

LEMMA AggregateFields ==
    ASSUME NEW c \in CollectorType, NEW f \in Frames,
           NEW d, d = ResizeLimits(InspectXml(c, f), f)
    PROVE  /\ d \in CollectorType /\ d.limit = NewLimit(c, f)
           /\ d.expected = NewExpected(c, f)
           /\ d.agg = c.agg /\ d.match = c.match /\ d.persisted = c.persisted
           /\ d.failed = c.failed /\ d.first = c.first
<1>1. f.cmd \in Nat /\ f.size \in Nat /\ f.handle \in BOOLEAN
  BY FrameFields
<1> DEFINE x == InspectXml(c, f)
<1>2. x = [c EXCEPT !.expected = NewExpected(c, f), !.handle = @ \/ (f.cmd = 13 /\ f.handle)]
  BY DEF InspectXml, NewExpected
<1>3. NewExpected(c, f) \in Nat
  BY <1>1 DEF NewExpected, Larger, CollectorType
<1>4. /\ x \in CollectorType /\ x.expected = NewExpected(c, f)
      /\ x.agg = c.agg /\ x.match = c.match /\ x.persisted = c.persisted
      /\ x.failed = c.failed /\ x.first = c.first /\ x.limit = c.limit
  BY <1>1, <1>2, <1>3 DEF CollectorType
<1> HIDE DEF x
<1>5. ByteLimit(NewExpected(c, f)) \in Nat
  BY <1>3, ByteLimitBounds, Limits
<1>6. NewLimit(c, f) \in Nat
  BY <1>5 DEF NewLimit, Larger, CollectorType
<1>7. d = IF f.cmd = 13 /\ Accepted(f) /\ NewExpected(c, f) > 0
          THEN [x EXCEPT !.limit = NewLimit(c, f)] ELSE x
  BY <1>4 DEF ResizeLimits, NewLimit, x
<1> QED BY <1>4, <1>6, <1>7 DEF CollectorType, NewLimit

LEMMA RoomType ==
    ASSUME NEW c \in CollectorType, NEW f \in Frames
    PROVE  /\ NewExpected(c, f) \in Nat /\ NewLimit(c, f) \in Nat
           /\ Room(c, f) \in 0 .. Len(f.data) /\ Len(f.data) \in Nat
           /\ NewAgg(c, f) \in Seq(Units)
<1>1. /\ f.size \in Nat /\ f.data \in Seq(Units) /\ Len(f.data) \in Nat
      /\ c.agg \in Seq(Units) /\ Len(c.agg) \in Nat /\ c.limit \in Nat /\ c.expected \in Nat
  BY FrameFields DEF CollectorType
<1>2. NewExpected(c, f) \in Nat
  BY <1>1 DEF NewExpected, Larger
<1>3. NewLimit(c, f) \in Nat
  BY <1>1, <1>2, ByteLimitBounds, Limits DEF NewLimit, Larger
<1>4. Room(c, f) \in 0 .. Len(f.data)
  BY <1>1, <1>3 DEF Room, Smaller, Larger
<1>5. SubSeq(f.data, 1, Room(c, f)) \in Seq(Units)
  BY <1>1, <1>4
<1> QED BY <1>1, <1>2, <1>3, <1>4, <1>5 DEF NewAgg

LEMMA ObserveFields ==
    ASSUME NEW c \in CollectorType, NEW f \in Frames, Counted(c, f)
    PROVE  /\ Observe(c, f) \in CollectorType
           /\ Observe(c, f).agg = NewAgg(c, f)
           /\ Observe(c, f).expected = NewExpected(c, f)
           /\ Observe(c, f).limit = NewLimit(c, f)
           /\ Observe(c, f).match = Matches(c, f)
           /\ Observe(c, f).persisted = c.persisted
           /\ Observe(c, f).failed = c.failed
           /\ Observe(c, f).first # NoCode
<1> DEFINE d == ResizeLimits(InspectXml(c, f), f)
           o == Aggregate(d, f)
<1>1. /\ d \in CollectorType /\ d.limit = NewLimit(c, f) /\ d.expected = NewExpected(c, f)
      /\ d.agg = c.agg /\ d.match = c.match /\ d.persisted = c.persisted
      /\ d.failed = c.failed /\ d.first = c.first
  BY AggregateFields
<1> HIDE DEF d
<1>2. /\ f.code \in Nat /\ f.bytes \in Nat /\ NewAgg(c, f) \in Seq(Units)
  BY FrameFields, RoomType
<1>3. /\ o \in CollectorType /\ o.limit = NewLimit(c, f) /\ o.expected = NewExpected(c, f)
      /\ o.agg = NewAgg(c, f) /\ o.match = Matches(c, f) /\ o.persisted = c.persisted
      /\ o.failed = c.failed /\ o.first = c.first
  <2>1. CASE CarriesData(f) /\ f.data # << >>
    <3> DEFINE agg == NewAgg(c, f)
               counts == Mp4(agg) # << >> /\ NewExpected(c, f) > 0
    <3>1. NewAgg(c, f) =
            d.agg \o SubSeq(f.data, 1, Smaller(Larger(d.limit - Len(d.agg), 0), Len(f.data)))
      BY <1>1, <2>1 DEF NewAgg, Room
    <3>2. o = [d EXCEPT !.agg = agg,
                        !.reached = IF counts THEN Len(Mp4(agg)) >= d.expected ELSE @,
                        !.match = IF counts THEN Len(Mp4(agg)) = d.expected ELSE @]
      BY <1>1, <2>1, <3>1 DEF Aggregate, CarriesData
    <3>3. Matches(c, f) = IF counts THEN Len(Mp4(agg)) = d.expected ELSE d.match
      BY <1>1, <2>1 DEF Matches
    <3> HIDE DEF agg, counts
    <3>4. (IF counts THEN Len(Mp4(agg)) >= d.expected ELSE d.reached) \in BOOLEAN
      <4>1. d.reached \in BOOLEAN /\ d.expected \in Nat
        BY <1>1 DEF CollectorType
      <4>2. agg \in Seq(Units)
        BY <1>2 DEF agg
      <4>3. Len(Mp4(agg)) \in Nat
        BY <4>2, Mp4Type
      <4>4. (Len(Mp4(agg)) >= d.expected) \in BOOLEAN
        BY <4>1, <4>3
      <4> QED BY <4>1, <4>4, Zenon
    <3>5. (IF counts THEN Len(Mp4(agg)) = d.expected ELSE d.match) \in BOOLEAN
      BY <1>1 DEF CollectorType
    <3>6. agg \in Seq(Units)
      BY <1>2 DEF agg
    <3> HIDE DEF o
    <3>7. o \in CollectorType /\ o.agg = agg
      BY <1>1, <3>2, <3>4, <3>5, <3>6 DEF CollectorType
    <3>8. o.match = (IF counts THEN Len(Mp4(agg)) = d.expected ELSE d.match)
      BY <1>1, <3>2 DEF CollectorType
    <3>9. /\ o.limit = d.limit /\ o.expected = d.expected /\ o.persisted = d.persisted
          /\ o.failed = d.failed /\ o.first = d.first
      BY <1>1, <3>2 DEF CollectorType
    <3> QED BY <1>1, <3>3, <3>7, <3>8, <3>9 DEF agg
  <2>2. CASE ~(CarriesData(f) /\ f.data # << >>)
    <3>1. o = d
      BY <2>2 DEF Aggregate, CarriesData
    <3> HIDE DEF o
    <3>2. NewAgg(c, f) = c.agg /\ Matches(c, f) = c.match
      BY <2>2 DEF NewAgg, Matches
    <3> QED BY <1>1, <3>1, <3>2
  <2> QED BY <2>1, <2>2
<1> HIDE DEF o
<1>4. ~(c.first = NoCode /\ f.cmd # 13)
  BY DEF Counted
<1> DEFINE first == IF o.first = NoCode THEN f.code ELSE o.first
           stop == \/ o.stop \/ ~Accepted(f)
                   \/ o.bytes + f.bytes >= o.limit
                   \/ o.frames + 1 >= FrameLimit(o.limit)
<1>5. Observe(c, f) = [o EXCEPT !.first = first, !.bytes = @ + f.bytes, !.frames = @ + 1,
                                !.stop = stop]
  BY <1>4 DEF Observe, o, d
<1>6. first \in Nat /\ first # NoCode
  BY <1>2, <1>3 DEF CollectorType, NoCode
<1>7. stop \in BOOLEAN
  BY Zenon
<1>8. o.bytes + f.bytes \in Nat /\ o.frames + 1 \in Nat
  <2>1. o.bytes \in Nat /\ o.frames \in Nat
    BY <1>3, Zenon DEF CollectorType
  <2> QED BY <1>2, <2>1
<1> HIDE DEF first, stop
<1> QED BY <1>3, <1>5, <1>6, <1>7, <1>8 DEF CollectorType

-----------------------------------------------------------------------------
(* What the transfer keeps.                                                *)

StreamType ==
    /\ source \in Scripts \union {<< >>} /\ delivered \in Seq(Frames) /\ open \in BOOLEAN
    /\ Len(delivered) <= Len(source)

ControlType ==
    /\ pc \in {"idle", "answer", "stream", "flush", "verify", "rename", "directory"}
    /\ pc # "idle" => rec \in Recordings /\ source \in ScriptsOf[rec]
    /\ rec \in Recordings \union {NoRecording} /\ full \in BOOLEAN

DiskType ==
    /\ part \in [Names -> FileType] /\ final \in [Names -> FileType]
    /\ undo \in [Names -> Seq(FileType)] /\ saved \subseteq Names

CollectType == collector \in CollectorType /\ Limited /\ (pc = "stream" => collector.first # NoCode)

VInv == StreamType /\ ControlType /\ DiskType /\ CollectType

LEMMA NoFiles ==
    /\ NoFile \in FileType /\ LeftOver \in FileType
    /\ \A data \in Seq(Units), state \in {"buffered", "written", "synced"} :
            [data |-> data, state |-> state] \in FileType
BY DEF NoFile, LeftOver, FileType

LEMMA NameType == ASSUME VInv, pc # "idle" PROVE name \in Names
BY DEF VInv, ControlType, Names, name

\* The next frame; the collector while it arrives.
LEMMA NextFrame ==
    ASSUME VInv, pc # "idle", Len(delivered) < Len(source)
    PROVE  /\ source \in Seq(Frames) /\ source \in ScriptsOf[rec]
           /\ Len(delivered) \in Nat /\ Len(delivered) + 1 \in 1 .. Len(source)
           /\ source[Len(delivered) + 1] \in Frames
<1>1. source \in ScriptsOf[rec] /\ rec \in Recordings
  BY DEF VInv, ControlType
<1>2. source \in Seq(Frames)
  BY <1>1, Limits
<1>3. Len(delivered) \in Nat /\ Len(delivered) + 1 \in 1 .. Len(source)
  BY <1>2 DEF VInv, StreamType
<1> QED BY <1>1, <1>2, <1>3

\* The limit never falls, stays below the cap, and what is aggregated fits in it.
LEMMA LimitGrows ==
    ASSUME NEW c \in CollectorType, NEW f \in Frames, Len(c.agg) <= c.limit, c.limit <= HardCap
    PROVE  /\ NewLimit(c, f) >= c.limit /\ NewLimit(c, f) <= HardCap
           /\ Len(NewAgg(c, f)) <= NewLimit(c, f)
           /\ f.cmd # 13 => NewLimit(c, f) = c.limit
<1>1. /\ NewExpected(c, f) \in Nat /\ NewLimit(c, f) \in Nat
      /\ Room(c, f) \in 0 .. Len(f.data) /\ Len(f.data) \in Nat /\ f.data \in Seq(Units)
      /\ c.agg \in Seq(Units) /\ Len(c.agg) \in Nat /\ c.limit \in Nat /\ HardCap \in Nat
  BY RoomType, FrameFields, Limits DEF CollectorType
<1>2. ByteLimit(NewExpected(c, f)) \in 0 .. HardCap
  BY <1>1, ByteLimitBounds
<1>3. NewLimit(c, f) >= c.limit /\ NewLimit(c, f) <= HardCap
  BY <1>1, <1>2 DEF NewLimit, Larger
<1>4. Len(c.agg) + Room(c, f) <= NewLimit(c, f)
  BY <1>1, <1>3 DEF Room, Smaller, Larger
<1>5. Len(c.agg \o SubSeq(f.data, 1, Room(c, f))) = Len(c.agg) + Room(c, f)
  <2>1. /\ Len(SubSeq(f.data, 1, Room(c, f))) = Room(c, f)
        /\ SubSeq(f.data, 1, Room(c, f)) \in Seq(Units)
    BY <1>1
  <2> QED BY <1>1, <2>1
<1>6. Len(NewAgg(c, f)) <= NewLimit(c, f)
  BY <1>1, <1>3, <1>4, <1>5 DEF NewAgg
<1> QED BY <1>3, <1>6 DEF NewLimit

LEMMA ObserveType ==
    ASSUME NEW c \in CollectorType, NEW f \in Frames, Len(c.agg) <= c.limit, c.limit <= HardCap,
           NEW o, o = Observe(c, f)
    PROVE  /\ o \in CollectorType /\ Len(o.agg) <= o.limit /\ o.limit <= HardCap
           /\ c.first # NoCode => o.first # NoCode
           /\ o.persisted = c.persisted /\ o.failed = c.failed
<1>1. CASE Counted(c, f)
  BY <1>1, ObserveFields, LimitGrows
<1>2. CASE ~Counted(c, f)
  <2>1. o = c
    BY <1>2 DEF Observe, Counted
  <2> QED BY <2>1
<1> QED BY <1>1, <1>2

\* The next frame, the collector that observed it, and what is then to be written.
Frame == source[Len(delivered) + 1]
Observed == Observe(collector, Frame)
New == SubSeq(Mp4(Observed.agg), Observed.persisted + 1, Len(Mp4(Observed.agg)))

\* A frame either leaves the files alone or appends to the .part file what is new.
LEMMA FrameStep ==
    ASSUME VInv, FrameArrives
    PROVE  /\ Frame \in Frames /\ Observed \in CollectorType /\ New \in Seq(Units) /\ name \in Names
           /\ pc \in Collecting /\ (Frame.cmd = 8 => pc = "stream")
           /\ delivered' = SubSeq(source, 1, Len(delivered) + 1)
           /\ Len(delivered') = Len(delivered) + 1
           /\ UNCHANGED <<source, open, pc, rec, final, undo, full, saved>>
           /\ \/ /\ ~(CarriesData(Frame) /\ New # << >>) /\ collector' = Observed /\ part' = part
              \/ /\ CarriesData(Frame) /\ New # << >>
                 /\ collector' = [Observed EXCEPT !.persisted = @ + Len(New)]
                 /\ \E state \in {"buffered", "written"} :
                       part' = [part EXCEPT ![name] = [data |-> @.data \o New, state |-> state]]
              \/ /\ CarriesData(Frame) /\ New # << >>
                 /\ collector' = [Observed EXCEPT !.failed = TRUE]
                 /\ \E k \in 0 .. Len(New) - 1 :
                       part' = [part EXCEPT ![name] =
                                   [data |-> @.data \o SubSeq(New, 1, k), state |-> "buffered"]]
<1>1. pc \in Collecting /\ Len(delivered) < Len(source) /\ pc # "idle"
  BY DEF FrameArrives, Collecting
<1>2. /\ Frame \in Frames /\ source \in Seq(Frames) /\ Len(delivered) \in Nat
      /\ Len(delivered) + 1 \in 1 .. Len(source)
  BY <1>1, NextFrame DEF Frame
<1>3. Observed \in CollectorType
  BY <1>2, ObserveType DEF Observed, VInv, CollectType, Limited
<1>4. Mp4(Observed.agg) \in Seq(Units)
  BY <1>3, Mp4Type DEF CollectorType
<1>5. New \in Seq(Units)
  <2>1. Observed.persisted \in Nat
    BY <1>3 DEF CollectorType
  <2> QED BY <1>4, <2>1 DEF New
<1>6. /\ Frame.cmd = 8 => pc = "stream"
      /\ DeliverUpTo(Len(delivered) + 1)
      /\ IF CarriesData(Frame) /\ New # << >> THEN Persist(Observed, New)
         ELSE collector' = Observed /\ part' = part
      /\ UNCHANGED <<pc, rec, final, undo, full, saved>>
  BY DEF FrameArrives, CarriesData, Frame, Observed, New
<1>7. /\ delivered' = SubSeq(source, 1, Len(delivered) + 1)
      /\ Len(delivered') = Len(delivered) + 1 /\ UNCHANGED <<source, open>>
  BY <1>2, <1>6 DEF DeliverUpTo, Prefix
<1>8. name \in Names
  BY <1>1, NameType
<1>9. Persist(Observed, New) =>
        \/ /\ collector' = [Observed EXCEPT !.persisted = @ + Len(New)]
           /\ \E state \in {"buffered", "written"} :
                 part' = [part EXCEPT ![name] = [data |-> @.data \o New, state |-> state]]
        \/ /\ collector' = [Observed EXCEPT !.failed = TRUE]
           /\ \E k \in 0 .. Len(New) - 1 :
                 part' = [part EXCEPT ![name] =
                             [data |-> @.data \o SubSeq(New, 1, k), state |-> "buffered"]]
  BY DEF Persist
<1> QED BY <1>1, <1>2, <1>3, <1>5, <1>6, <1>7, <1>8, <1>9

LEMMA FrameTyped ==
    ASSUME VInv, FrameArrives
    PROVE  VInv'
<1>1. /\ Frame \in Frames /\ Observed \in CollectorType /\ New \in Seq(Units) /\ name \in Names
      /\ pc \in Collecting
      /\ delivered' = SubSeq(source, 1, Len(delivered) + 1) /\ Len(delivered') = Len(delivered) + 1
      /\ UNCHANGED <<source, open, pc, rec, final, undo, full, saved>>
      /\ \/ collector' = Observed /\ part' = part
         \/ /\ collector' = [Observed EXCEPT !.persisted = @ + Len(New)]
            /\ \E state \in {"buffered", "written"} :
                  part' = [part EXCEPT ![name] = [data |-> @.data \o New, state |-> state]]
         \/ /\ collector' = [Observed EXCEPT !.failed = TRUE]
            /\ \E k \in 0 .. Len(New) - 1 :
                  part' = [part EXCEPT ![name] =
                              [data |-> @.data \o SubSeq(New, 1, k), state |-> "buffered"]]
  BY FrameStep
<1>2. /\ Len(Observed.agg) <= Observed.limit /\ Observed.limit <= HardCap
      /\ collector.first # NoCode => Observed.first # NoCode
  BY <1>1, ObserveType DEF Observed, VInv, CollectType, Limited
<1>3. Len(delivered) < Len(source) /\ pc # "idle"
  BY DEF FrameArrives, Collecting
<1>4. StreamType'
  <2>1. source \in Seq(Frames) /\ Len(delivered) \in Nat /\ Len(delivered) + 1 \in 1 .. Len(source)
    BY <1>3, NextFrame
  <2>2. delivered' \in Seq(Frames)
    BY <1>1, <2>1
  <2> QED BY <1>1, <2>1, <2>2 DEF VInv, StreamType
<1>5. ControlType'
  BY <1>1 DEF VInv, ControlType
<1>6. DiskType'
  <2>1. part \in [Names -> FileType] /\ part[name].data \in Seq(Units)
    BY <1>1 DEF VInv, DiskType, FileType
  <2>2. Len(New) \in Nat
    BY <1>1
  <2>3. part' \in [Names -> FileType]
    <3>1. ASSUME NEW state \in {"buffered", "written"},
                 part' = [part EXCEPT ![name] = [data |-> @.data \o New, state |-> state]]
          PROVE  part' \in [Names -> FileType]
      <4>1. part[name].data \o New \in Seq(Units)
        BY <1>1, <2>1
      <4>2. [data |-> part[name].data \o New, state |-> state] \in FileType
        BY <4>1, NoFiles
      <4> QED BY <2>1, <3>1, <4>2
    <3>2. ASSUME NEW k \in 0 .. Len(New) - 1,
                 part' = [part EXCEPT ![name] =
                             [data |-> @.data \o SubSeq(New, 1, k), state |-> "buffered"]]
          PROVE  part' \in [Names -> FileType]
      <4>1. SubSeq(New, 1, k) \in Seq(Units)
        BY <1>1, <2>2
      <4>2. part[name].data \o SubSeq(New, 1, k) \in Seq(Units)
        BY <2>1, <4>1
      <4>3. [data |-> part[name].data \o SubSeq(New, 1, k), state |-> "buffered"] \in FileType
        BY <4>2, NoFiles
      <4> QED BY <2>1, <3>2, <4>3
    <3> QED BY <1>1, <2>1, <3>1, <3>2
  <2> QED BY <1>1, <2>3 DEF VInv, DiskType
<1>7. CollectType'
  <2>1. Len(New) \in Nat /\ Observed.persisted \in Nat
    BY <1>1 DEF CollectorType
  <2>2. /\ collector' \in CollectorType /\ collector'.agg = Observed.agg
        /\ collector'.limit = Observed.limit /\ collector'.first = Observed.first
    <3>1. \/ collector' = Observed
          \/ collector' = [Observed EXCEPT !.persisted = Observed.persisted + Len(New)]
          \/ collector' = [Observed EXCEPT !.failed = TRUE]
      BY <1>1
    <3>2. Observed \in CollectorType /\ Observed.persisted + Len(New) \in Nat
      BY <1>1, <2>1
    <3> QED BY <3>1, <3>2 DEF CollectorType
  <2> QED BY <1>1, <1>2, <2>2 DEF VInv, CollectType, Limited
<1> QED BY <1>4, <1>5, <1>6, <1>7 DEF VInv

LEMMA ForgottenType ==
    ASSUME VInv, ForgetStream, pc' = "idle", open' = FALSE
    PROVE  StreamType' /\ ControlType' /\ CollectType'
<1>1. 0 \in Nat /\ << >> \in Seq(Frames) /\ Len(<< >>) = 0
  OBVIOUS
<1>2. /\ EmptyCollector(0) \in CollectorType
      /\ Len(EmptyCollector(0).agg) = 0 /\ EmptyCollector(0).limit \in 0 .. HardCap
  BY EmptyCollectorType
<1>3. HardCap \in Nat
  BY Limits
<1>4. StreamType' /\ ControlType'
  <2>1. StreamType'
    <3>1. source' = << >> /\ delivered' = << >> /\ open' \in BOOLEAN
      BY DEF ForgetStream
    <3>2. Len(delivered') <= Len(source')
      BY <1>1, <3>1
    <3> QED BY <1>1, <3>1, <3>2 DEF StreamType
  <2>2. ControlType'
    BY DEF ForgetStream, ControlType
  <2> QED BY <2>1, <2>2
<1>5. CollectType'
  BY <1>2, <1>3 DEF ForgetStream, CollectType, Limited
<1> QED BY <1>4, <1>5

LEMMA BeginTyped ==
    ASSUME VInv, NEW r \in Recordings, Begin(r)
    PROVE  VInv'
<1>1. PICK size \in {0, Len(Content[r])} : collector' = EmptyCollector(size)
  BY DEF Begin
<1>2. size \in Nat
  BY Limits
<1>3. CollectType'
  <2>1. /\ EmptyCollector(size) \in CollectorType
        /\ Len(EmptyCollector(size).agg) = 0 /\ EmptyCollector(size).limit \in 0 .. HardCap
    BY <1>2, EmptyCollectorType
  <2>2. HardCap \in Nat
    BY Limits
  <2> QED BY <1>1, <2>1, <2>2 DEF CollectType, Limited, Begin
<1>4. StreamType'
  <2>1. source' \in Scripts /\ source' \in Seq(Frames)
    BY DownloadAssumption, Limits DEF Begin
  <2> QED BY <2>1 DEF Begin, StreamType
<1>5. ControlType'
  BY DEF Begin, ControlType
<1>6. DiskType'
  <2>1. NameOf[r] \in Names /\ [data |-> << >>, state |-> "written"] \in FileType
    <3>1. << >> \in Seq(Units)
      OBVIOUS
    <3> QED BY <3>1, NoFiles DEF Names
  <2> QED BY <2>1 DEF Begin, VInv, DiskType
<1> QED BY <1>3, <1>4, <1>5, <1>6 DEF VInv

LEMMA SimpleTyped ==
    ASSUME VInv, \/ Answered \/ StopCollecting \/ StreamTimeout \/ Disconnect \/ DiskChanges
                 \/ UNCHANGED vars
    PROVE  VInv'
<1>1. StreamType'
  BY DEF VInv, StreamType, Answered, StopCollecting, StreamTimeout, Disconnect, DiskChanges,
     Close, streamVars, vars
<1>2. ControlType'
  <2>1. UNCHANGED <<rec, source>>
    BY DEF Answered, StopCollecting, StreamTimeout, Disconnect, DiskChanges, Close, streamVars,
       vars
  <2>2. full' \in BOOLEAN
    <3>1. full \in BOOLEAN
      BY DEF VInv, ControlType
    <3> QED BY <3>1, Zenon
            DEF Answered, StopCollecting, StreamTimeout, Disconnect, DiskChanges, vars
  <2>3. pc' = pc \/ (pc \in Collecting /\ pc' \in {"stream", "flush"})
    BY DEF Answered, StopCollecting, StreamTimeout, Disconnect, DiskChanges, vars, Collecting
  <2> QED BY <2>1, <2>2, <2>3 DEF VInv, ControlType, Collecting
<1>3. DiskType'
  <2>1. UNCHANGED <<part, final, undo, saved>>
    BY DEF Answered, StopCollecting, StreamTimeout, Disconnect, DiskChanges, fileVars, vars
  <2> QED BY <2>1 DEF VInv, DiskType
<1>4. CollectType'
  <2>1. CASE collector' = collector /\ (pc' = "stream" => collector.first # NoCode)
    BY <2>1 DEF VInv, CollectType, Limited
  <2>2. CASE Disconnect
    <3>1. /\ collector' \in CollectorType /\ collector'.agg = collector.agg
          /\ collector'.limit = collector.limit /\ collector'.first = collector.first /\ pc' = pc
      BY <2>2 DEF Disconnect, VInv, CollectType, CollectorType
    <3> QED BY <3>1 DEF VInv, CollectType, Limited
  <2>3. ~Disconnect => collector' = collector /\ (pc' = "stream" => collector.first # NoCode)
    BY DEF Answered, StopCollecting, StreamTimeout, DiskChanges, vars, VInv, CollectType
  <2> QED BY <2>1, <2>2, <2>3
<1> QED BY <1>1, <1>2, <1>3, <1>4 DEF VInv

LEMMA AbandonTyped == ASSUME VInv, pc # "idle", Abandon PROVE VInv'
<1>1. name \in Names
  BY NameType
<1>2. DiskType'
  BY <1>1, NoFiles DEF Abandon, VInv, DiskType
<1>3. ForgetStream /\ pc' = "idle" /\ open' = FALSE
  BY DEF Abandon
<1> QED BY <1>2, <1>3, ForgottenType DEF VInv

LEMMA FinalizeTyped ==
    ASSUME VInv, Flush \/ Verify \/ Rename \/ SyncDirectory
    PROVE  VInv'
<1>1. pc \notin {"idle", "answer", "stream"}
  BY DEF Flush, Verify, Rename, SyncDirectory
<1>2. name \in Names /\ rec \in Recordings
  BY <1>1, NameType DEF VInv, ControlType
<1>3. DiskType
  BY DEF VInv
<1>4. CASE Flush
  <2>1. CASE Abandon
    BY <1>1, <2>1, AbandonTyped
  <2>2. CASE ~Abandon
    <3>1. /\ part' = [part EXCEPT ![name].state = "synced"] /\ pc' = "verify"
          /\ UNCHANGED <<streamVars, rec, collector, final, undo, full, saved>>
      BY <1>4, <2>2 DEF Flush
    <3>2. [part[name] EXCEPT !.state = "synced"] \in FileType
      BY <1>2, <1>3 DEF DiskType, FileType
    <3>3. DiskType'
      BY <1>2, <1>3, <3>1, <3>2 DEF DiskType
    <3> QED BY <1>1, <3>1, <3>3
            DEF VInv, StreamType, streamVars, ControlType, CollectType, Limited
  <2> QED BY <2>1, <2>2
<1>5. CASE Verify
  <2>1. CASE pc' = "rename" /\ UNCHANGED <<part, streamVars, rec, collector, full>>
    BY <1>1, <1>3, <1>5, <2>1
    DEF Verify, VInv, DiskType, StreamType, streamVars, ControlType, CollectType, Limited
  <2>2. CASE /\ pc' = "idle" /\ part' = [part EXCEPT ![name] = NoFile]
             /\ ForgetStream /\ open' = FALSE
    <3>1. DiskType'
      BY <1>2, <1>3, <1>5, <2>2, NoFiles DEF Verify, DiskType
    <3> QED BY <2>2, <3>1, ForgottenType DEF VInv
  <2> QED BY <1>5, <2>1, <2>2 DEF Verify
<1>6. CASE Rename
  <2>1. DiskType'
    <3>1. part' \in [Names -> FileType] /\ final' \in [Names -> FileType] /\ saved' \subseteq Names
      BY <1>2, <1>3, <1>6, NoFiles DEF Rename, DiskType
    <3>2. <<final[name]>> \in Seq(FileType)
      BY <1>2, <1>3 DEF DiskType
    <3>3. undo' \in [Names -> Seq(FileType)]
      BY <1>2, <1>3, <1>6, <3>2 DEF Rename, DiskType
    <3> QED BY <3>1, <3>3 DEF DiskType
  <2> QED BY <1>1, <1>6, <2>1
          DEF Rename, VInv, StreamType, streamVars, ControlType, CollectType, Limited
<1>7. CASE SyncDirectory
  <2>1. DiskType'
    <3>1. << >> \in Seq(FileType)
      OBVIOUS
    <3>2. undo' \in [Names -> Seq(FileType)]
      BY <1>3, <1>7, <3>1 DEF SyncDirectory, DiskType
    <3> QED BY <1>2, <1>3, <1>7, <3>2 DEF SyncDirectory, DiskType
  <2>2. ForgetStream /\ pc' = "idle" /\ open' = FALSE
    BY <1>7 DEF SyncDirectory
  <2> QED BY <2>1, <2>2, ForgottenType DEF VInv
<1> QED BY <1>4, <1>5, <1>6, <1>7

LEMMA CrashTyped == ASSUME VInv, Crash PROVE VInv'
<1> DEFINE Shortened(file, k) ==
              IF file.state \in {"none", "synced"} THEN file
              ELSE [data |-> SubSeq(file.data, 1, Len(file.data) - k), state |-> "synced"]
<1>1. PICK k \in 0 .. 1, undone \in SUBSET {n \in Names : undo[n] # << >>} :
        /\ final' = [n \in Names |-> IF n \in undone THEN undo[n][1] ELSE Shortened(final[n], k)]
        /\ part' = [n \in Names |-> IF n \in undone \/ part[n] # NoFile THEN LeftOver
                                    ELSE NoFile]
  BY DEF Crash
<1>2. DiskType
  BY DEF VInv
<1>3. ASSUME NEW file \in FileType PROVE Shortened(file, k) \in FileType
  <2>1. file.data \in Seq(Units) /\ Len(file.data) \in Nat
    BY <1>3 DEF FileType
  <2>2. SubSeq(file.data, 1, Len(file.data) - k) \in Seq(Units)
    BY <2>1
  <2> QED BY <1>3, <2>2, NoFiles
<1> HIDE DEF Shortened
<1>4. ASSUME NEW n \in undone PROVE undo[n][1] \in FileType
  <2>1. undo[n] \in Seq(FileType) /\ undo[n] # << >>
    BY <1>1, <1>2 DEF DiskType
  <2> QED BY <2>1
<1>5. final' \in [Names -> FileType]
  BY <1>1, <1>2, <1>3, <1>4 DEF DiskType
<1>6. part' \in [Names -> FileType]
  BY <1>1, NoFiles
<1>7. undo' \in [Names -> Seq(FileType)]
  <2>1. << >> \in Seq(FileType)
    OBVIOUS
  <2> QED BY <2>1 DEF Crash
<1>8. DiskType'
  BY <1>2, <1>5, <1>6, <1>7 DEF DiskType, Crash
<1>9. ForgetStream /\ pc' = "idle" /\ open' = FALSE
  BY DEF Crash
<1> QED BY <1>8, <1>9, ForgottenType DEF VInv

LEMMA TransferTyped ==
    ASSUME VInv, [Next]_vars
    PROVE  VInv'
<1>1. CASE Raise
  BY <1>1, AbandonTyped DEF Raise, Collecting
<1> QED BY <1>1, BeginTyped, FrameTyped, SimpleTyped, FinalizeTyped, CrashTyped
        DEF Next, Session

LEMMA TransferInitially == Init => VInv
<1> SUFFICES ASSUME Init PROVE VInv
  OBVIOUS
<1>1. << >> \in Seq(Frames) /\ << >> \in Seq(FileType) /\ Len(<< >>) = 0 /\ 0 \in Nat
  OBVIOUS
<1>2. /\ EmptyCollector(0) \in CollectorType
      /\ Len(EmptyCollector(0).agg) = 0 /\ EmptyCollector(0).limit \in 0 .. HardCap
  BY <1>1, EmptyCollectorType
<1>3. HardCap \in Nat
  BY Limits
<1>4. CollectType
  BY <1>2, <1>3 DEF Init, CollectType, Limited
<1>5. DiskType
  BY <1>1, NoFiles DEF Init, DiskType
<1>6. StreamType /\ ControlType
  <2>1. StreamType
    <3>1. source = << >> /\ delivered = << >> /\ open \in BOOLEAN
      BY DEF Init
    <3>2. Len(delivered) <= Len(source)
      BY <1>1, <3>1
    <3> QED BY <1>1, <3>1, <3>2 DEF StreamType
  <2>2. ControlType
    BY DEF Init, ControlType
  <2> QED BY <2>1, <2>2
<1> QED BY <1>4, <1>5, <1>6 DEF VInv

-----------------------------------------------------------------------------
Together == (pc # "idle") <=> (stage = "transfer")

AInv == LInv /\ VInv /\ Together

LEMMA AInitially == DownloadInit => AInv
<1> SUFFICES ASSUME DownloadInit PROVE AInv
  OBVIOUS
<1>1. Together
  BY DEF DownloadInit, Init, SessionInit, Together
<1> QED BY <1>1, ListInitially, TransferInitially DEF DownloadInit, AInv

LEMMA TogetherStep ==
    ASSUME AInv, [DownloadNext]_allVars
    PROVE  Together'
<1>1. CASE SessionStep /\ UNCHANGED vars
  <2>1. stage # "transfer" /\ stage' # "transfer"
    BY <1>1 DEF SessionStep, Goto, Fail, Forget, ListStep, Resolve, RouteFails, Adopt, Connect,
       Login, Query, OpenList, GetPage, PageFails, CloseList, Logout, CloseConnection,
       ReleaseLease
  <2> QED BY <1>1, <2>1 DEF AInv, Together, vars
<1>2. CASE SelectAndBegin
  <2>1. stage = "select" /\ pc = "idle"
    BY <1>2 DEF SelectAndBegin, Select, AInv, Together
  <2> QED BY <1>2, <2>1 DEF SelectAndBegin, Begin, Together, vars
<1>3. CASE Transfer
  <2>1. stage = "transfer" /\ stage' = stage /\ pc' # "idle"
    BY <1>3 DEF Transfer, sessionVars, FrameArrives, Answered, StopCollecting, StreamTimeout,
       Rename, Collecting
  <2> QED BY <2>1 DEF Together
<1>4. CASE TransferDone
  BY <1>4 DEF TransferDone, TransferReturns, TransferRaises, Goto, Fail, Together
<1>5. CASE (StartSession \/ OrphanReturns \/ Cancel \/ SendersStop) /\ UNCHANGED vars
  <2>1. (stage' = "transfer") <=> (stage = "transfer")
    BY <1>5 DEF StartSession, OrphanReturns, Cancel, SendersStop, Goto, Fail
  <2> QED BY <1>5, <2>1 DEF AInv, Together, vars
<1>6. CASE DiskChanges /\ UNCHANGED sessionVars
  BY <1>6 DEF DiskChanges, sessionVars, AInv, Together
<1>7. CASE Lost
  BY <1>7 DEF Lost, ConnectionLost, Disconnect, vars, AInv, Together
<1>8. CASE PowerLoss
  BY <1>8 DEF PowerLoss, Crash, Together
<1>9. CASE UNCHANGED allVars
  BY <1>9 DEF allVars, vars, sessionVars, AInv, Together
<1> QED BY <1>1, <1>2, <1>3, <1>4, <1>5, <1>6, <1>7, <1>8, <1>9
        DEF DownloadNext, Progress, Environment

\* Every step of a download is a step of the transfer, or leaves it alone.
LEMMA TransferSteps ==
    ASSUME LInv, LInv', [DownloadNext]_allVars
    PROVE  [Next]_vars
<1>1. CASE SelectAndBegin
  <2>1. CASE stage' = "transfer"
    <3>1. candidate' \in Recordings
      BY <2>1 DEF LInv, ListInv
    <3>2. Begin(candidate')
      BY <1>1, <2>1 DEF SelectAndBegin
    <3> QED BY <3>1, <3>2 DEF Next, Session
  <2>2. CASE stage' # "transfer"
    BY <1>1, <2>2 DEF SelectAndBegin
  <2> QED BY <2>1, <2>2
<1>2. CASE Transfer
  BY <1>2 DEF Transfer, Next, Session
<1>3. CASE TransferDone
  BY <1>3 DEF TransferDone, Next, Session
<1>4. CASE Lost \/ PowerLoss \/ DiskChanges
  BY <1>4 DEF Lost, PowerLoss, Next
<1>5. CASE UNCHANGED vars
  BY <1>5
<1> QED BY <1>1, <1>2, <1>3, <1>4, <1>5 DEF DownloadNext, Progress, Environment, allVars

LEMMA AStep ==
    ASSUME AInv, [DownloadNext]_allVars
    PROVE  AInv'
<1>1. LInv'
  BY ListPreserves DEF AInv
<1>2. VInv'
  BY <1>1, TransferSteps, TransferTyped DEF AInv
<1> QED BY <1>1, <1>2, TogetherStep DEF AInv

\* In every state of a download, cancelled, failed or interrupted by a power loss, its
\* variables have their types, the aggregate is within the limit and the limit within
\* VERIFIED_FILE_HARD_CAP_BYTES, and a transfer runs exactly in its stage of the session.
THEOREM DownloadTyping == DownloadSpec => []DownloadTypeOK
<1>1. AInv => DownloadTypeOK
  BY DEF AInv, LInv, VInv, StreamType, ControlType, DiskType, CollectType, Limited, Together,
     DownloadTypeOK, TypeOK
<1> QED BY <1>1, AInitially, AStep, PTL DEF DownloadSpec

\* The downloads with their camera sessions are downloads as VerifiedDownload specifies
\* them, so that what is proved of these holds of async_prepare_download_for_event.
THEOREM TransfersAreSpecified == DownloadSpec => Spec
<1>1. DownloadInit => Init
  BY DEF DownloadInit
<1>2. AInv /\ AInv' /\ [DownloadNext]_allVars => [Next]_vars
  BY TransferSteps DEF AInv
<1> QED BY <1>1, <1>2, AInitially, AStep, PTL DEF DownloadSpec, Spec

-----------------------------------------------------------------------------
(* The whole file.                                                         *)

\* What the cameras are relied on for.
TrueCameras ==
    \A r \in Recordings : \A s \in ScriptsOf[r] : \E stream, at :
        Honest(r, s, stream, at) /\ (s \in WholeScripts => SendsAll(r, s, stream, at))

Count == Len(delivered)

\* The aggregate is the beginning of the stream, cut off at the limit.
Begins(agg, limit, stream, sent) ==
    agg = SubSeq(stream, 1, Len(agg)) /\ Len(agg) = Smaller(sent, limit)

Gathered(stream, at) ==
    /\ Begins(collector.agg, collector.limit, stream, at[Count + 1])
    /\ collector.expected \in {0} \union {source[i].size : i \in 1 .. Count}

\* The .part file holds what was persisted, unless a write failed in the middle; then it
\* holds more than was counted.
Holds(data, M, p) == Len(data) >= p /\ (Len(data) = p => data = SubSeq(M, 1, p))

Persisted(stream) ==
    LET data == part[name].data IN
    /\ collector.persisted <= Len(Mp4(collector.agg))
    /\ Holds(data, Mp4(stream), collector.persisted)
    /\ ~collector.failed =>
          collector.persisted = Len(Mp4(collector.agg)) /\ Len(data) = collector.persisted

\* All of the recording finds room, and the match is noticed with the last chunk.
Fits(stream) ==
    Count > 0 =>
        /\ collector.expected = Len(Content[rec]) /\ Len(stream) <= collector.limit
        /\ Len(Mp4(collector.agg)) = collector.expected => collector.match

Transferring(stream, at) ==
    /\ Honest(rec, source, stream, at) /\ Gathered(stream, at) /\ Persisted(stream)
    /\ source \in WholeScripts => SendsAll(rec, source, stream, at) /\ Fits(stream)

LEMMA HonestStream ==
    ASSUME NEW r, NEW s \in Seq(Frames), NEW stream, NEW at, Honest(r, s, stream, at)
    PROVE  stream \in Seq(Units) /\ Len(stream) \in Nat /\ at[1] = 0
<1>1. stream \in Seq(Units) /\ at[1] = 0
  BY DEF Honest
<1> QED BY <1>1, LenProperties

LEMMA HonestAt ==
    ASSUME NEW r, NEW s \in Seq(Frames), NEW stream, NEW at, Honest(r, s, stream, at),
           NEW i \in 1 .. Len(s) + 1
    PROVE  at[i] \in 0 .. Len(stream)
BY DEF Honest

\* Frame f sends what lies between a and b.
Sends(f, stream, a, b) ==
    /\ f.cmd = 13 => a = 0
    /\ CarriesData(f) => b = a + Len(f.data) /\ f.data = SubSeq(stream, a + 1, b)
    /\ ~CarriesData(f) => b = a

LEMMA HonestFrame ==
    ASSUME NEW r, NEW s \in Seq(Frames), NEW stream, NEW at, Honest(r, s, stream, at),
           NEW i \in 1 .. Len(s)
    PROVE  Sends(s[i], stream, at[i], at[i + 1])
<1>1. DOMAIN s = 1 .. Len(s)
  OBVIOUS
<1>2. /\ s[i].cmd = 13 => i = 1
      /\ CarriesData(s[i]) => /\ at[i + 1] = at[i] + Len(s[i].data)
                              /\ s[i].data = SubSeq(stream, at[i] + 1, at[i + 1])
      /\ ~CarriesData(s[i]) => at[i + 1] = at[i] + 0
  BY <1>1 DEF Honest
<1>3. at[i] \in Nat
  <2>1. i \in 1 .. Len(s) + 1
    BY LenProperties
  <2>2. at[i] \in 0 .. Len(stream)
    BY <2>1, HonestAt
  <2> QED BY <2>2
<1>4. at[1] = 0
  BY HonestStream
<1> QED BY <1>2, <1>3, <1>4 DEF Sends

\* What a frame adds continues the stream.
LEMMA AggregateContinues ==
    ASSUME NEW stream \in Seq(Units), NEW a \in 0 .. Len(stream), NEW b \in 0 .. Len(stream),
           NEW f \in Frames, Sends(f, stream, a, b),
           NEW c \in CollectorType, Len(c.agg) <= c.limit, c.limit <= HardCap,
           Begins(c.agg, c.limit, stream, a)
    PROVE  Begins(NewAgg(c, f), NewLimit(c, f), stream, b)
<1> DEFINE R == Room(c, f)
<1>1. Len(stream) \in Nat /\ a \in Nat /\ b \in Nat
  OBVIOUS
<1>2. /\ f.cmd = 13 => a = 0
      /\ CarriesData(f) => b = a + Len(f.data) /\ f.data = SubSeq(stream, a + 1, b)
      /\ ~CarriesData(f) => b = a
  BY DEF Sends
<1>3. /\ c.agg \in Seq(Units) /\ Len(c.agg) \in Nat /\ c.limit \in Nat
      /\ f.data \in Seq(Units) /\ Len(f.data) \in Nat /\ NewLimit(c, f) \in Nat
  <2>1. f.data \in Seq(Units) /\ Len(f.data) \in Nat /\ NewLimit(c, f) \in Nat
    BY FrameFields, RoomType
  <2>2. c.agg \in Seq(Units) /\ c.limit \in Nat
    BY DEF CollectorType
  <2>3. Len(c.agg) \in Nat
    BY <2>2
  <2> QED BY <2>1, <2>2, <2>3
<1>4. f.cmd # 13 => NewLimit(c, f) = c.limit
  BY LimitGrows
<1>5. /\ R = Smaller(Larger(NewLimit(c, f) - Len(c.agg), 0), Len(f.data))
      /\ c.agg = SubSeq(stream, 1, Len(c.agg)) /\ Len(c.agg) = Smaller(a, c.limit)
  BY DEF Room, Begins
<1> HIDE DEF R
<1>6. CASE CarriesData(f) /\ f.data # << >>
  <2>1. NewLimit(c, f) = c.limit /\ b = a + Len(f.data) /\ f.data = SubSeq(stream, a + 1, b)
    BY <1>2, <1>4, <1>6 DEF CarriesData
  <2>2. NewAgg(c, f) = c.agg \o SubSeq(f.data, 1, R)
    BY <1>6 DEF NewAgg, R
  <2>3. /\ R \in 0 .. Len(f.data)
        /\ \/ R > 0 /\ Len(c.agg) = a /\ a + R = Smaller(b, c.limit)
           \/ R = 0 /\ Len(c.agg) = Smaller(b, c.limit)
    <3>2. R = Smaller(Larger(c.limit - Len(c.agg), 0), Len(f.data))
      BY <1>5, <2>1
    <3>3. /\ R \in 0 .. Len(f.data)
          /\ \/ R > 0 /\ Len(c.agg) = a /\ a + R = Smaller(a + Len(f.data), c.limit)
             \/ R = 0 /\ Len(c.agg) = Smaller(a + Len(f.data), c.limit)
      <4> DEFINE n == Len(c.agg)
                 limit == c.limit
                 d == Len(f.data)
      <4>1. limit \in Nat /\ d \in Nat /\ n = Smaller(a, limit)
        BY <1>3, <1>5
      <4>2. R = Smaller(Larger(limit - n, 0), d)
        BY <3>2
      <4> HIDE DEF n, limit, d
      <4>3. /\ R \in 0 .. d
            /\ \/ R > 0 /\ n = a /\ a + R = Smaller(a + d, limit)
               \/ R = 0 /\ n = Smaller(a + d, limit)
        BY <1>1, <4>1, <4>2 DEF Smaller, Larger
      <4> QED BY <4>3 DEF n, limit, d
    <3> QED BY <2>1, <3>3
  <2>4. CASE R > 0 /\ Len(c.agg) = a /\ a + R = Smaller(b, c.limit)
    <3>2. SubSeq(f.data, 1, R) = SubSeq(stream, a + 1, a + R)
      <4>1. /\ a + 1 \in 1 .. Len(stream) /\ b \in 1 .. Len(stream)
            /\ 1 \in 1 .. b - (a + 1) + 1 /\ R \in 1 .. b - (a + 1) + 1
            /\ a + 1 + 1 - 1 = a + 1 /\ a + 1 + R - 1 = a + R
        BY <1>1, <1>3, <2>1, <2>3, <2>4
      <4> QED BY <1>1, <2>1, <4>1, SubSeqOfSubSeq
    <3>3. SubSeq(stream, 1, a) \o SubSeq(stream, a + 1, a + R) = SubSeq(stream, 1, a + R)
      <4>1. /\ 1 \in 1 .. Len(stream) + 1 /\ a \in 1 - 1 .. Len(stream)
            /\ a + R \in a .. Len(stream)
        BY <1>1, <1>3, <2>1, <2>3
      <4> QED BY <1>1, <4>1, ConcatAdjacentSubSeq
    <3>4. NewAgg(c, f) = SubSeq(stream, 1, a + R)
      BY <1>5, <2>2, <2>4, <3>2, <3>3
    <3>5. Len(SubSeq(stream, 1, a + R)) = a + R
      BY <1>1, <1>3, <2>1, <2>3
    <3> QED BY <2>1, <2>4, <3>4, <3>5 DEF Begins
  <2>5. CASE R = 0 /\ Len(c.agg) = Smaller(b, c.limit)
    <3>1. SubSeq(f.data, 1, R) = << >>
      BY <1>3, <2>5
    <3>2. c.agg \o << >> = c.agg
      BY <1>3
    <3>3. NewAgg(c, f) = c.agg
      BY <2>2, <3>1, <3>2
    <3> QED BY <1>5, <2>1, <2>5, <3>3 DEF Begins
  <2> QED BY <2>3, <2>4, <2>5
<1>7. CASE ~(CarriesData(f) /\ f.data # << >>)
  <2>1. NewAgg(c, f) = c.agg
    BY <1>7 DEF NewAgg
  <2>2. b = a
    <3>1. f.data = << >> => Len(f.data) = 0
      OBVIOUS
    <3> QED BY <1>1, <1>2, <1>7, <3>1
  <2>3. NewLimit(c, f) = c.limit \/ a = 0
    BY <1>2, <1>4
  <2>4. Smaller(b, NewLimit(c, f)) = Smaller(a, c.limit)
    BY <1>1, <1>3, <2>2, <2>3 DEF Smaller
  <2> QED BY <1>5, <2>1, <2>4 DEF Begins
<1> QED BY <1>6, <1>7

\* How a write extends the file that held p units of M: all of it, or a part.
Continues(data, new, M, p, q) ==
    /\ new \in Seq(Units) /\ Len(new) = q - p
    /\ Len(data) = p => Len(data \o new) = q
    /\ Holds(data \o new, M, q)
    /\ \A k \in 0 .. Len(new) - 1 : Holds(data \o SubSeq(new, 1, k), M, p)

\* What is written while nothing failed continues the file that the stream carries.
LEMMA PersistContinues ==
    ASSUME NEW M \in Seq(Units), NEW p \in Nat, NEW q \in Nat, p <= q, q <= Len(M),
           NEW data \in Seq(Units), Holds(data, M, p),
           NEW new, new = SubSeq(M, p + 1, q)
    PROVE  Continues(data, new, M, p, q)
<1>0. Len(data) >= p /\ (Len(data) = p => data = SubSeq(M, 1, p))
  BY DEF Holds
<1>1. new \in Seq(Units) /\ Len(new) = q - p /\ Len(data) \in Nat /\ Len(M) \in Nat
  OBVIOUS
<1>2. Len(data \o new) = Len(data) + (q - p)
  BY <1>1
<1>3. SubSeq(M, 1, p) \o SubSeq(M, p + 1, q) = SubSeq(M, 1, q)
  <2>1. 1 \in 1 .. Len(M) + 1 /\ p \in 1 - 1 .. Len(M) /\ q \in p .. Len(M)
    BY <1>1
  <2> QED BY <2>1, ConcatAdjacentSubSeq
<1>4. Len(data \o new) = q => data \o new = SubSeq(M, 1, q)
  BY <1>0, <1>1, <1>2, <1>3
<1>5. ASSUME NEW k \in 0 .. Len(new) - 1
      PROVE  Holds(data \o SubSeq(new, 1, k), M, p)
  <2>1. SubSeq(new, 1, k) \in Seq(Units) /\ Len(SubSeq(new, 1, k)) = k
    BY <1>1
  <2>2. Len(data \o SubSeq(new, 1, k)) = Len(data) + k
    BY <1>1, <2>1
  <2>3. ASSUME k = 0 PROVE data \o SubSeq(new, 1, k) = data
    <3>1. SubSeq(new, 1, k) = << >>
      BY <2>1, <2>3
    <3>2. data \o << >> = data
      OBVIOUS
    <3> QED BY <3>1, <3>2
  <2>4. /\ Len(data \o SubSeq(new, 1, k)) >= p
        /\ Len(data \o SubSeq(new, 1, k)) = p => data \o SubSeq(new, 1, k) = SubSeq(M, 1, p)
    BY <1>0, <1>1, <2>2, <2>3
  <2> QED BY <2>4 DEF Holds
<1>6. Len(data \o new) >= q /\ (Len(data) = p => Len(data \o new) = q)
  <2> DEFINE l == Len(data)
             total == Len(data \o new)
  <2>1. l \in Nat /\ l >= p /\ total = l + (q - p)
    BY <1>0, <1>1, <1>2
  <2> HIDE DEF l, total
  <2>2. total >= q /\ (l = p => total = q)
    BY <2>1
  <2> QED BY <2>2 DEF l, total
<1>7. Holds(data \o new, M, q)
  BY <1>4, <1>6 DEF Holds
<1> QED BY <1>1, <1>5, <1>6, <1>7, Zenon DEF Continues

\* The aggregate and its MP4 are beginnings of what the camera sends.
LEMMA GatheredPrefix ==
    ASSUME NEW stream \in Seq(Units), NEW sent \in 0 .. Len(stream), NEW limit \in Nat,
           NEW agg, Begins(agg, limit, stream, sent)
    PROVE  /\ agg \in Seq(Units) /\ Len(agg) \in 0 .. Len(stream)
           /\ Mp4(stream) \in Seq(Units) /\ Len(Mp4(stream)) \in Nat
           /\ Mp4(agg) \in Seq(Units) /\ Len(Mp4(agg)) \in 0 .. Len(Mp4(stream))
           /\ Len(Mp4(agg)) <= Len(agg)
           /\ Mp4(agg) = SubSeq(Mp4(stream), 1, Len(Mp4(agg)))
<1>1. Len(stream) \in Nat
  OBVIOUS
<1>2. Len(agg) \in 0 .. Len(stream) /\ agg = SubSeq(stream, 1, Len(agg))
  BY <1>1 DEF Smaller, Begins
<1>3. agg \in Seq(Units)
  BY <1>1, <1>2
<1>4. /\ Mp4(stream) \in Seq(Units) /\ Len(Mp4(stream)) \in Nat
  BY <1>1, Mp4Type
<1>5. Mp4(agg) \in Seq(Units) /\ Len(Mp4(agg)) \in 0 .. Len(agg)
  BY <1>3, Mp4Type
<1>6. /\ Len(Mp4(SubSeq(stream, 1, Len(agg)))) <= Len(Mp4(stream))
      /\ Mp4(SubSeq(stream, 1, Len(agg))) =
            SubSeq(Mp4(stream), 1, Len(Mp4(SubSeq(stream, 1, Len(agg)))))
  BY <1>1, <1>2, Mp4Prefix
<1>7. /\ Len(Mp4(agg)) <= Len(Mp4(stream))
      /\ Mp4(agg) = SubSeq(Mp4(stream), 1, Len(Mp4(agg)))
  BY <1>2, <1>6, Zenon
<1>8. Len(Mp4(agg)) <= Len(agg) /\ Len(Mp4(agg)) \in 0 .. Len(Mp4(stream))
  BY <1>2, <1>4, <1>5, <1>7
<1> QED BY <1>2, <1>3, <1>4, <1>5, <1>7, <1>8, Zenon

\* A longer beginning has the longer MP4.
LEMMA Mp4Grows ==
    ASSUME NEW stream \in Seq(Units), NEW n \in Nat, NEW m \in Nat, n <= m, m <= Len(stream)
    PROVE  Len(Mp4(SubSeq(stream, 1, n))) <= Len(Mp4(SubSeq(stream, 1, m)))
<1>1. SubSeq(stream, 1, m) \in Seq(Units) /\ Len(SubSeq(stream, 1, m)) = m
  OBVIOUS
<1>2. SubSeq(SubSeq(stream, 1, m), 1, n) = SubSeq(stream, 1, n)
  <2>1. CASE n = 0
    BY <1>1, <2>1
  <2>2. CASE n # 0
    <3>1. /\ 1 \in 1 .. Len(stream) /\ m \in 1 .. Len(stream) /\ 1 \in 1 .. m - 1 + 1
          /\ n \in 1 .. m - 1 + 1 /\ 1 + 1 - 1 = 1 /\ 1 + n - 1 = n
      BY <2>2
    <3> QED BY <3>1, SubSeqOfSubSeq
  <2> QED BY <2>1, <2>2
<1>3. n \in 0 .. Len(SubSeq(stream, 1, m))
  BY <1>1
<1>4. Len(Mp4(SubSeq(SubSeq(stream, 1, m), 1, n))) <= Len(Mp4(SubSeq(stream, 1, m)))
  BY <1>1, <1>3, Mp4Prefix
<1> QED BY <1>2, <1>4

\* While a frame arrives: where it stands, and the collector afterwards.
LEMMA Arriving ==
    ASSUME VInv, FrameArrives
    PROVE  /\ source \in Seq(Frames) /\ source \in ScriptsOf[rec] /\ rec \in Recordings
           /\ Count \in Nat /\ Count < Len(source) /\ Count' = Count + 1
           /\ Frame \in Frames /\ Frame = source[Count + 1] /\ name' = name /\ name \in Names
           /\ UNCHANGED <<source, rec, pc, final, undo>>
           /\ collector \in CollectorType /\ Observed \in CollectorType
           /\ collector' \in CollectorType
           /\ Len(collector.agg) <= collector.limit /\ collector.limit <= HardCap
           /\ collector'.agg = Observed.agg /\ collector'.expected = Observed.expected
           /\ collector'.limit = Observed.limit /\ collector'.match = Observed.match
           /\ \/ Counted(collector, Frame)
              \/ ~Counted(collector, Frame) /\ Observed = collector /\ ~CarriesData(Frame)
<1>1. pc # "idle" /\ Len(delivered) < Len(source)
  BY DEF FrameArrives, Collecting
<1>2. /\ source \in Seq(Frames) /\ source \in ScriptsOf[rec]
      /\ Count \in Nat /\ Count + 1 \in 1 .. Len(source)
  BY <1>1, NextFrame DEF Count
<1>3. rec \in Recordings
  BY <1>1 DEF VInv, ControlType
<1>4. /\ Frame \in Frames /\ Observed \in CollectorType /\ New \in Seq(Units) /\ name \in Names
      /\ Frame.cmd = 8 => pc = "stream"
      /\ Count' = Count + 1 /\ UNCHANGED <<source, rec, pc, final, undo>>
      /\ \/ collector' = Observed
         \/ collector' = [Observed EXCEPT !.persisted = @ + Len(New)]
         \/ collector' = [Observed EXCEPT !.failed = TRUE]
  BY FrameStep DEF Count
<1>5. /\ collector \in CollectorType /\ Limited /\ (pc = "stream" => collector.first # NoCode)
  BY DEF VInv, CollectType
<1>6. /\ collector' \in CollectorType
      /\ collector'.agg = Observed.agg /\ collector'.expected = Observed.expected
      /\ collector'.limit = Observed.limit /\ collector'.match = Observed.match
  <2>1. Observed.persisted + Len(New) \in Nat
    BY <1>4 DEF CollectorType
  <2> QED BY <1>4, <2>1 DEF CollectorType
<1>7. ASSUME ~Counted(collector, Frame)
      PROVE  Observed = collector /\ ~CarriesData(Frame)
  <2>1. collector.first = NoCode /\ Frame.cmd # 13
    BY <1>7 DEF Counted
  <2>2. Observed = collector
    BY <2>1 DEF Observed, Observe
  <2>3. Frame.cmd # 8
    BY <1>4, <1>5, <2>1
  <2> QED BY <2>2, <2>3 DEF CarriesData
<1>8. name' = name
  BY <1>4 DEF name
<1>9. Count < Len(source) /\ Frame = source[Count + 1]
  BY <1>1 DEF Count, Frame
<1> QED BY <1>2, <1>3, <1>4, <1>5, <1>6, <1>7, <1>8, <1>9 DEF Limited

LEMMA GatherStep ==
    ASSUME VInv, FrameArrives, NEW stream, NEW at,
           Honest(rec, source, stream, at), Gathered(stream, at)
    PROVE  Gathered(stream, at)'
<1>1. /\ source \in Seq(Frames) /\ Count \in Nat /\ Count < Len(source) /\ Count' = Count + 1
      /\ Frame \in Frames /\ Frame = source[Count + 1] /\ source' = source
      /\ collector \in CollectorType
      /\ Len(collector.agg) <= collector.limit /\ collector.limit <= HardCap
      /\ collector'.agg = Observed.agg /\ collector'.expected = Observed.expected
      /\ collector'.limit = Observed.limit
      /\ \/ Counted(collector, Frame)
         \/ ~Counted(collector, Frame) /\ Observed = collector /\ ~CarriesData(Frame)
  BY Arriving
<1>2. /\ Begins(collector.agg, collector.limit, stream, at[Count + 1])
      /\ collector.expected \in {0} \union {source[i].size : i \in 1 .. Count}
  BY DEF Gathered
<1>3. Count + 1 \in 1 .. Len(source) /\ Count + 1 \in 1 .. Len(source) + 1
      /\ (Count + 1) + 1 \in 1 .. Len(source) + 1
  BY <1>1
<1>4. Begins(collector'.agg, collector'.limit, stream, at[(Count + 1) + 1])
  <2>1. Sends(Frame, stream, at[Count + 1], at[(Count + 1) + 1])
    BY <1>1, <1>3, HonestFrame
  <2>2. CASE Counted(collector, Frame)
    <3>1. Observed.agg = NewAgg(collector, Frame) /\ Observed.limit = NewLimit(collector, Frame)
      BY <1>1, <2>2, ObserveFields DEF Observed
    <3>2. at[Count + 1] \in 0 .. Len(stream)
      BY <1>1, <1>3, HonestAt
    <3>3. at[(Count + 1) + 1] \in 0 .. Len(stream)
      BY <1>1, <1>3, HonestAt
    <3>4. stream \in Seq(Units)
      BY <1>1, HonestStream
    <3>5. Begins(NewAgg(collector, Frame), NewLimit(collector, Frame), stream, at[(Count + 1) + 1])
      BY <1>1, <1>2, <2>1, <3>2, <3>3, <3>4, AggregateContinues
    <3> QED BY <1>1, <3>1, <3>5
  <2>3. CASE Observed = collector /\ ~CarriesData(Frame)
    <3>1. at[(Count + 1) + 1] = at[Count + 1]
      BY <2>1, <2>3 DEF Sends
    <3> QED BY <1>1, <1>2, <2>3, <3>1
  <2> QED BY <1>1, <2>2, <2>3
<1>5. collector'.expected \in {0} \union {source[i].size : i \in 1 .. Count + 1}
  <2>1. collector'.expected \in {collector.expected, Frame.size}
    <3>1. CASE Counted(collector, Frame)
      BY <1>1, <3>1, ObserveFields DEF Observed, NewExpected, Larger
    <3>2. CASE Observed = collector
      BY <1>1, <3>2
    <3> QED BY <1>1, <3>1, <3>2
  <2>2. Count + 1 \in 1 .. Count + 1 /\ 1 .. Count \subseteq 1 .. Count + 1
    BY <1>1
  <2> QED BY <1>1, <1>2, <2>1, <2>2
<1> QED BY <1>1, <1>4, <1>5 DEF Gathered

LEMMA ExtendsAgg ==
    ASSUME VInv, FrameArrives
    PROVE  /\ Len(collector.agg) <= Len(collector'.agg)
           /\ ~CarriesData(Frame) => collector'.agg = collector.agg
<1>1. /\ collector \in CollectorType /\ Frame \in Frames /\ collector'.agg = Observed.agg
      /\ Counted(collector, Frame) \/ Observed = collector
  BY Arriving
<1>2. collector.agg \in Seq(Units) /\ Len(collector.agg) \in Nat
  BY <1>1 DEF CollectorType
<1>3. CASE Counted(collector, Frame)
  <2>1. collector'.agg = NewAgg(collector, Frame)
    BY <1>1, <1>3, ObserveFields DEF Observed
  <2>2. /\ Room(collector, Frame) \in 0 .. Len(Frame.data) /\ Frame.data \in Seq(Units)
        /\ Len(Frame.data) \in Nat
    BY <1>1, RoomType, FrameFields
  <2>3. /\ SubSeq(Frame.data, 1, Room(collector, Frame)) \in Seq(Units)
        /\ Len(SubSeq(Frame.data, 1, Room(collector, Frame))) \in Nat
    BY <2>2
  <2>4. Len(collector.agg \o SubSeq(Frame.data, 1, Room(collector, Frame))) >= Len(collector.agg)
    BY <1>2, <2>3
  <2>5. \/ collector'.agg = collector.agg
        \/ /\ CarriesData(Frame)
           /\ collector'.agg = collector.agg \o SubSeq(Frame.data, 1, Room(collector, Frame))
    BY <2>1 DEF NewAgg
  <2>6. CASE collector'.agg = collector.agg
    BY <1>2, <2>6
  <2>7. CASE collector'.agg = collector.agg \o SubSeq(Frame.data, 1, Room(collector, Frame))
    BY <2>1, <2>4, <2>7 DEF NewAgg
  <2> QED BY <2>5, <2>6, <2>7
<1>4. CASE Observed = collector
  BY <1>1, <1>2, <1>4
<1> QED BY <1>1, <1>3, <1>4

LEMMA PersistStep ==
    ASSUME VInv, FrameArrives, NEW stream, NEW at, Honest(rec, source, stream, at),
           Gathered(stream, at), Persisted(stream)
    PROVE  Persisted(stream)'
<1> DEFINE M == Mp4(stream)
           p == collector.persisted
           q == Len(Mp4(Observed.agg))
           data == part[name].data
<1>1. /\ source \in Seq(Frames) /\ Count \in Nat /\ Count < Len(source) /\ Count' = Count + 1
      /\ name' = name /\ name \in Names /\ source' = source
      /\ collector \in CollectorType /\ Observed \in CollectorType /\ collector' \in CollectorType
      /\ collector'.agg = Observed.agg
      /\ Counted(collector, Frame) \/ Observed = collector
      /\ Frame \in Frames
  BY Arriving
<1>2. /\ Observed.persisted = p /\ Observed.failed = collector.failed
  BY <1>1, ObserveFields DEF Observed
<1>3. /\ p <= Len(Mp4(collector.agg)) /\ Holds(data, M, p)
      /\ ~collector.failed => p = Len(Mp4(collector.agg)) /\ Len(data) = p
  BY DEF Persisted
<1>4. /\ p \in Nat /\ part \in [Names -> FileType] /\ data \in Seq(Units)
      /\ collector.limit \in Nat /\ collector'.limit \in Nat
  BY <1>1 DEF CollectorType, VInv, DiskType, FileType
<1>5. /\ M \in Seq(Units) /\ Len(M) \in Nat /\ q \in Nat /\ q <= Len(M)
      /\ Mp4(Observed.agg) = SubSeq(M, 1, q) /\ Len(Mp4(collector.agg)) <= q
      /\ Len(Mp4(collector.agg)) \in Nat
  <2>1. Begins(collector.agg, collector.limit, stream, at[Count + 1])
    BY DEF Gathered
  <2>2. Begins(collector'.agg, collector'.limit, stream, at[(Count + 1) + 1])
    BY <1>1, GatherStep DEF Gathered
  <2>3. Count + 1 \in 1 .. Len(source) + 1 /\ (Count + 1) + 1 \in 1 .. Len(source) + 1
    BY <1>1
  <2>8. stream \in Seq(Units) /\ Len(stream) \in Nat
    BY <1>1, HonestStream
  <2>11. at[Count + 1] \in 0 .. Len(stream)
    BY <1>1, <2>3, HonestAt
  <2>12. at[(Count + 1) + 1] \in 0 .. Len(stream)
    BY <1>1, <2>3, HonestAt
  <2>4. /\ Len(collector.agg) \in 0 .. Len(stream) /\ M \in Seq(Units) /\ Len(M) \in Nat
        /\ Len(Mp4(collector.agg)) \in 0 .. Len(M)
    BY <1>4, <2>1, <2>8, <2>11, GatheredPrefix
  <2>5. /\ Len(collector'.agg) \in 0 .. Len(stream)
        /\ Len(Mp4(collector'.agg)) \in 0 .. Len(M)
        /\ Mp4(collector'.agg) = SubSeq(M, 1, Len(Mp4(collector'.agg)))
    BY <1>4, <2>2, <2>8, <2>12, GatheredPrefix
  <2>6. /\ collector.agg = SubSeq(stream, 1, Len(collector.agg))
        /\ collector'.agg = SubSeq(stream, 1, Len(collector'.agg))
    BY <2>1, <2>2 DEF Begins
  <2>7. Len(collector.agg) <= Len(collector'.agg)
    BY ExtendsAgg
  <2>9. Len(Mp4(SubSeq(stream, 1, Len(collector.agg))))
            <= Len(Mp4(SubSeq(stream, 1, Len(collector'.agg))))
    BY <2>4, <2>5, <2>7, <2>8, Mp4Grows
  <2>10. Len(Mp4(collector.agg)) <= Len(Mp4(collector'.agg))
    BY <2>6, <2>9, Zenon
  <2> QED BY <1>1, <2>4, <2>5, <2>10
<1> HIDE DEF M, p, q, data
<1>6. p <= q
  BY <1>3, <1>4, <1>5
<1>7. New = SubSeq(M, p + 1, q)
  <2>1. SubSeq(SubSeq(M, 1, q), p + 1, q) = SubSeq(M, p + 1, q)
    <3>1. CASE p + 1 <= q
      <4>1. /\ 1 \in 1 .. Len(M) /\ q \in 1 .. Len(M) /\ p + 1 \in 1 .. q - 1 + 1
            /\ q \in 1 .. q - 1 + 1 /\ 1 + (p + 1) - 1 = p + 1 /\ 1 + q - 1 = q
        BY <1>4, <1>5, <3>1
      <4> QED BY <1>5, <4>1, SubSeqOfSubSeq
    <3>2. CASE q < p + 1
      BY <1>4, <1>5, <3>2
    <3> QED BY <1>4, <1>5, <3>1, <3>2
  <2> QED BY <1>2, <1>5, <2>1 DEF New, p, q
<1>8. /\ New \in Seq(Units) /\ Len(New) = q - p
      /\ Len(data) = p => Len(data \o New) = q
      /\ Holds(data \o New, M, q)
      /\ \A k \in 0 .. Len(New) - 1 : Holds(data \o SubSeq(New, 1, k), M, p)
  <2>1. /\ M \in Seq(Units) /\ p \in Nat /\ q \in Nat /\ p <= q /\ q <= Len(M)
        /\ data \in Seq(Units) /\ Holds(data, M, p) /\ New = SubSeq(M, p + 1, q)
    BY <1>3, <1>4, <1>5, <1>6, <1>7
  <2>2. Continues(data, New, M, p, q)
    BY <2>1, PersistContinues
  <2> QED BY <2>2 DEF Continues
<1>9. \/ /\ ~(CarriesData(Frame) /\ New # << >>) /\ collector' = Observed /\ part' = part
      \/ /\ collector' = [Observed EXCEPT !.persisted = @ + Len(New)]
         /\ part'[name].data = data \o New
      \/ /\ collector' = [Observed EXCEPT !.failed = TRUE]
         /\ \E k \in 0 .. Len(New) - 1 : part'[name].data = data \o SubSeq(New, 1, k)
  <2>1. name \in DOMAIN part
    BY <1>1, <1>4
  <2>2. ASSUME NEW state \in {"buffered", "written"},
               part' = [part EXCEPT ![name] = [data |-> @.data \o New, state |-> state]]
        PROVE  part'[name].data = data \o New
    BY <2>1, <2>2 DEF data
  <2>3. ASSUME NEW k \in 0 .. Len(New) - 1,
               part' = [part EXCEPT ![name] =
                           [data |-> @.data \o SubSeq(New, 1, k), state |-> "buffered"]]
        PROVE  part'[name].data = data \o SubSeq(New, 1, k)
    BY <2>1, <2>3 DEF data
  <2>4. \/ /\ ~(CarriesData(Frame) /\ New # << >>) /\ collector' = Observed /\ part' = part
        \/ /\ collector' = [Observed EXCEPT !.persisted = @ + Len(New)]
           /\ \E state \in {"buffered", "written"} :
                 part' = [part EXCEPT ![name] = [data |-> @.data \o New, state |-> state]]
        \/ /\ collector' = [Observed EXCEPT !.failed = TRUE]
           /\ \E k \in 0 .. Len(New) - 1 :
                 part' = [part EXCEPT ![name] =
                             [data |-> @.data \o SubSeq(New, 1, k), state |-> "buffered"]]
    BY FrameStep
  <2> QED BY <2>2, <2>3, <2>4
<1>10. SUFFICES /\ collector'.persisted <= q /\ Holds(part'[name].data, M, collector'.persisted)
                /\ ~collector'.failed => /\ collector'.persisted = q
                                         /\ Len(part'[name].data) = collector'.persisted
  BY <1>1 DEF Persisted, M, q
<1>11. CASE ~(CarriesData(Frame) /\ New # << >>) /\ collector' = Observed /\ part' = part
  <2>1. collector'.persisted = p /\ collector'.failed = collector.failed /\ part'[name].data = data
    BY <1>2, <1>11 DEF data
  <2>2. ~collector.failed => p = q /\ Len(data) = p
    <3>1. CASE ~CarriesData(Frame)
      <4>1. q = Len(Mp4(collector.agg))
        BY <1>1, <3>1, ExtendsAgg DEF q
      <4> QED BY <1>3, <4>1
    <3>2. CASE New = << >>
      BY <1>3, <1>4, <1>5, <1>8, <3>2
    <3> QED BY <1>11, <3>1, <3>2
  <2> QED BY <1>3, <1>6, <2>1, <2>2
<1>12. CASE /\ collector' = [Observed EXCEPT !.persisted = @ + Len(New)]
            /\ part'[name].data = data \o New
  <2>1. collector'.persisted = p + Len(New) /\ collector'.failed = collector.failed
    BY <1>1, <1>2, <1>12 DEF CollectorType
  <2>2. collector'.persisted = q
    BY <1>4, <1>5, <1>8, <2>1
  <2> QED BY <1>3, <1>5, <1>8, <1>12, <2>1, <2>2
<1>13. CASE /\ collector' = [Observed EXCEPT !.failed = TRUE]
            /\ \E k \in 0 .. Len(New) - 1 : part'[name].data = data \o SubSeq(New, 1, k)
  <2>1. collector'.persisted = p /\ collector'.failed
    BY <1>1, <1>2, <1>13 DEF CollectorType
  <2> QED BY <1>6, <1>8, <1>13, <2>1
<1> QED BY <1>9, <1>11, <1>12, <1>13

\* Everything the camera sends finds room from the answer on, and the size is not exceeded.
LEMMA FitsStep ==
    ASSUME VInv, FrameArrives, NEW stream, NEW at, Honest(rec, source, stream, at),
           Gathered(stream, at), SendsAll(rec, source, stream, at), Fits(stream)
    PROVE  Fits(stream)'
<1> DEFINE L == Len(Content[rec])
           f == Frame
           c == collector
<1>1. /\ source \in Seq(Frames) /\ Count \in Nat /\ Count < Len(source) /\ Count' = Count + 1
      /\ f = source[Count + 1] /\ f \in Frames /\ rec' = rec /\ rec \in Recordings
      /\ c \in CollectorType /\ Observed \in CollectorType
      /\ Len(c.agg) <= c.limit /\ c.limit <= HardCap
      /\ collector'.agg = Observed.agg /\ collector'.expected = Observed.expected
      /\ collector'.limit = Observed.limit /\ collector'.match = Observed.match
      /\ \/ Counted(c, f)
         \/ ~Counted(c, f) /\ Observed = c /\ ~CarriesData(f)
  BY Arriving
<1>2. /\ source[1].cmd = 13 /\ Accepted(source[1]) /\ source[1].size = L
      /\ (\A i \in 1 .. Len(source) : source[i].size <= source[1].size)
      /\ Content[rec] # << >> /\ Mp4(stream) = Content[rec]
      /\ Len(stream) <= Smaller(L + Overhead, HardCap)
  <2>1. DOMAIN source = 1 .. Len(source)
    BY <1>1
  <2> QED BY <2>1 DEF SendsAll
<1>3. L \in Nat /\ L > 0 /\ stream \in Seq(Units) /\ Len(stream) \in Nat
  <2>1. stream \in Seq(Units) /\ Len(stream) \in Nat /\ L \in Nat
    BY <1>1, HonestStream, Limits
  <2>2. Mp4(stream) \in Seq(Units)
    BY <2>1, Mp4Type
  <2> QED BY <1>2, <2>1, <2>2
<1>4. f.size \in Nat /\ f.size <= L
  <2>1. Count + 1 \in 1 .. Len(source)
    BY <1>1
  <2> QED BY <1>1, <1>2, <2>1, FrameFields
<1> HIDE DEF f, c
<1>5. SUFFICES /\ Observed.expected = L /\ Len(stream) <= Observed.limit
               /\ Len(Mp4(Observed.agg)) = L => Observed.match
  BY <1>1 DEF Fits
<1>6. CASE Count = 0
  <2>1. /\ f.cmd = 13 /\ Accepted(f) /\ f.size = L /\ Counted(c, f)
    BY <1>1, <1>2, <1>6 DEF Counted
  <2>2. c.expected = 0 /\ Begins(c.agg, c.limit, stream, at[0 + 1])
    <3>1. 1 .. 0 = {}
      OBVIOUS
    <3> QED BY <1>6, <3>1 DEF Gathered, c
  <2>3. /\ Observed.agg = NewAgg(c, f) /\ Observed.expected = NewExpected(c, f)
        /\ Observed.limit = NewLimit(c, f)
    BY <1>1, <2>1, ObserveFields DEF Observed, c, f
  <2>4. NewExpected(c, f) = L
    BY <1>3, <2>1, <2>2 DEF NewExpected, Larger
  <2>5. Len(stream) <= NewLimit(c, f)
    <3>1. /\ ProbeLimit \in Nat /\ Overhead \in Nat /\ HardCap \in Nat /\ c.limit \in Nat
      BY <1>1, Limits DEF CollectorType
    <3>2. Len(stream) <= ByteLimit(L)
      BY <1>2, <1>3, <3>1 DEF ByteLimit, Smaller, Larger
    <3>3. NewLimit(c, f) = Larger(c.limit, ByteLimit(L))
      BY <1>3, <2>1, <2>4 DEF NewLimit
    <3>4. ByteLimit(L) \in Nat
      <4>1. ByteLimit(L) \in 0 .. HardCap
        BY <1>3, ByteLimitBounds
      <4> QED BY <3>1, <4>1
    <3> QED BY <1>3, <3>1, <3>2, <3>3, <3>4 DEF Larger
  <2>6. Len(Mp4(Observed.agg)) # L
    <3>1. at[0 + 1] = 0
      BY <1>1, HonestStream
    <3>2. c.limit \in Nat /\ c.agg \in Seq(Units)
      BY <1>1 DEF CollectorType
    <3>3. Len(c.agg) = 0
      BY <2>2, <3>1, <3>2 DEF Begins, Smaller
    <3>4. NewAgg(c, f) = c.agg
      BY <2>1 DEF NewAgg, CarriesData
    <3>5. Len(Mp4(c.agg)) \in 0 .. Len(c.agg)
      BY <3>2, Mp4Type
    <3> QED BY <1>3, <2>3, <3>3, <3>4, <3>5
  <2> QED BY <2>3, <2>4, <2>5, <2>6
<1>7. CASE Count > 0
  <2>1. /\ c.expected = L /\ Len(stream) <= c.limit
        /\ Len(Mp4(c.agg)) = L => c.match
    BY <1>7 DEF Fits, c
  <2>2. CASE Counted(c, f)
    <3>1. /\ Observed.agg = NewAgg(c, f) /\ Observed.expected = NewExpected(c, f)
          /\ Observed.limit = NewLimit(c, f) /\ Observed.match = Matches(c, f)
      BY <1>1, <2>2, ObserveFields DEF Observed, c, f
    <3>2. NewExpected(c, f) = L
      BY <1>3, <1>4, <2>1 DEF NewExpected, Larger
    <3>3. Len(stream) <= NewLimit(c, f)
      <4>1. NewLimit(c, f) >= c.limit
        BY <1>1, LimitGrows
      <4>2. NewLimit(c, f) \in Nat /\ c.limit \in Nat
        BY <1>1, RoomType DEF CollectorType
      <4> QED BY <1>3, <2>1, <4>1, <4>2
    <3>4. ASSUME Len(Mp4(NewAgg(c, f))) = L PROVE Matches(c, f)
      <4>1. CASE CarriesData(f) /\ f.data # << >>
        <5>1. Mp4(NewAgg(c, f)) # << >>
          <6>1. Len(<< >>) = 0
            OBVIOUS
          <6> QED BY <1>3, <3>4, <6>1
        <5> QED BY <1>3, <3>2, <3>4, <4>1, <5>1 DEF Matches
      <4>2. CASE ~(CarriesData(f) /\ f.data # << >>)
        BY <2>1, <3>4, <4>2 DEF Matches, NewAgg
      <4> QED BY <4>1, <4>2
    <3> QED BY <3>1, <3>2, <3>3, <3>4
  <2>3. CASE Observed = c
    BY <2>1, <2>3
  <2> QED BY <1>1, <2>2, <2>3
<1> QED BY <1>1, <1>6, <1>7

LEMMA TransferringStep ==
    ASSUME VInv, FrameArrives, NEW stream, NEW at, Transferring(stream, at)
    PROVE  Transferring(stream, at)'
<1>1. UNCHANGED <<source, rec>>
  BY Arriving
<1>2. Honest(rec, source, stream, at) /\ Gathered(stream, at) /\ Persisted(stream)
  BY DEF Transferring
<1>3. Gathered(stream, at)' /\ Persisted(stream)'
  BY <1>2, GatherStep, PersistStep
<1>4. source \in WholeScripts => SendsAll(rec, source, stream, at) /\ Fits(stream)'
  BY <1>2, FitsStep DEF Transferring
<1> QED BY <1>1, <1>2, <1>3, <1>4 DEF Transferring

\* What has been transferred is not touched until the session is over.
LEMMA TransferringStays ==
    ASSUME NEW stream, NEW at, Transferring(stream, at),
           UNCHANGED <<source, delivered, rec>>, part'[name].data = part[name].data,
           collector'.agg = collector.agg, collector'.limit = collector.limit,
           collector'.expected = collector.expected, collector'.match = collector.match,
           collector'.persisted = collector.persisted, collector'.failed = collector.failed
    PROVE  Transferring(stream, at)'
<1>1. Count' = Count /\ name' = name
  BY DEF Count, name
<1>2. Gathered(stream, at)'
  BY <1>1 DEF Transferring, Gathered
<1>3. Persisted(stream)'
  BY <1>1 DEF Transferring, Persisted
<1>4. Fits(stream) => Fits(stream)'
  BY <1>1 DEF Fits
<1> QED BY <1>2, <1>3, <1>4 DEF Transferring

LEMMA TransferringBegins ==
    ASSUME TrueCameras, VInv, NEW r \in Recordings, Begin(r)
    PROVE  \E stream, at : Transferring(stream, at)'
<1>1. source' \in ScriptsOf[r] /\ rec' = r /\ delivered' = << >>
  BY DEF Begin
<1>2. PICK stream, at :
        /\ Honest(r, source', stream, at)
        /\ source' \in WholeScripts => SendsAll(r, source', stream, at)
  BY <1>1 DEF TrueCameras
<1>3. PICK size \in {0, Len(Content[r])} : collector' = EmptyCollector(size)
  BY DEF Begin
<1>4. /\ size \in Nat /\ source' \in Seq(Frames) /\ Len(<< >>) = 0 /\ Count' = 0
      /\ ByteLimit(size) \in Nat
  <2>1. size \in Nat /\ source' \in Seq(Frames)
    BY <1>1, <1>3, Limits
  <2> QED BY <1>1, <2>1, ByteLimitBounds DEF Count
<1>5. /\ collector'.agg = << >> /\ collector'.limit = ByteLimit(size)
      /\ collector'.expected = 0 /\ collector'.persisted = 0
  BY <1>3 DEF EmptyCollector
<1>6. stream \in Seq(Units) /\ at[1] = 0 /\ Mp4(stream) \in Seq(Units)
  <2>1. stream \in Seq(Units) /\ at[1] = 0
    BY <1>2, <1>4, HonestStream
  <2> QED BY <2>1, Mp4Type
<1>7. Gathered(stream, at)'
  <2>1. Smaller(at[0 + 1], ByteLimit(size)) = 0
    BY <1>4, <1>6 DEF Smaller
  <2>2. SubSeq(stream, 1, 0) = << >>
    BY <1>6
  <2> QED BY <1>4, <1>5, <2>1, <2>2 DEF Gathered, Begins
<1>8. Persisted(stream)'
  <2>1. name' \in Names /\ name' = NameOf[r]
    BY <1>1 DEF name, Names
  <2>2. part'[name'].data = << >>
    BY <2>1 DEF Begin, VInv, DiskType
  <2>3. Len(Mp4(<< >>)) = 0
    <3>1. << >> \in Seq(Units)
      OBVIOUS
    <3>2. Len(Mp4(<< >>)) \in 0 .. Len(<< >>)
      BY <3>1, Mp4Type
    <3> QED BY <1>4, <3>2
  <2>4. SubSeq(Mp4(stream), 1, 0) = << >>
    BY <1>6
  <2> QED BY <1>4, <1>5, <2>2, <2>3, <2>4 DEF Persisted, Holds
<1>9. Fits(stream)'
  BY <1>4 DEF Fits
<1> QED BY <1>1, <1>2, <1>7, <1>8, <1>9 DEF Transferring

\* A verified transfer is a whole recording.
LEMMA VerifiedIsWhole ==
    ASSUME VInv, pc # "idle", NEW stream, NEW at, Transferring(stream, at), Verified
    PROVE  part[name].data = Content[rec]
<1> DEFINE M == Mp4(stream)
           e == collector.expected
           agg == collector.agg
           p == collector.persisted
           data == part[name].data
<1>1. /\ Honest(rec, source, stream, at) /\ Begins(agg, collector.limit, stream, at[Count + 1])
      /\ e \in {0} \union {source[i].size : i \in 1 .. Count}
      /\ p <= Len(Mp4(agg)) /\ Holds(data, M, p)
  BY DEF Transferring, Gathered, Persisted
<1>2. e > 0 /\ Len(data) = e /\ p = e
  BY DEF Verified
<1>3. /\ source \in Seq(Frames) /\ Len(source) \in Nat /\ Count \in Nat /\ Count <= Len(source)
      /\ collector \in CollectorType /\ Len(agg) <= collector.limit
      /\ collector.limit <= HardCap
  <2>1. source \in ScriptsOf[rec] /\ rec \in Recordings
    BY DEF VInv, ControlType
  <2>2. source \in Seq(Frames)
    BY <2>1, Limits
  <2>3. Len(source) \in Nat
    BY <2>2
  <2> QED BY <2>2, <2>3 DEF VInv, StreamType, CollectType, Limited, Count
<1>4. e \in Nat /\ collector.limit \in Nat /\ HardCap \in Nat
  BY <1>3, Limits DEF CollectorType
<1>5. stream \in Seq(Units) /\ at[Count + 1] \in 0 .. Len(stream)
  <2>1. Count + 1 \in 1 .. Len(source) + 1
    BY <1>3
  <2>2. at[Count + 1] \in 0 .. Len(stream)
    BY <1>1, <1>3, <2>1, HonestAt
  <2>3. stream \in Seq(Units)
    BY <1>1, <1>3, HonestStream
  <2> QED BY <2>2, <2>3
<1>6. /\ Len(Mp4(agg)) \in 0 .. Len(M) /\ Len(Mp4(agg)) <= Len(agg) /\ Len(M) \in Nat
      /\ Len(agg) \in 0 .. Len(stream)
  BY <1>1, <1>4, <1>5, GatheredPrefix
<1>7. e \in 1 .. Smaller(HardCap, Len(M))
  <2> HIDE DEF e, agg, p, M
  <2>1. Len(agg) \in Nat
    BY <1>6
  <2> QED BY <1>1, <1>2, <1>3, <1>4, <1>6, <2>1 DEF Smaller
<1>8. PICK i \in 1 .. Count : e = source[i].size
  BY <1>1, <1>2
<1>9. SubSeq(M, 1, e) = Content[rec]
  <2>1. i \in DOMAIN source
    BY <1>3
  <2>2. source[i].size \in 1 .. Smaller(HardCap, Len(Mp4(stream)))
              => SubSeq(Mp4(stream), 1, source[i].size) = Content[rec]
    BY <1>1, <2>1 DEF Honest
  <2> QED BY <1>7, <1>8, <2>2
<1>10. data = SubSeq(M, 1, p)
  BY <1>1, <1>2 DEF Holds
<1> QED BY <1>2, <1>9, <1>10

\* A whole transfer without a write error is verified.
LEMMA WholeIsVerified ==
    ASSUME VInv, pc # "idle", NEW stream, NEW at, Transferring(stream, at),
           source \in WholeScripts, delivered = source, ~collector.failed
    PROVE  Verified /\ part[name] # NoFile
<1> DEFINE M == Mp4(stream)
           agg == collector.agg
           L == Len(Content[rec])
           data == part[name].data
<1>1. /\ Honest(rec, source, stream, at) /\ SendsAll(rec, source, stream, at)
      /\ Begins(agg, collector.limit, stream, at[Count + 1])
      /\ Holds(data, M, collector.persisted) /\ collector.persisted = Len(Mp4(agg))
      /\ Len(data) = collector.persisted
      /\ Fits(stream)
  BY DEF Transferring, Gathered, Persisted
<1>2. /\ source \in Seq(Frames) /\ source # << >> /\ rec \in Recordings
      /\ collector \in CollectorType
  <2>1. source \in ScriptsOf[rec] /\ rec \in Recordings
    BY DEF VInv, ControlType
  <2>2. source \in Seq(Frames) /\ source # << >>
    BY <2>1, DownloadAssumption, ScriptsAssumption
  <2> QED BY <2>1, <2>2 DEF VInv, CollectType
<1>3. Count = Len(source) /\ Count > 0
  BY <1>2 DEF Count
<1>4. /\ Content[rec] # << >> /\ M = Content[rec] /\ at[Count + 1] = Len(stream)
  BY <1>1, <1>3 DEF SendsAll
<1>5. /\ collector.expected = L /\ Len(stream) <= collector.limit
      /\ Len(Mp4(agg)) = L => collector.match
  BY <1>1, <1>3 DEF Fits
<1>6. stream \in Seq(Units) /\ Len(stream) \in Nat
  BY <1>1, <1>2, HonestStream
<1>7. agg = stream
  <2>1. Len(agg) = Len(stream)
    BY <1>1, <1>4, <1>5, <1>6 DEF Begins, Smaller
  <2>2. SubSeq(stream, 1, Len(stream)) = stream
    BY <1>6
  <2> QED BY <1>1, <2>1, <2>2 DEF Begins
<1>8. M \in Seq(Units) /\ Len(M) \in Nat /\ M # << >> /\ M[1] = Ftyp
  BY <1>4, <1>6, Mp4Type
<1>9. Len(M) = L /\ L > 0 /\ collector.persisted = L /\ collector.match
  BY <1>1, <1>4, <1>5, <1>7, <1>8
<1>10. data = M
  <2>1. data = SubSeq(M, 1, Len(M))
    BY <1>1, <1>9 DEF Holds
  <2> QED BY <1>8, <2>1
<1>11. Verified
  BY <1>1, <1>5, <1>8, <1>9, <1>10 DEF Verified
<1>12. part[name] # NoFile
  <2>1. NoFile.data = << >>
    BY DEF NoFile
  <2> QED BY <1>8, <1>10, <2>1
<1> QED BY <1>11, <1>12

-----------------------------------------------------------------------------
(* The final files.                                                        *)

Complete(n, file) ==
    \/ file = NoFile
    \/ file.state = "synced" /\ \E r \in Recordings : NameOf[r] = n /\ file.data = Content[r]

Tracked == pc \notin {"idle", "directory"} => \E stream, at : Transferring(stream, at)
Checked == pc = "rename" => Verified
AllComplete ==
    \A n \in Names : Complete(n, final[n]) /\ (undo[n] # << >> => Complete(n, undo[n][1]))

\* The invariant: the transfer is under way as described above, it is renamed only when
\* it was verified, and the final files, as well as those a power loss may bring back,
\* are whole.
FInv == VInv /\ DInv /\ Tracked /\ Checked /\ AllComplete

LEMMA WritingSteps ==
    ASSUME FInv, FrameArrives \/ Answered \/ StopCollecting \/ StreamTimeout \/ Disconnect
                 \/ DiskChanges \/ UNCHANGED vars
    PROVE  Tracked' /\ Checked' /\ AllComplete'
<1>1. CASE FrameArrives
  <2>1. pc \notin {"idle", "directory", "rename"} /\ UNCHANGED <<pc, final, undo>>
    BY <1>1 DEF FrameArrives, Collecting
  <2>2. PICK stream, at : Transferring(stream, at)
    BY <2>1 DEF FInv, Tracked
  <2>3. Transferring(stream, at)'
    BY <1>1, <2>2, TransferringStep DEF FInv
  <2> QED BY <2>1, <2>3 DEF FInv, Tracked, Checked, AllComplete, Complete
<1>2. CASE ~FrameArrives
  <2>1. /\ UNCHANGED <<source, delivered, rec, part, final, undo>>
        /\ pc' \in {"idle", "directory"} => pc' = pc
        /\ pc \in {"idle", "directory"} => pc' = pc
        /\ pc' = "rename" => pc = "rename"
    BY <1>2 DEF Answered, StopCollecting, StreamTimeout, Disconnect, DiskChanges, vars, fileVars,
                streamVars, Close, Collecting
  <2>2. /\ collector'.agg = collector.agg /\ collector'.limit = collector.limit
        /\ collector'.expected = collector.expected /\ collector'.match = collector.match
        /\ collector'.persisted = collector.persisted /\ collector'.failed = collector.failed
    <3>1. collector' = collector \/ collector' = [collector EXCEPT !.stop = TRUE]
      BY <1>2 DEF Answered, StopCollecting, StreamTimeout, Disconnect, DiskChanges, vars
    <3>2. collector \in CollectorType
      BY DEF FInv, VInv, CollectType
    <3> QED BY <3>1, <3>2 DEF CollectorType
  <2>3. Tracked'
    <3>1. SUFFICES ASSUME pc' \notin {"idle", "directory"}
                   PROVE  \E stream, at : Transferring(stream, at)'
      BY DEF Tracked
    <3>2. PICK stream, at : Transferring(stream, at)
      BY <2>1, <3>1 DEF FInv, Tracked
    <3>3. Transferring(stream, at)'
      <4>1. part'[name].data = part[name].data
        BY <2>1
      <4> QED BY <2>1, <2>2, <3>2, <4>1, TransferringStays
    <3> QED BY <3>3
  <2>4. Checked'
    <3>1. name' = name
      BY <2>1 DEF name
    <3> QED BY <2>1, <2>2, <3>1 DEF FInv, Checked, Verified
  <2>5. AllComplete'
    BY <2>1 DEF FInv, AllComplete, Complete
  <2> QED BY <2>3, <2>4, <2>5
<1> QED BY <1>1, <1>2

\* The steps after the transfer.
LEMMA FinishingSteps ==
    ASSUME FInv, Flush \/ Verify \/ Rename \/ SyncDirectory \/ Raise
    PROVE  Tracked' /\ Checked' /\ AllComplete'
<1>1. CASE pc' = "idle" /\ UNCHANGED final /\ \A n \in Names : undo'[n] \in {undo[n], << >>}
  BY <1>1 DEF FInv, Tracked, Checked, AllComplete, Complete
<1>2. CASE Raise
  BY <1>1, <1>2 DEF Raise, Abandon
<1>3. CASE Flush
  <2>1. CASE Abandon
    BY <1>1, <2>1 DEF Abandon
  <2>2. CASE ~Abandon
    <3>1. /\ pc = "flush" /\ pc' = "verify" /\ part' = [part EXCEPT ![name].state = "synced"]
          /\ UNCHANGED <<source, delivered, rec, collector, final, undo>>
      BY <1>3, <2>2 DEF Flush, streamVars
    <3>2. PICK stream, at : Transferring(stream, at)
      BY <3>1 DEF FInv, Tracked
    <3>3. part'[name].data = part[name].data
      <4>1. name \in Names /\ part \in [Names -> FileType]
        BY <3>1, NameType DEF FInv, VInv, DiskType
      <4> QED BY <3>1, <4>1 DEF FileType
    <3>4. Transferring(stream, at)'
      BY <3>1, <3>2, <3>3, TransferringStays
    <3> QED BY <3>1, <3>4 DEF FInv, Tracked, Checked, AllComplete, Complete
  <2> QED BY <2>1, <2>2
<1>4. CASE Verify
  <2>1. CASE Verified /\ pc' = "rename" /\ UNCHANGED <<part, streamVars, rec, collector, full>>
    <3>1. /\ pc = "verify" /\ UNCHANGED <<source, delivered, rec, collector, part, final, undo>>
      BY <1>4, <2>1 DEF Verify, streamVars
    <3>2. PICK stream, at : Transferring(stream, at)
      BY <3>1 DEF FInv, Tracked
    <3>3. part'[name].data = part[name].data
      BY <3>1
    <3>4. Transferring(stream, at)'
      BY <3>1, <3>2, <3>3, TransferringStays
    <3>5. Verified'
      BY <2>1, <3>1 DEF Verified, name
    <3> QED BY <3>1, <3>4, <3>5 DEF FInv, Tracked, Checked, AllComplete, Complete
  <2>2. CASE pc' = "idle"
    BY <1>1, <1>4, <2>2 DEF Verify
  <2> QED BY <1>4, <2>1, <2>2 DEF Verify
<1>5. CASE Rename
  <2>1. /\ pc = "rename" /\ pc' = "directory"
        /\ final' = [final EXCEPT ![name] = part[name]]
        /\ undo' = [undo EXCEPT ![name] = IF @ = << >> THEN <<final[name]>> ELSE @]
    BY <1>5 DEF Rename
  <2>2. PICK stream, at : Transferring(stream, at)
    BY <2>1 DEF FInv, Tracked
  <2>3. part[name].data = Content[rec]
    BY <2>1, <2>2, VerifiedIsWhole DEF FInv, Checked
  <2>4. Complete(name, part[name])
    BY <2>1, <2>3 DEF FInv, DInv, Complete, name
  <2>5. name \in Names /\ DOMAIN final = Names /\ DOMAIN undo = Names
    BY <2>1, NameType DEF FInv, DInv
  <2>6. ASSUME NEW n \in Names
        PROVE  Complete(n, final'[n]) /\ (undo'[n] # << >> => Complete(n, undo'[n][1]))
    <3>1. Complete(n, final[n]) /\ (undo[n] # << >> => Complete(n, undo[n][1]))
      BY DEF FInv, AllComplete
    <3>2. CASE n = name
      <4>1. final'[n] = part[name]
        BY <2>1, <2>5, <3>2
      <4>2. (undo'[n] = undo[n] /\ undo[n] # << >>) \/ undo'[n] = <<final[n]>>
        BY <2>1, <2>5, <3>2
      <4> QED BY <2>4, <3>1, <3>2, <4>1, <4>2
    <3>3. CASE n # name
      <4>1. final'[n] = final[n] /\ undo'[n] = undo[n]
        BY <2>1, <2>5, <3>3
      <4> QED BY <3>1, <4>1
    <3> QED BY <3>2, <3>3
  <2>7. AllComplete'
    BY <2>6 DEF AllComplete, Complete
  <2> QED BY <2>1, <2>7 DEF Tracked, Checked
<1>6. CASE SyncDirectory
  <2>1. pc' = "idle" /\ final' = final
    BY <1>6 DEF SyncDirectory
  <2>2. ASSUME NEW n \in Names PROVE undo'[n] \in {undo[n], << >>}
    BY <1>6 DEF SyncDirectory, FInv, DInv
  <2> QED BY <1>1, <2>1, <2>2
<1> QED BY <1>2, <1>3, <1>4, <1>5, <1>6

\* A final file is synced, or it is one that a power loss brings back.
LEMMA CrashKeepsComplete ==
    ASSUME FInv, Crash
    PROVE  Tracked' /\ Checked' /\ AllComplete'
<1>1. pc' = "idle" /\ undo' = [n \in Names |-> << >>]
  BY DEF Crash
<1>2. ASSUME NEW n \in Names
      PROVE  final'[n] = final[n] \/ (undo[n] # << >> /\ final'[n] = undo[n][1])
  <2>1. final[n].state \in {"none", "synced"}
    BY DEF FInv, AllComplete, Complete, NoFile
  <2> QED BY <2>1 DEF Crash
<1>3. AllComplete'
  BY <1>1, <1>2 DEF FInv, AllComplete, Complete
<1> QED BY <1>1, <1>3 DEF Tracked, Checked

LEMMA BeginKeepsComplete ==
    ASSUME TrueCameras, FInv, NEW r \in Recordings, Begin(r)
    PROVE  Tracked' /\ Checked' /\ AllComplete'
<1>1. Tracked'
  BY TransferringBegins DEF FInv, Tracked
<1>2. pc' = "answer" /\ UNCHANGED <<final, undo>>
  BY DEF Begin
<1> QED BY <1>1, <1>2 DEF Checked, FInv, AllComplete, Complete

LEMMA FileStep ==
    ASSUME TrueCameras, FInv, [Next]_vars
    PROVE  FInv'
<1>1. VInv' /\ DInv'
  BY TransferTyped, SavedStep DEF FInv
<1>2. Tracked' /\ Checked' /\ AllComplete'
  BY BeginKeepsComplete, WritingSteps, FinishingSteps, CrashKeepsComplete DEF Next, Session
<1> QED BY <1>1, <1>2 DEF FInv

LEMMA FileInitially == Init => FInv
<1> SUFFICES ASSUME Init PROVE FInv
  OBVIOUS
<1>1. VInv
  BY TransferInitially
<1>2. DInv
  BY DEF Init, DInv
<1>3. Tracked /\ Checked /\ AllComplete
  BY DEF Init, Tracked, Checked, AllComplete, Complete
<1> QED BY <1>1, <1>2, <1>3 DEF FInv

\* With cameras that send what they announce, a final file is the whole MP4 of a recording
\* of its name, whatever was lost, cut short, written in parts or interrupted by a power
\* loss; and it stays once a session saved it.
THEOREM FilesAreComplete ==
    ASSUME TrueCameras
    PROVE  DownloadSpec => []FinalComplete
<1>1. FInv => FinalComplete
  BY DEF FInv, DInv, AllComplete, Complete, FinalComplete, SavedStays
<1> QED BY <1>1, FileInitially, FileStep, TransfersAreSpecified, PTL DEF Spec

\* A session that got all of a recording, from a size that the FileInfo page may have
\* omitted on, and could write it, does not reject it.
THEOREM WholeFilesAreSaved ==
    ASSUME TrueCameras
    PROVE  DownloadSpec => WholeIsSaved
<1> DEFINE Whole == pc = "verify" /\ source \in WholeScripts /\ delivered = source
                    /\ ~collector.failed
<1>1. ASSUME FInv, [Next]_vars, Whole
      PROVE  part'[name] # NoFile
  <2>1. pc = "verify" /\ source \in WholeScripts /\ delivered = source /\ ~collector.failed
    BY <1>1
  <2>2. PICK stream, at : Transferring(stream, at)
    BY <1>1, <2>1 DEF FInv, Tracked
  <2>3. Verified /\ part[name] # NoFile
    BY <1>1, <2>1, <2>2, WholeIsVerified DEF FInv
  <2>4. name \in Names
    BY <1>1, <2>1, NameType DEF FInv
  <2>5. CASE Verify
    BY <2>3, <2>5 DEF Verify
  <2>6. CASE Crash
    BY <2>3, <2>4, <2>6 DEF Crash, LeftOver, NoFile
  <2>7. CASE DiskChanges \/ UNCHANGED vars
    BY <2>3, <2>7 DEF DiskChanges, fileVars, vars
  <2>8. Verify \/ Crash \/ DiskChanges \/ UNCHANGED vars
    BY <1>1, <2>1 DEF Next, Session, Begin, FrameArrives, Answered, StopCollecting, StreamTimeout,
       Raise, Flush, Rename, SyncDirectory, Disconnect, Collecting
  <2> QED BY <2>5, <2>6, <2>7, <2>8
<1>2. FInv /\ [Next]_vars => [Whole => part'[name] # NoFile]_vars
  BY <1>1
<1> QED BY <1>2, FileInitially, FileStep, TransfersAreSpecified, PTL DEF Spec, WholeIsSaved
=============================================================================
