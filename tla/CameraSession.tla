--------------------------- MODULE CameraSession ---------------------------
(***************************************************************************)
(* One short session with the battery camera after another: the UID is     *)
(* resolved on the LAN, a connection opened, the session logged in, the    *)
(* recordings of a day listed, one selected and transferred, and all of it *)
(* released.  The kinds of session are async_validate_legacy_device        *)
(* (camera), async_find_recording_for_event (recording_probe) and          *)
(* async_prepare_download_for_event (recording_download_probe), which      *)
(* adopts the socket of the discovery instead of opening a second one.     *)
(*                                                                         *)
(* Every await may be cancelled, fail or time out; the camera may end the  *)
(* session at any moment.                                                  *)
(***************************************************************************)
EXTENDS SdCard

CONSTANTS
    Targets,             \* times of notifications
    Tolerance,           \* DEFAULT_MATCH_TOLERANCE
    Listings,            \* pages the camera may answer: [files, finished]
    PageSize,            \* TYPICAL_FILE_INFO_PAGE_SIZE
    MaxPages,            \* MAX_FILE_INFO_PAGES
    OpenRetries          \* length of FILE_INFO_OPEN_RETRY_DELAYS_SECONDS

Pages == [files : SUBSET Recordings, finished : {"yes", "no", "unknown"}]

ASSUME SessionAssumption ==
    /\ NoRecording \notin Recordings /\ {Start, End} \subseteq [Recordings -> Nat]
    /\ Targets \subseteq Nat /\ {Tolerance, PageSize, OpenRetries} \subseteq Nat
    /\ MaxPages \in Nat \ {0} /\ Listings \subseteq Seq(Pages)

Kinds == {"validate", "find", "download"}

VARIABLES
    stage,       \* the await the session is at
    kind, target,
    failure,     \* the stage of the CameraStageError, "" without
    orphan,      \* a resolving thread whose session was cancelled still runs
    lease,       \* who owns the discovery socket
    conn,        \* the Baichuan connection
    sending,     \* the heartbeat and ACK tasks of an adopted connection run
    alive,       \* identities the camera keeps a session for
    handle,      \* the list handle; "left": its closing was tried, a list may remain
    unread,      \* the camera may hold a list whose handle never arrived
    attempts, pages, listing, listed,
    cut,         \* the list ended before the camera said so
    candidate

listVars == <<handle, unread, attempts, pages, listing, listed, cut, candidate>>
linkVars == <<lease, conn, sending, alive>>
sessionVars == <<stage, kind, target, failure, orphan, linkVars, listVars>>

Goto(s) == stage' = s
\* Mutant: an exception goes straight to the logout.
FailStraight(s) == failure' = s /\ Goto("logout")

\* An exception: what the list opened is closed first, then the finally clauses run.
Fail(s) == failure' = s /\ Goto(IF handle = "open" THEN "close" ELSE "logout")

-----------------------------------------------------------------------------
(* Selecting the recording of an event.                                    *)

Distance(t, r) ==
    IF t < Start[r] THEN Start[r] - t ELSE IF t > End[r] THEN t - End[r] ELSE 0

\* Nearest first, the earlier one of two at the same distance.
Before(t, q, r) ==
    \/ Distance(t, q) < Distance(t, r)
    \/ Distance(t, q) = Distance(t, r) /\ Start[q] < Start[r]

Nearest(t, files) == CHOOSE r \in files : \A q \in files : ~Before(t, q, r)

\* Mutant: of two recordings at the same distance the earlier one is taken.
SelectCandidateDespiteTie(t, files) ==
    IF files = {} \/ Distance(t, Nearest(t, files)) > Tolerance THEN NoRecording
    ELSE Nearest(t, files)

SelectCandidate(t, files) ==
    LET first == Nearest(t, files)
        others == files \ {first}
        tie == others # {} /\ Distance(t, Nearest(t, others)) = Distance(t, first)
    IN  IF files = {} \/ Distance(t, first) > Tolerance \/ tie THEN NoRecording ELSE first

-----------------------------------------------------------------------------
SessionInit ==
    /\ stage = "idle" /\ kind = "none" /\ target = 0
    /\ failure = "" /\ orphan = FALSE
    /\ lease = "none" /\ conn = "none" /\ sending = FALSE /\ alive = {}
    /\ handle = "none" /\ unread = FALSE /\ attempts = 0 /\ pages = 0 /\ listing = << >>
    /\ listed = {} /\ cut = FALSE /\ candidate = NoRecording

\* The locals of _list_recordings_file_info are gone.
ForgetList ==
    /\ handle' = "none" /\ unread' = FALSE /\ attempts' = 0
    /\ pages' = 0 /\ listing' = << >> /\ listed' = {} /\ cut' = FALSE

\* The locals of the session are gone when it returns.
Forget ==
    /\ kind' = "none" /\ target' = 0 /\ failure' = ""
    /\ candidate' = NoRecording /\ ForgetList

\* Identities that stay on the camera until it times them out: "stray" ones, which no task
\* holds any more, and "told" ones, whose disconnect may not have arrived.
Stray(i) == (alive \ {i}) \union {"stray"}

\* A disconnect is one datagram: it may be lost, or fail to be sent.
Disconnected(i) == {alive \ {i}, (alive \ {i}) \union {"told"}}

\* Links are those of this session: senders of an earlier connection see that one
\* closed, and the camera times out what an earlier session left.
StartSession ==
    /\ stage = "idle"
    /\ Goto("resolve") /\ kind' \in Kinds
    /\ lease' = "none" /\ conn' = "none" /\ sending' = FALSE
    /\ orphan' = FALSE /\ alive' = {}
    /\ UNCHANGED <<target, failure, listVars>>

\* resolve_uid_lan runs in a thread and wakes the camera, whose answer may be missed.
Resolve ==
    /\ stage = "resolve"
    /\ \/ lease' = "task" /\ alive' = alive \union {"discovery"}
          /\ Goto("connect") /\ UNCHANGED failure
       \/ Fail("UID_RESOLVE_ERROR") /\ alive' \in {alive, Stray("none")} /\ UNCHANGED lease
    /\ UNCHANGED <<kind, target, orphan, conn, sending, listVars>>

\* A thread cannot be cancelled: its lease is dropped unseen when it returns.
OrphanReturns ==
    /\ orphan /\ orphan' = FALSE
    /\ alive' \in {alive, Stray("none")}
    /\ UNCHANGED <<stage, kind, target, failure, lease, conn, sending, listVars>>

RouteFails ==
    /\ stage = "connect"
    /\ Fail("UID_RESOLVE_ERROR")
    /\ UNCHANGED <<kind, target, orphan, linkVars, listVars>>

\* A socket that was detached and not adopted is closed without a disconnect.
AdoptionLost ==
    /\ stage = "connect" /\ kind = "download"
    /\ lease' = "closed" /\ alive' = Stray("discovery")
    /\ UNCHANGED <<conn, sending>>

\* The discovery socket becomes the connection, which starts its two senders.
Adopt ==
    /\ stage = "connect" /\ kind = "download"
    /\ \/ /\ lease' = "conn" /\ conn' = "open" /\ sending' = TRUE
          /\ Goto("login") /\ UNCHANGED <<failure, alive>>
       \/ AdoptionLost /\ Fail("WAKE_ERROR")
    /\ UNCHANGED <<kind, target, orphan, listVars>>

\* A second identity that was not opened in the end; the camera may have answered already.
ConnectUnfinished ==
    /\ stage = "connect" /\ kind # "download"
    /\ alive' \in {alive, Stray("none")}
    /\ UNCHANGED <<lease, conn, sending>>

\* A second identity; the one of the discovery is released once it is open, which may raise.
Connect ==
    /\ stage = "connect" /\ kind # "download"
    /\ \/ /\ conn' = "open" /\ lease' = "closed" /\ UNCHANGED sending
          /\ \E left \in Disconnected("discovery") : alive' = left \union {"session"}
          /\ \/ Goto("login") /\ UNCHANGED failure
             \/ Fail("WAKE_ERROR")
       \/ ConnectUnfinished /\ Fail("WAKE_ERROR")
    /\ UNCHANGED <<kind, target, orphan, listVars>>

Login ==
    /\ stage = "login"
    /\ \/ conn = "open" /\ Goto(IF kind = "validate" THEN "query" ELSE "open")
          /\ UNCHANGED failure
       \/ Fail("AUTH_ERROR")
    /\ UNCHANGED <<kind, target, orphan, linkVars, listVars>>

\* async_collect_local_state skips what the camera refuses; other errors count as login.
Query ==
    /\ stage = "query"
    /\ \/ Goto("logout") /\ UNCHANGED failure
       \/ Fail("AUTH_ERROR")
    /\ UNCHANGED <<kind, target, orphan, linkVars, listVars>>

-----------------------------------------------------------------------------
(* Listing the recordings of the day.                                      *)

MayRetry == attempts < OpenRetries /\ conn = "open"

\* cmd14 without a handle: the camera may have opened a list all the same.
Unanswered == unread' \in {unread, TRUE} /\ UNCHANGED handle

OpenList ==
    /\ stage = "open"
    /\ \/ /\ conn = "open" /\ handle' = "open" /\ listing' \in Listings /\ Goto("page")
          /\ attempts' = 0 /\ UNCHANGED <<failure, unread>>
       \/ Unanswered /\ Fail("FILE_INFO_HANDLE_ERROR") /\ UNCHANGED <<attempts, listing>>
       \/ /\ Unanswered /\ MayRetry /\ attempts' = attempts + 1
          /\ UNCHANGED <<stage, failure, listing>>
       \/ /\ Unanswered /\ ~MayRetry /\ Fail("FILE_INFO_OPEN_ERROR")
          /\ UNCHANGED <<attempts, listing>>
    /\ UNCHANGED <<kind, target, orphan, linkVars, pages, listed, cut, candidate>>

LastPage(page) ==
    \/ page.finished = "yes"
    \/ page.files = {}
    \/ page.finished = "unknown" /\ Cardinality(page.files) < PageSize

GetPage ==
    LET page == listing[pages + 1] IN
    /\ stage = "page" /\ conn = "open" /\ pages < Len(listing)
    /\ pages' = pages + 1 /\ listed' = listed \union page.files
    /\ Goto(IF LastPage(page) \/ pages' = MaxPages THEN "close" ELSE "page")
    /\ cut' = (~LastPage(page) /\ pages' = MaxPages)
    /\ UNCHANGED <<kind, target, failure, orphan, linkVars, handle, unread, attempts,
                   listing, candidate>>

\* Some firmwares end the list with a 400.
PageFails ==
    /\ stage = "page"
    /\ \/ Fail("FILE_INFO_GET_ERROR") /\ UNCHANGED cut
       \/ Fail("FILE_INFO_PARSE_ERROR") /\ UNCHANGED cut
       \/ conn = "open" /\ pages > 0 /\ Goto("close") /\ cut' = TRUE /\ UNCHANGED failure
    /\ UNCHANGED <<kind, target, orphan, linkVars, handle, unread, attempts, pages,
                   listing, listed, candidate>>

\* cmd16 is tried once.  Its errors are ignored, those of a lost connection included.
TryClose ==
    /\ \/ handle' = "left"
       \/ handle' = "closed" /\ conn = "open" /\ ~unread
    /\ unread' = FALSE

CloseList ==
    /\ stage = "close"
    /\ TryClose
    /\ Goto(IF failure = "" THEN "select" ELSE "logout")
    /\ UNCHANGED <<kind, target, failure, orphan, linkVars, attempts, pages, listing,
                   listed, cut, candidate>>

\* For an event of time t; completed: the recordings whose fingerprints the caller passed.
Select(t, completed) ==
    LET r == SelectCandidate(t, listed) IN
    /\ stage = "select"
    /\ target' = t /\ candidate' = r
    /\ IF r = NoRecording THEN Fail("RECORDING_MATCH_ERROR")
       ELSE IF kind = "download" /\ r \in completed THEN Fail("RECORDING_ALREADY_COMPLETED")
       ELSE Goto(IF kind = "find" THEN "logout" ELSE "transfer") /\ UNCHANGED failure
    /\ ForgetList
    /\ UNCHANGED <<kind, orphan, linkVars>>

TransferReturns ==
    /\ stage = "transfer"
    /\ Goto("logout")
    /\ UNCHANGED <<kind, target, failure, orphan, linkVars, listVars>>

TransferRaises ==
    /\ stage = "transfer"
    /\ \E s \in {"DOWNLOAD_PREPARE_FRAME_ERROR", "DOWNLOAD_PREPARE_TIMEOUT", "cancelled"} : Fail(s)
    /\ UNCHANGED <<kind, target, orphan, linkVars, listVars>>

-----------------------------------------------------------------------------
(* The finally clauses.                                                    *)

Own == IF lease = "conn" THEN "discovery" ELSE "session"

Logout ==
    /\ stage = "logout" /\ Goto("closing")
    /\ UNCHANGED <<kind, target, failure, orphan, linkVars, listVars>>

\* Whether the disconnect is sent, fails or is cancelled, the connection is closed here.
CloseConnection ==
    /\ stage = "closing" /\ Goto("release")
    /\ IF conn = "open"
       THEN conn' = "closed" /\ sending' = FALSE /\ alive' \in Disconnected(Own)
       ELSE UNCHANGED <<conn, sending, alive>>
    /\ failure' \in {failure, "cancelled"}
    /\ UNCHANGED <<kind, target, orphan, lease, listVars>>

\* Mutant: the lease is forgotten, not closed.
ReleaseLeaseForgotten ==
    /\ stage = "release" /\ Goto("idle") /\ Forget
    /\ UNCHANGED <<orphan, lease, conn, sending, alive>>

ReleaseLease ==
    /\ stage = "release" /\ Goto("idle") /\ Forget
    /\ IF lease = "task" THEN lease' = "closed" /\ alive' \in Disconnected("discovery")
       ELSE UNCHANGED <<lease, alive>>
    /\ UNCHANGED <<orphan, conn, sending>>

\* The task is cancelled at an await: entry unloaded, Home Assistant stopping.
Cancel ==
    /\ stage \in {"resolve", "connect", "login", "query", "open", "page", "close", "logout"}
    /\ CASE stage = "logout" ->
                Goto("closing") /\ failure' = "cancelled" /\ UNCHANGED <<handle, unread>>
         [] stage = "close" -> Goto("logout") /\ failure' = "cancelled" /\ TryClose
         [] stage = "open" -> Fail("cancelled") /\ Unanswered
         [] OTHER -> Fail("cancelled") /\ UNCHANGED <<handle, unread>>
    /\ orphan' = (orphan \/ stage = "resolve")
    /\ UNCHANGED linkVars \/ AdoptionLost \/ ConnectUnfinished
    /\ UNCHANGED <<kind, target, attempts, pages, listing, listed, cut, candidate>>

\* D2C_DISC; or the socket fails here, which the camera does not notice.
ConnectionLost ==
    /\ conn = "open" /\ conn' = "lost" /\ alive' \in {alive \ {Own}, Stray(Own)}
    /\ UNCHANGED <<stage, kind, target, failure, orphan, lease, sending, listVars>>

\* The senders find their connection closed when they wake up.
SendersStop ==
    /\ sending /\ conn # "open" /\ sending' = FALSE
    /\ UNCHANGED <<stage, kind, target, failure, orphan, lease, conn, alive, listVars>>

-----------------------------------------------------------------------------
ListStep == OpenList \/ GetPage \/ PageFails \/ CloseList

SessionStep ==
    \/ Resolve \/ RouteFails \/ Adopt \/ Connect \/ Login \/ Query \/ ListStep
    \/ Logout \/ CloseConnection \/ ReleaseLease

SessionNext ==
    \/ StartSession \/ SessionStep \/ OrphanReturns \/ Cancel \/ ConnectionLost
    \/ SendersStop \/ TransferReturns \/ TransferRaises
    \/ \E t \in Targets : Select(t, {}) \/ Select(t, Recordings)

SessionSpec == SessionInit /\ [][SessionNext]_sessionVars

-----------------------------------------------------------------------------
SessionTypeOK ==
    /\ stage \in {"idle", "resolve", "connect", "login", "query", "open", "page", "close",
                  "select", "transfer", "logout", "closing", "release"}
    /\ kind \in Kinds \union {"none"} /\ target \in Targets \union {0}
    /\ orphan \in BOOLEAN /\ lease \in {"none", "task", "conn", "closed"}
    /\ conn \in {"none", "open", "lost", "closed"} /\ sending \in BOOLEAN
    /\ alive \subseteq {"discovery", "session", "stray", "told"}
    /\ handle \in {"none", "open", "closed", "left"} /\ unread \in BOOLEAN
    /\ attempts \in 0 .. OpenRetries
    /\ pages \in 0 .. MaxPages /\ listed \subseteq Recordings /\ cut \in BOOLEAN
    /\ candidate \in Recordings \union {NoRecording}

\* However a session ends, nothing of it keeps the camera awake from here: no connection or
\* socket is left open, no sender runs on for a connection it closed, and it tried to
\* disconnect every identity it held.  Identities that nobody can disconnect remain only of
\* a session that failed, or whose connection was lost.
EndedMeansQuiet ==
    /\ stage = "idle" =>
        /\ conn # "open" /\ lease # "task"
        /\ alive \subseteq {"stray", "told"}
        /\ conn = "closed" => ~sending
    /\ stage = "release" /\ failure = "" /\ conn = "closed" => alive \subseteq {"told"}

\* Whatever fails or is cancelled, the closing of a list whose handle is known was tried
\* before the logout, and before a recording is selected from it.
ListClosed ==
    /\ stage \in {"logout", "closing", "release", "idle"} => handle # "open"
    /\ stage = "select" => handle \in {"closed", "left"}

\* What the camera is relied on for: no page follows one that ends the list.
NothingFollows ==
    \A list \in Listings : \A i \in DOMAIN list : LastPage(list[i]) => i = Len(list)

\* The selected recording is the only nearest one of all recordings of the day, and no
\* match means there is none, when the list was not cut short.
OnlyNearest(t, files) ==
    {r \in files : /\ Distance(t, r) <= Tolerance
                   /\ \A q \in files \ {r} : Distance(t, r) < Distance(t, q)}

LookupSound ==
    [][ stage = "select" /\ stage' \notin {"select", "idle"} /\ ~cut =>
        LET day == OnlyNearest(target', UNION {listing[i].files : i \in DOMAIN listing}) IN
        IF candidate' = NoRecording THEN day = {} ELSE candidate' \in day ]_sessionVars
=============================================================================
