------------------------- MODULE RecordingDownload -------------------------
(***************************************************************************)
(* The sessions of CameraSession with the transfer of VerifiedDownload in  *)
(* them: what async_prepare_download_for_event of                          *)
(* recording_download_beta22 does from the wake-up to the verified file.   *)
(***************************************************************************)
EXTENDS VerifiedDownload, CameraSession

allVars == <<vars, sessionVars>>

DownloadInit == Init /\ SessionInit

\* The candidate is transferred without an await in between.  The worker passes the
\* recordings it completed, the button none.
SelectAndBegin ==
    /\ \E t \in Targets, completed \in {{}, {r \in Recordings : final[NameOf[r]] # NoFile}} :
          Select(t, completed)
    /\ IF stage' = "transfer"
       THEN Begin(candidate') /\ open' = (conn = "open")
       ELSE UNCHANGED vars

Transfer ==
    /\ stage = "transfer"
    /\ \/ FrameArrives \/ Answered \/ StopCollecting \/ StreamTimeout \/ Rename
       \/ (Flush \/ Verify) /\ pc' # "idle"
    /\ UNCHANGED sessionVars

TransferDone ==
    \/ (Verify \/ SyncDirectory) /\ pc' = "idle" /\ TransferReturns
    \/ (Raise \/ Flush) /\ pc' = "idle" /\ TransferRaises

Lost ==
    /\ ConnectionLost
    /\ IF pc \in Collecting THEN Disconnect ELSE UNCHANGED vars

PowerLoss ==
    /\ Crash
    /\ stage' = "idle" /\ orphan' = FALSE /\ lease' = "none" /\ conn' = "none"
    /\ sending' = FALSE /\ alive' = {} /\ Forget

Progress ==
    \/ SessionStep /\ UNCHANGED vars
    \/ SelectAndBegin \/ Transfer \/ TransferDone

Environment ==
    \/ (StartSession \/ OrphanReturns \/ Cancel \/ SendersStop) /\ UNCHANGED vars
    \/ DiskChanges /\ UNCHANGED sessionVars
    \/ Lost \/ PowerLoss

DownloadNext == Progress \/ Environment

DownloadSpec == DownloadInit /\ [][DownloadNext]_allVars
-----------------------------------------------------------------------------
\* The type invariants of both parts; and a transfer runs exactly in its stage.
DownloadTypeOK == TypeOK /\ SessionTypeOK /\ ((pc # "idle") <=> (stage = "transfer"))
=============================================================================
