-------------------------- MODULE VerifiedDownload --------------------------
(***************************************************************************)
(* One verified download after another: the collector that assembles the   *)
(* frames of a session (recording_download_probe_beta17, 19, 21), and the  *)
(* private file it is persisted to (recording_download_beta22): a .part    *)
(* file that is written while frames arrive, synced, verified and renamed. *)
(*                                                                         *)
(* The frames come from FrameStream.  A file is a sequence of units, of    *)
(* which Ftyp is the MP4 head.  The process may die at every step, the     *)
(* disk may be full, and a session may fail at each of its awaits.         *)
(***************************************************************************)
EXTENDS FrameStream, SdCard

CONSTANTS
    ScriptsOf,         \* what the camera may send for a recording
    Ftyp,              \* the unit an MP4 starts with
    ProbeLimit,        \* STREAM_SAMPLE_MAX_BYTES
    Overhead,          \* VERIFIED_FILE_OVERHEAD_BYTES
    HardCap,           \* VERIFIED_FILE_HARD_CAP_BYTES
    MinFrames,         \* VERIFIED_FILE_MIN_FRAME_LIMIT
    WholeScripts       \* scripts that carry the size and exactly the content

Units == UNION {{f.data[i] : i \in DOMAIN f.data} : f \in Frames}

ASSUME DownloadAssumption ==
    /\ \A r \in Recordings : ScriptsOf[r] \subseteq Scripts /\ Len(Content[r]) \in Nat
    /\ \A s \in Scripts : s # << >>
    /\ Frames \subseteq [cmd : Nat, code : Nat, size : Nat, handle : BOOLEAN,
                         data : Seq(Units), bytes : Nat]
    /\ {ProbeLimit, Overhead, HardCap, MinFrames} \subseteq Nat

NoFile == [data |-> << >>, state |-> "none"]
\* A .part file that stays: its data is never read again.
LeftOver == [data |-> << >>, state |-> "left"]
NoCode == -1
Names == {NameOf[r] : r \in Recordings}

VARIABLES
    pc,          \* where send_file_download_probe is
    rec,         \* the recording of the session
    collector,   \* the trace and the aggregate
    part,        \* the .part file of each name: its data, and how durable they are
    final,       \* the renamed file of each name
    undo,        \* the file a power loss may bring back: <<file>>, or nothing
    full,        \* the disk is full, during a session
    saved        \* names that a session saved and whose directory it synced

fileVars == <<part, final, undo>>
vars == <<streamVars, pc, rec, collector, fileVars, full, saved>>

name == NameOf[rec]

-----------------------------------------------------------------------------
(* The collector.                                                          *)

Smaller(a, b) == IF a < b THEN a ELSE b
Larger(a, b) == IF a > b THEN a ELSE b

ByteLimit(expected) == Smaller(Larger(ProbeLimit, expected + Overhead), HardCap)
\* A frame for every unit (2048 bytes in the code), and one more.
FrameLimit(bytes) == Larger(MinFrames, bytes + 1)

EmptyCollector(size) ==
    [agg |-> << >>, expected |-> 0, handle |-> FALSE, first |-> NoCode, stop |-> FALSE,
     limit |-> ByteLimit(size), bytes |-> 0, frames |-> 0,
     reached |-> FALSE, match |-> FALSE, persisted |-> 0, failed |-> FALSE]

\* What was aggregated from the first MP4 head on; nothing as long as there is none.
Mp4(agg) ==
    LET heads == {i \in DOMAIN agg : agg[i] = Ftyp} IN
    IF heads = {} THEN << >>
    ELSE SubSeq(agg, CHOOSE i \in heads : \A j \in heads : i <= j, Len(agg))

Accepted(f) == f.code \in {0, 200}

\* Sizes and the handle in a decrypted answer.
InspectXml(c, f) ==
    [c EXCEPT !.expected = Larger(@, f.size),
              !.handle = @ \/ (f.cmd = 13 /\ f.handle)]

\* The authoritative size of cmd13 raises the limits the candidate's gave.
\* Mutant: the limits stay at the size of the candidate.
ResizeLimitsNever(c, f) == c
ResizeLimits(c, f) ==
    IF f.cmd = 13 /\ Accepted(f) /\ c.expected > 0
    THEN [c EXCEPT !.limit = Larger(@, ByteLimit(c.expected))] ELSE c

\* Mutant: what exceeds the room is kept.
AggregateAll(c, f) ==
    LET agg == c.agg \o f.data
        size == Len(Mp4(agg))
        counts == Mp4(agg) # << >> /\ c.expected > 0
    IN  IF f.cmd = 8 /\ Accepted(f) /\ f.data # << >>
        THEN [c EXCEPT !.agg = agg,
                       !.reached = IF counts THEN size >= c.expected ELSE @,
                       !.match = IF counts THEN size = c.expected ELSE @]
        ELSE c

Aggregate(c, f) ==
    LET room == Larger(c.limit - Len(c.agg), 0)
        agg == c.agg \o SubSeq(f.data, 1, Smaller(room, Len(f.data)))
        size == Len(Mp4(agg))
        counts == Mp4(agg) # << >> /\ c.expected > 0
    IN  IF f.cmd = 8 /\ Accepted(f) /\ f.data # << >>
        THEN [c EXCEPT !.agg = agg,
                       !.reached = IF counts THEN size >= c.expected ELSE @,
                       !.match = IF counts THEN size = c.expected ELSE @]
        ELSE c

\* The observer runs before the codes and the limits stop the stream.
Observe(c, f) ==
    LET o == Aggregate(ResizeLimits(InspectXml(c, f), f), f) IN
    IF c.first = NoCode /\ f.cmd # 13 THEN c
    ELSE [o EXCEPT
            !.first = IF @ = NoCode THEN f.code ELSE @,
            !.bytes = @ + f.bytes,
            !.frames = @ + 1,
            !.stop = \/ @ \/ ~Accepted(f)
                     \/ o.bytes + f.bytes >= o.limit
                     \/ o.frames + 1 >= FrameLimit(o.limit)]

-----------------------------------------------------------------------------
Collecting == {"answer", "stream"}

\* The connection object and what it collected are dropped.
ForgetStream ==
    /\ source' = << >> /\ delivered' = << >> /\ collector' = EmptyCollector(0)
    /\ rec' = NoRecording /\ full' = FALSE

Init ==
    /\ source = << >> /\ delivered = << >> /\ open = FALSE
    /\ pc = "idle" /\ rec = NoRecording /\ collector = EmptyCollector(0)
    /\ part = [n \in Names |-> NoFile] /\ final = [n \in Names |-> NoFile]
    /\ undo = [n \in Names |-> << >>]
    /\ full = FALSE /\ saved = {}

\* The FileInfo page may omit the size, the connection may be lost already.  An older
\* .part file is replaced.
Begin(r) ==
    /\ pc = "idle"
    /\ pc' = "answer" /\ rec' = r
    /\ source' \in ScriptsOf[r] /\ delivered' = << >>
    /\ open' \in BOOLEAN /\ full' \in BOOLEAN
    /\ \E size \in {0, Len(Content[r])} : collector' = EmptyCollector(size)
    /\ part' = [part EXCEPT ![NameOf[r]] = [data |-> << >>, state |-> "written"]]
    /\ UNCHANGED <<final, undo, saved>>

\* fh.write: a small write stays in the buffer of the file object.  On a full disk it
\* may raise after a part of it; the observer's exception is swallowed.
Persist(c, new) ==
    LET written(data, state) ==
            part' = [part EXCEPT ![name] = [data |-> @.data \o data, state |-> state]]
    IN  \/ /\ \E state \in {"buffered", "written"} :
                (full => state = "buffered") /\ written(new, state)
           /\ collector' = [c EXCEPT !.persisted = @ + Len(new)]
        \/ /\ full
           /\ \E k \in 0 .. Len(new) - 1 : written(SubSeq(new, 1, k), "buffered")
           /\ collector' = [c EXCEPT !.failed = TRUE]

\* One frame of the session while the probe is armed.
FrameArrives ==
    LET f == source[Len(delivered) + 1]
        c == Observe(collector, f)
        new == SubSeq(Mp4(c.agg), c.persisted + 1, Len(Mp4(c.agg)))
    IN  /\ pc \in Collecting /\ Len(delivered) < Len(source)
        /\ f.cmd = 8 => pc = "stream"
        /\ DeliverUpTo(Len(delivered) + 1)
        /\ IF f.cmd = 8 /\ Accepted(f) /\ new # << >>
           THEN Persist(c, new)
           ELSE collector' = c /\ UNCHANGED part
        /\ UNCHANGED <<pc, rec, final, undo, full, saved>>

Disconnect ==
    /\ pc \in Collecting
    /\ Close
    /\ collector' = [collector EXCEPT !.stop = TRUE]
    /\ UNCHANGED <<pc, rec, fileVars, full, saved>>

\* Close and remove the .part file; the close flushes what is still buffered, and
\* when that raises the file is not removed.
Abandon ==
    /\ open' = FALSE /\ pc' = "idle"
    /\ IF full /\ part[name].state = "buffered"
       THEN part' = [part EXCEPT ![name] = LeftOver]
       ELSE part' = [part EXCEPT ![name] = NoFile]
    /\ ForgetStream
    /\ UNCHANGED <<final, undo, saved>>

\* Cancellation, the timeout of the answer, a lost connection, an answer without handle.
Raise == pc \in Collecting /\ Abandon

Answered ==
    /\ pc = "answer" /\ collector.first # NoCode
    /\ \/ collector.first \notin {0, 200, 201, 300} /\ pc' = "flush"
       \/ collector.first \in {0, 200, 201, 300} /\ collector.handle /\ pc' = "stream"
    /\ UNCHANGED <<streamVars, rec, collector, fileVars, full, saved>>

\* The loop that polls the trace, the wait for the delivery of cmd8 included.
StopCollecting ==
    /\ pc = "stream"
    /\ collector.reached \/ Len(collector.agg) >= collector.limit \/ collector.stop
    /\ pc' = "flush"
    /\ UNCHANGED <<streamVars, rec, collector, fileVars, full, saved>>

\* STREAM_IDLE_TIMEOUT or STREAM_HARD_TIMEOUT.
StreamTimeout ==
    /\ pc = "stream" /\ pc' = "flush"
    /\ UNCHANGED <<streamVars, rec, collector, fileVars, full, saved>>

\* Mutant: the file is not synced before it is renamed.
FlushOnly ==
    /\ pc = "flush"
    /\ IF full /\ part[name].state = "buffered" THEN Abandon
       ELSE /\ part' = [part EXCEPT ![name].state = "written"] /\ pc' = "verify"
            /\ UNCHANGED <<streamVars, rec, collector, final, undo, full, saved>>

\* _finalize_verified_file, one action per effect on the disk.
Flush ==
    /\ pc = "flush"
    /\ IF full /\ part[name].state = "buffered" THEN Abandon
       ELSE /\ part' = [part EXCEPT ![name].state = "synced"] /\ pc' = "verify"
            /\ UNCHANGED <<streamVars, rec, collector, final, undo, full, saved>>

Verified ==
    LET data == part[name].data IN
    /\ collector.match /\ collector.expected > 0
    /\ Len(data) = collector.expected /\ collector.persisted = collector.expected
    /\ data[1] = Ftyp

\* Mutant: a rejected file is left.
VerifyLeaves ==
    /\ pc = "verify"
    /\ \/ Verified /\ pc' = "rename"
          /\ UNCHANGED <<part, streamVars, rec, collector, full>>
       \/ ~Verified /\ pc' = "idle" /\ ForgetStream /\ open' = FALSE /\ UNCHANGED part
    /\ UNCHANGED <<final, undo, saved>>

Verify ==
    /\ pc = "verify"
    /\ \/ Verified /\ pc' = "rename"
          /\ UNCHANGED <<part, streamVars, rec, collector, full>>
       \/ /\ ~Verified /\ pc' = "idle" /\ part' = [part EXCEPT ![name] = NoFile]
          /\ ForgetStream /\ open' = FALSE
    /\ UNCHANGED <<final, undo, saved>>

Rename ==
    /\ pc = "rename" /\ pc' = "directory"
    /\ final' = [final EXCEPT ![name] = part[name]]
    /\ undo' = [undo EXCEPT ![name] = IF @ = << >> THEN <<final[name]>> ELSE @]
    /\ part' = [part EXCEPT ![name] = NoFile]
    /\ UNCHANGED <<streamVars, rec, collector, full, saved>>

\* Some filesystems cannot sync a directory: the OSError is ignored.
SyncDirectory ==
    /\ pc = "directory" /\ pc' = "idle"
    /\ \/ undo' = [undo EXCEPT ![name] = << >>] /\ saved' = saved \union {name}
       \/ UNCHANGED <<undo, saved>>
    /\ ForgetStream /\ open' = FALSE
    /\ UNCHANGED <<part, final>>

\* Other programs fill the disk and free it; it matters during a session only.
DiskChanges ==
    /\ pc # "idle" /\ full' = ~full
    /\ UNCHANGED <<streamVars, pc, rec, collector, fileVars, saved>>

\* Power is lost: what was not synced may be cut, a rename that was not synced undone.
Crash ==
    LET cut(file, k) ==
            IF file.state \in {"none", "synced"} THEN file
            ELSE [data |-> SubSeq(file.data, 1, Len(file.data) - k), state |-> "synced"]
        renamed == {n \in Names : undo[n] # << >>}
    IN  /\ pc' = "idle" /\ open' = FALSE
        /\ \E k \in 0 .. 1, undone \in SUBSET renamed :
            /\ final' = [n \in Names |-> IF n \in undone THEN undo[n][1] ELSE cut(final[n], k)]
            /\ part' = [n \in Names |-> IF n \in undone \/ part[n] # NoFile THEN LeftOver
                                        ELSE NoFile]
        /\ undo' = [n \in Names |-> << >>]
        /\ ForgetStream
        /\ UNCHANGED saved

-----------------------------------------------------------------------------
Session ==
    \/ \E r \in Recordings : Begin(r)
    \/ FrameArrives \/ Answered \/ StopCollecting \/ StreamTimeout \/ Raise
    \/ Flush \/ Verify \/ Rename \/ SyncDirectory

Next == Session \/ Disconnect \/ DiskChanges \/ Crash

Spec == Init /\ [][Next]_vars

-----------------------------------------------------------------------------
(* What the camera is relied on for: no check of the code can replace it.   *)

CarriesData(f) == f.cmd = 8 /\ Accepted(f)

\* One answer, before the data; the chunks are consecutive stretches of one stream, and
\* the size that is announced, when it is within the cap, is that of the recording.
\* at[i]: how much of the stream was sent before frame i.
Honest(r, s, stream, at) ==
    /\ stream \in Seq(Units) /\ at \in [1 .. Len(s) + 1 -> 0 .. Len(stream)] /\ at[1] = 0
    /\ \A i \in DOMAIN s :
        /\ s[i].cmd = 13 => i = 1
        /\ at[i + 1] = at[i] + IF CarriesData(s[i]) THEN Len(s[i].data) ELSE 0
        /\ CarriesData(s[i]) => s[i].data = SubSeq(stream, at[i] + 1, at[i + 1])
        /\ s[i].size \in 1 .. Smaller(HardCap, Len(Mp4(stream)))
              => SubSeq(Mp4(stream), 1, s[i].size) = Content[r]

\* The answer carries the size and all of the recording follows, with no more before it
\* than the overhead the code allows for.
SendsAll(r, s, stream, at) ==
    /\ Honest(r, s, stream, at)
    /\ s[1].cmd = 13 /\ Accepted(s[1]) /\ s[1].size = Len(Content[r])
    /\ \A i \in DOMAIN s : s[i].size <= s[1].size
    /\ Content[r] # << >> /\ Mp4(stream) = Content[r] /\ at[Len(s) + 1] = Len(stream)
    /\ Len(stream) <= Smaller(Len(Content[r]) + Overhead, HardCap)

-----------------------------------------------------------------------------
FileType == [data : Seq(Units),
             state : {"none", "buffered", "written", "synced", "left"}]

TypeOK ==
    /\ source \in Scripts \union {<< >>} /\ delivered \in Seq(Frames) /\ open \in BOOLEAN
    /\ pc \in {"idle", "answer", "stream", "flush", "verify", "rename", "directory"}
    /\ rec \in Recordings \union {NoRecording}
    /\ part \in [Names -> FileType] /\ final \in [Names -> FileType]
    /\ undo \in [Names -> Seq(FileType)] /\ saved \subseteq Names
    /\ full \in BOOLEAN
    /\ Len(collector.agg) <= collector.limit /\ collector.limit <= HardCap

\* What a session saved and synced is there from then on.
SavedStays == \A n \in saved : final[n] # NoFile

\* A final file is the whole MP4 of a recording of its name, whatever was lost, cut
\* short, sent too much, written twice or interrupted by a power loss; and what was saved
\* stays when power fails during a later download of the same name.
FinalComplete ==
    /\ \A n \in Names : final[n] = NoFile
         \/ \E r \in Recordings : NameOf[r] = n /\ final[n].data = Content[r]
    /\ SavedStays

\* A failed session leaves no .part file, other than one that a crash or a full disk
\* interrupts.
NoPartLeft == pc = "idle" => \A n \in Names : part[n] \in {NoFile, LeftOver}

\* "Incomplete or invalid .part files are removed" (recording_download_beta22): a .part
\* file outlives a session only when the process died.
FailureRemovesPart ==
    [][ \A n \in Names : part'[n] = LeftOver /\ part[n] # LeftOver => Crash ]_vars

\* A download that got the whole file is not rejected: the collector's limits, which
\* start from a size the camera may have omitted, leave room for it.
WholeIsSaved ==
    [][ pc = "verify" /\ source \in WholeScripts /\ delivered = source /\ ~collector.failed
          => part'[name] # NoFile ]_vars
=============================================================================
