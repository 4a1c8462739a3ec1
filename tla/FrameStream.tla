---------------------------- MODULE FrameStream ----------------------------
(***************************************************************************)
(* What a download is promised by the UDP session below it: the frames of  *)
(* the camera arrive in the order they were sent, none is skipped and none *)
(* comes twice, until one side closes the session.  UdpStream implements   *)
(* this promise over a network that loses, repeats and reorders packets,   *)
(* and VerifiedDownload relies on it.                                      *)
(***************************************************************************)
EXTENDS Naturals, Sequences

CONSTANTS
    Frames,            \* decoded Baichuan frames
    Scripts            \* what the camera may send in one session

ASSUME ScriptsAssumption == Scripts \subseteq Seq(Frames)

VARIABLES
    source,            \* the frames the camera sends in this session
    delivered,         \* the frames handed to parse_bc_data so far
    open               \* the session is open at this end

streamVars == <<source, delivered, open>>

Prefix(n) == SubSeq(source, 1, n)

StreamInit ==
    /\ source \in Scripts
    /\ delivered = << >>
    /\ open = TRUE

\* A packet that closes a gap hands over every buffered frame behind it.
DeliverUpTo(n) ==
    /\ open
    /\ n \in Len(delivered) + 1 .. Len(source)
    /\ delivered' = Prefix(n)
    /\ UNCHANGED <<source, open>>

Close ==
    /\ open
    /\ open' = FALSE
    /\ UNCHANGED <<source, delivered>>

StreamNext == Close \/ \E n \in Len(delivered) + 1 .. Len(source) : DeliverUpTo(n)

StreamSpec == StreamInit /\ [][StreamNext]_streamVars
=============================================================================
