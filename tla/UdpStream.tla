----------------------------- MODULE UdpStream -----------------------------
(***************************************************************************)
(* The UDP session of a download: _P2PHeartbeatProbeProtocol and           *)
(* _P2PHeartbeatFullTransferConnection of recording_download_probe_beta20  *)
(* over the receive window of reolink_aio, against a camera that keeps a   *)
(* window of unacknowledged packets.  Packets are named by their sequence  *)
(* number, counted from 0; each direction of the network is a set, so      *)
(* packets overtake each other, arrive twice or are lost.                  *)
(***************************************************************************)
EXTENDS Integers, Sequences, FiniteSets

CONSTANTS
    Frames,           \* decoded Baichuan frames, one in each packet
    Scripts,          \* what the camera may send, the answer to cmd13 first
    Window,           \* packets the camera sends ahead of the acknowledged ones
    MaxRetransmits,   \* RELIABLE_UDP_MAX_RETRANSMITS
    MaxAcks           \* bound: acknowledgements in flight per direction

ASSUME UdpAssumption ==
    /\ Scripts \subseteq Seq(Frames)
    /\ Window \in Nat \ {0} /\ MaxRetransmits \in Nat /\ MaxAcks \in Nat \ {0}

\* The two commands sent reliably, cmd13 and cmd8, by their sequence number.
Commands == {0, 1}

NoWait == -1

VARIABLES
    source, delivered, open,   \* as in FrameStream
    recvSeq,                   \* _recv_seq_id: the last packet received in sequence
    seqData,                   \* _seq_data: packets buffered behind a gap
    down, acks,                \* in flight: the camera's packets, the client's ACKs
    camNext, camAcked,         \* the camera: packets sent, packets it may forget
    sent,                      \* keys of _reliable_sent_at
    waiting, retransmits,      \* the command of _send_reliable_download_packet
    cmdAcked,                  \* _reliable_acked_seq_ids
    up, cmdAcks,               \* in flight: command packets, the camera's ACKs
    camCmds                    \* commands the camera received

clientVars == <<recvSeq, seqData>>
cameraVars == <<camNext, camAcked, camCmds>>
commandVars == <<sent, waiting, retransmits, cmdAcked>>
streamVars == <<source, delivered, open>>
vars == <<streamVars, clientVars, down, acks, cameraVars, commandVars, up, cmdAcks>>

PacketIds == UNION {0 .. Len(s) - 1 : s \in Scripts}
Seqs == 0 .. Len(source) - 1
Highest(S) == CHOOSE x \in S : \A y \in S : y <= x

\* The bitmap covers the packets behind the base up to the highest one held,
\* that one included.
Bitmap(base, held) ==
    [i \in 1 .. (IF held = {} THEN 0 ELSE Highest(held) - base) |-> base + i \in held]

\* Mutant: the highest packet held is acknowledged, whatever is missing before it.
AckOfHighest(base, held) == [base |-> Highest(held \union {base}), bits |-> << >>]
AckOf(base, held) == [base |-> base, bits |-> Bitmap(base, held)]

\* Mutant: off by one.
AcknowledgedNext(ack, s) ==
    \/ s <= ack.base + 1
    \/ s - ack.base \in DOMAIN ack.bits /\ ack.bits[s - ack.base]

Acknowledged(ack, s) ==
    \/ s <= ack.base
    \/ s - ack.base \in DOMAIN ack.bits /\ ack.bits[s - ack.base]

\* The channel with one more ACK, or with only that one left.
InFlight(channel, ack) ==
    {c \in {channel \union {ack}, {ack}} : Cardinality(c) <= MaxAcks}

\* An answer or a delivered stream frame ends the wait as well as the ACK does.
Responded(c) == Len(delivered) > c
Resolved(c) == c \in cmdAcked \/ Responded(c)

Init ==
    /\ source \in Scripts /\ delivered = << >> /\ open = TRUE
    /\ recvSeq = -1 /\ seqData = {} /\ down = {} /\ acks = {}
    /\ camNext = 0 /\ camAcked = {} /\ camCmds = {}
    /\ sent = {} /\ waiting = NoWait /\ retransmits = 0 /\ cmdAcked = {}
    /\ up = {} /\ cmdAcks = {}

-----------------------------------------------------------------------------
(* Receiving: one packet of the camera.  `left` is what stays in flight:   *)
(* the packet may arrive again.                                            *)

Left(p) == {down, down \ {p}}

DuplicatePacket(p) ==
    /\ open /\ p \in down /\ (p <= recvSeq \/ p \in seqData)
    /\ down' \in Left(p)
    /\ UNCHANGED <<streamVars, clientVars, acks, cameraVars, commandVars, up, cmdAcks>>

GapPacket(p) ==
    /\ open /\ p \in down /\ p > recvSeq + 1 /\ p \notin seqData
    /\ seqData' = seqData \union {p}
    /\ down' \in Left(p)
    /\ UNCHANGED <<streamVars, recvSeq, acks, cameraVars, commandVars, up, cmdAcks>>

\* Mutant: a packet behind a gap is delivered.
InSequenceOrLater(p) == p > recvSeq
InSequence(p) == p = recvSeq + 1

\* The packet and all buffered ones that follow it without a gap.
NextPacket(p) ==
    /\ open /\ p \in down /\ InSequence(p)
    /\ \E last \in p .. Len(source) - 1 :
        /\ p + 1 .. last \subseteq seqData
        /\ last + 1 \notin seqData
        /\ recvSeq' = last
        /\ seqData' = seqData \ (p .. last)
        /\ delivered' = delivered \o [i \in 1 .. last - p + 1 |-> source[p + i]]
    /\ down' \in Left(p)
    /\ UNCHANGED <<source, open, acks, cameraVars, commandVars, up, cmdAcks>>

\* Mutant: the loop ends when cmd8 is sent.
PeriodicAckUntilCmd8 ==
    /\ open /\ recvSeq >= 0 /\ Cardinality(sent) < 2
    /\ acks' \in InFlight(acks, AckOf(recvSeq, seqData))
    /\ UNCHANGED <<streamVars, clientVars, down, cameraVars, commandVars, up, cmdAcks>>

\* The 10 ms loop; send_ack of each packet is only counted.
PeriodicAck ==
    /\ open /\ recvSeq >= 0
    /\ acks' \in InFlight(acks, AckOf(recvSeq, seqData))
    /\ UNCHANGED <<streamVars, clientVars, down, cameraVars, commandVars, up, cmdAcks>>

-----------------------------------------------------------------------------
(* Sending: cmd13, then cmd8 once cmd13 was answered.                      *)

SendCommand(c) ==
    /\ open /\ waiting = NoWait /\ c = Cardinality(sent)
    /\ c > 0 => Responded(c - 1)
    /\ sent' = sent \union {c} /\ waiting' = c /\ retransmits' = 0
    /\ up' = up \union {c}
    /\ UNCHANGED <<streamVars, clientVars, down, acks, cameraVars, cmdAcked, cmdAcks>>

MayRetransmit == retransmits < MaxRetransmits

\* The same packet again: same command, same sequence number.
Retransmit(c) ==
    /\ open /\ waiting = c /\ ~Resolved(c) /\ MayRetransmit
    /\ retransmits' = retransmits + 1
    /\ up' = up \union {c}
    /\ UNCHANGED <<streamVars, clientVars, down, acks, cameraVars, sent, waiting,
                   cmdAcked, cmdAcks>>

StopWaiting(c) ==
    /\ waiting = c
    /\ Resolved(c) \/ ~MayRetransmit \/ ~open
    /\ waiting' = NoWait
    /\ UNCHANGED <<streamVars, clientVars, down, acks, cameraVars, sent, retransmits,
                   cmdAcked, up, cmdAcks>>

\* _observe_udp_ack: an ACK counts for every command ever sent.
ObserveAck(a) ==
    /\ open /\ a \in cmdAcks
    /\ cmdAcked' = cmdAcked \union {c \in sent : Acknowledged(a, c)}
    /\ cmdAcks' \in {cmdAcks, cmdAcks \ {a}}
    /\ UNCHANGED <<streamVars, clientVars, down, acks, cameraVars, sent, waiting,
                   retransmits, up>>

\* D2C_DISC, or close() at the end of the session.
CloseSession ==
    /\ open /\ open' = FALSE
    /\ UNCHANGED <<source, delivered, clientVars, down, acks, cameraVars, commandVars,
                   up, cmdAcks>>

-----------------------------------------------------------------------------
(* The camera and the network (external).                                  *)

CommandArrives(c) ==
    /\ c \in up
    /\ camCmds' = camCmds \union {c}
    /\ up' \in {up, up \ {c}}
    /\ UNCHANGED <<streamVars, clientVars, down, acks, camNext, camAcked, commandVars,
                   cmdAcks>>

CameraAcks ==
    /\ camCmds # {}
    /\ \E base \in {-1} \union Commands :
        /\ 0 .. base \subseteq camCmds /\ base + 1 \notin camCmds
        /\ cmdAcks' \in InFlight(cmdAcks, AckOf(base, camCmds \ (0 .. base)))
    /\ UNCHANGED <<streamVars, clientVars, down, acks, cameraVars, commandVars, up>>

\* The first packet answers cmd13, the others are the file that cmd8 asks for.
CameraSends ==
    /\ camNext < Len(source)
    /\ (IF camNext = 0 THEN 0 ELSE 1) \in camCmds
    /\ \A s \in 0 .. camNext - Window : s \in camAcked
    /\ camNext' = camNext + 1
    /\ down' = down \union {camNext}
    /\ UNCHANGED <<streamVars, clientVars, acks, camAcked, camCmds, commandVars, up, cmdAcks>>

CameraResends(s) ==
    /\ s < camNext /\ s \notin camAcked
    /\ down' = down \union {s}
    /\ UNCHANGED <<streamVars, clientVars, acks, cameraVars, commandVars, up, cmdAcks>>

AckArrives(a) ==
    /\ a \in acks
    /\ camAcked' = camAcked \union {s \in 0 .. camNext - 1 : Acknowledged(a, s)}
    /\ acks' \in {acks, acks \ {a}}
    /\ UNCHANGED <<streamVars, clientVars, down, camNext, camCmds, commandVars, up, cmdAcks>>

Lose ==
    /\ \/ \E p \in down : down' = down \ {p} /\ UNCHANGED <<acks, up, cmdAcks>>
       \/ \E a \in acks : acks' = acks \ {a} /\ UNCHANGED <<down, up, cmdAcks>>
       \/ \E c \in up : up' = up \ {c} /\ UNCHANGED <<down, acks, cmdAcks>>
       \/ \E a \in cmdAcks : cmdAcks' = cmdAcks \ {a} /\ UNCHANGED <<down, acks, up>>
    /\ UNCHANGED <<streamVars, clientVars, cameraVars, commandVars>>

-----------------------------------------------------------------------------
Receive ==
    \E p \in down : DuplicatePacket(p) \/ GapPacket(p) \/ NextPacket(p)

Send ==
    \/ \E c \in Commands : SendCommand(c) \/ Retransmit(c) \/ StopWaiting(c)
    \/ \E a \in cmdAcks : ObserveAck(a)

CameraAndNetwork ==
    \/ CameraAcks \/ CameraSends \/ Lose
    \/ \E s \in Seqs : CameraResends(s)
    \/ \E c \in Commands : CommandArrives(c)
    \/ \E a \in acks : AckArrives(a)

Next == Receive \/ PeriodicAck \/ Send \/ CloseSession \/ CameraAndNetwork

Spec == Init /\ [][Next]_vars

-----------------------------------------------------------------------------
TypeOK ==
    /\ source \in Scripts /\ open \in BOOLEAN
    /\ delivered \in Seq(Frames)
    /\ recvSeq \in -1 .. Len(source) - 1
    /\ seqData \subseteq Seqs /\ down \subseteq Seqs
    /\ camNext \in 0 .. Len(source) /\ camAcked \subseteq 0 .. camNext - 1
    /\ camCmds \subseteq Commands /\ sent \subseteq Commands
    /\ waiting \in sent \union {NoWait} /\ retransmits \in 0 .. MaxRetransmits
    /\ cmdAcked \subseteq sent /\ up \subseteq sent

\* The bitmap arithmetic of _send_ack_now: the camera forgets a packet only when
\* this end holds it, however old the ACK it acts on; a packet acknowledged by
\* mistake would never be sent again and the file would end there.
NothingForgotten == \A s \in camAcked : s <= recvSeq \/ s \in seqData

\* A command counts as acknowledged (and is not sent again) only when the camera
\* has it, although ACKs of earlier commands arrive late and several times.
AckedCommandArrived == cmdAcked \subseteq camCmds

\* The session implements an ordered stream without gaps and repetitions.
Stream == INSTANCE FrameStream WITH
              source <- source, delivered <- delivered, open <- open,
              Frames <- Frames, Scripts <- Scripts
StreamImplemented == Stream!StreamSpec

\* What the camera (which resends) and the network (which does not lose every
\* copy) have to do, and the ACK loop of this end.
Fairness ==
    /\ WF_vars(PeriodicAck) /\ WF_vars(CameraSends)
    /\ \A p \in PacketIds :
        /\ WF_vars(CameraResends(p))
        /\ SF_vars(GapPacket(p) \/ NextPacket(p))
    /\ SF_vars(\E a \in acks : AckArrives(a) /\ camAcked' # camAcked)

FairSpec == Spec /\ Fairness

\* Once the camera has cmd8 the whole file arrives while the session is open:
\* acknowledging every 10 ms only, and never before the first packet, cannot
\* leave the camera's window closed.
FileArrives == (1 \in camCmds) ~> (delivered = source \/ ~open)
=============================================================================
