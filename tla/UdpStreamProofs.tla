-------------------------- MODULE UdpStreamProofs ---------------------------
(***************************************************************************)
(* For every window, number of retransmissions and file, whatever the      *)
(* network does: what is acknowledged was received, in both directions,    *)
(* and the session implements the ordered stream of FrameStream.           *)
(***************************************************************************)
EXTENDS UdpStream, TLAPS, SequenceTheorems

\* A packet is held when it was handed over or is buffered.
Held(s) == s <= recvSeq \/ s \in seqData

\* Every ACK in flight, however old, acknowledges only what its sender holds.
AcksTrue == \A a \in acks : \A s \in Nat : Acknowledged(a, s) => Held(s)
CommandAcksTrue == \A a \in cmdAcks : \A c \in Commands : Acknowledged(a, c) => c \in camCmds

\* What was handed over are the packets up to the last one received in sequence.
InOrder == delivered = SubSeq(source, 1, recvSeq + 1)

\* The inductive invariant.
IInv ==
    /\ TypeOK
    /\ InOrder
    /\ AcksTrue /\ NothingForgotten
    /\ CommandAcksTrue /\ AckedCommandArrived

-----------------------------------------------------------------------------
\* _send_ack_now: the bitmap, whose length is that of the gap up to the highest
\* packet held, marks no packet that is missing.
LEMMA AckIsTrue ==
    ASSUME NEW base \in Int, NEW held, NEW s \in Int, Acknowledged(AckOf(base, held), s)
    PROVE  s <= base \/ s \in held
<1>1. CASE s <= base
  BY <1>1
<1>2. CASE ~(s <= base)
  <2> DEFINE D == 1 .. (IF held = {} THEN 0 ELSE Highest(held) - base)
             bits == [i \in D |-> base + i \in held]
  <2>1. AckOf(base, held).base = base /\ AckOf(base, held).bits = bits
    BY DEF AckOf, Bitmap
  <2>2. s - base \in DOMAIN bits /\ bits[s - base]
    BY <1>2, <2>1 DEF Acknowledged
  <2>3. base + (s - base) \in held
    <3> HIDE DEF D
    <3> QED BY <2>2
  <2> QED BY <2>3
<1> QED BY <1>1, <1>2

\* parse_udp_bc: the frames that close a gap extend the prefix handed over.
LEMMA PrefixExtends ==
    ASSUME NEW S, NEW q \in Seq(S), NEW m \in Nat, NEW n \in Nat, m < n, n <= Len(q)
    PROVE  /\ SubSeq(q, 1, m) \o [i \in 1 .. n - m |-> q[m + i]] = SubSeq(q, 1, n)
           /\ SubSeq(q, 1, n) \in Seq(S)
           /\ Len(SubSeq(q, 1, m)) = m
<1> DEFINE front == SubSeq(q, 1, m)
           back == [i \in 1 .. n - m |-> q[m + i]]
           all == SubSeq(q, 1, n)
<1>1. \A i \in 1 .. n : q[i] \in S
  BY ElementOfSeq
<1>2. front \in Seq(S) /\ Len(front) = m /\ \A i \in 1 .. m : front[i] = q[i]
  BY <1>1, SubSeqProperties
<1>3. all \in Seq(S) /\ Len(all) = n /\ \A i \in 1 .. n : all[i] = q[i]
  BY <1>1, SubSeqProperties
<1>4. back \in Seq(S) /\ Len(back) = n - m
  <2>1. n - m \in Nat /\ \A i \in 1 .. n - m : q[m + i] \in S
    BY <1>1
  <2> QED BY <2>1
<1>5. /\ front \o back \in Seq(S) /\ Len(front \o back) = n
      /\ \A i \in 1 .. n : (front \o back)[i] = IF i <= m THEN front[i] ELSE back[i - m]
  <2> HIDE DEF front, back, all
  <2>0. front \in Seq(S) /\ back \in Seq(S)
    BY <1>2, <1>4
  <2>1. /\ front \o back \in Seq(S) /\ Len(front \o back) = Len(front) + Len(back)
        /\ \A i \in 1 .. Len(front) + Len(back) :
              (front \o back)[i] = IF i <= Len(front) THEN front[i] ELSE back[i - Len(front)]
    BY <2>0, ConcatProperties, Zenon
  <2>2. Len(front) = m /\ Len(front) + Len(back) = n
    BY <1>2, <1>4
  <2> QED BY <2>1, <2>2
<1>6. ASSUME NEW i \in 1 .. n PROVE (front \o back)[i] = all[i]
  <2>1. CASE i <= m
    <3> HIDE DEF front, back, all
    <3>1. i \in 1 .. m /\ (front \o back)[i] = front[i]
      BY <1>5, <2>1
    <3>2. front[i] = q[i]
      BY <1>2, <3>1, Zenon
    <3>3. all[i] = q[i]
      BY <1>3, Zenon
    <3> QED BY <3>1, <3>2, <3>3, Zenon
  <2>2. CASE ~(i <= m)
    <3>1. back[i - m] = q[i]
      BY <2>2
    <3> HIDE DEF front, back, all
    <3>2. (front \o back)[i] = back[i - m]
      BY <1>5, <2>2
    <3>3. all[i] = q[i]
      BY <1>3, Zenon
    <3> QED BY <3>1, <3>2, <3>3, Zenon
  <2> QED BY <2>1, <2>2
<1>7. front \o back = all
  <2> HIDE DEF front, back, all
  <2> QED BY <1>3, <1>5, <1>6, SeqEqual
<1> QED BY <1>2, <1>3, <1>7

-----------------------------------------------------------------------------
LEMMA Initially == Init => IInv
<1> SUFFICES ASSUME Init PROVE IInv
  OBVIOUS
<1> USE DEF Init
<1>1. source \in Seq(Frames) /\ Len(source) \in Nat
  BY UdpAssumption
<1>2. TypeOK
  BY <1>1, UdpAssumption DEF TypeOK, NoWait, Seqs, Commands
<1>3. InOrder
  BY <1>1, SubSeqEmpty DEF InOrder
<1>4. AcksTrue /\ NothingForgotten /\ CommandAcksTrue /\ AckedCommandArrived
  BY DEF AcksTrue, NothingForgotten, CommandAcksTrue, AckedCommandArrived
<1> QED BY <1>2, <1>3, <1>4 DEF IInv

LEMMA Sizes ==
    ASSUME TypeOK
    PROVE  /\ source \in Seq(Frames) /\ Len(source) \in Nat
           /\ recvSeq \in Int /\ camNext \in Nat /\ Seqs \subseteq Nat
<1>1. source \in Seq(Frames)
  BY UdpAssumption DEF TypeOK
<1>2. Len(source) \in Nat
  BY <1>1
<1> QED BY <1>1, <1>2 DEF TypeOK, Seqs

\* A packet of the camera arrives: what was held is still held.
LEMMA ReceiveStep ==
    ASSUME IInv, NEW p \in down, DuplicatePacket(p) \/ GapPacket(p) \/ NextPacket(p)
    PROVE  IInv' /\ (UNCHANGED streamVars \/ Stream!StreamNext)
<1> USE DEF IInv
<1>0. /\ source \in Seq(Frames) /\ Len(source) \in Nat /\ recvSeq \in Int
      /\ camNext \in Nat /\ Seqs \subseteq Nat /\ p \in Seqs /\ down' \subseteq Seqs
      /\ source' = source /\ open' = open /\ acks' = acks /\ cmdAcks' = cmdAcks
      /\ UNCHANGED <<cameraVars, commandVars, up>>
  BY Sizes DEF TypeOK, DuplicatePacket, GapPacket, NextPacket, Left, clientVars, streamVars
<1>1. CASE DuplicatePacket(p)
  <2>1. UNCHANGED <<streamVars, clientVars, acks, cameraVars, commandVars, up, cmdAcks>>
    BY <1>1 DEF DuplicatePacket
  <2>2. TypeOK'
    BY <1>0, <2>1 DEF TypeOK, Seqs, streamVars, clientVars, cameraVars, commandVars
  <2> QED BY <2>1, <2>2 DEF InOrder, AcksTrue, NothingForgotten, CommandAcksTrue,
             AckedCommandArrived, Held, streamVars, clientVars, cameraVars, commandVars
<1>2. CASE GapPacket(p)
  <2>1. seqData' = seqData \union {p} /\ recvSeq' = recvSeq /\ delivered' = delivered
    BY <1>2 DEF GapPacket, streamVars
  <2>2. TypeOK'
    BY <1>0, <2>1 DEF TypeOK, Seqs, cameraVars, commandVars
  <2>3. InOrder' /\ CommandAcksTrue' /\ AckedCommandArrived'
    BY <1>0, <2>1 DEF InOrder, CommandAcksTrue, AckedCommandArrived, cameraVars, commandVars
  <2>4. AcksTrue' /\ NothingForgotten'
    BY <1>0, <2>1 DEF AcksTrue, NothingForgotten, Held, cameraVars
  <2>5. UNCHANGED streamVars
    BY <1>0, <2>1 DEF streamVars
  <2> QED BY <2>2, <2>3, <2>4, <2>5
<1>3. CASE NextPacket(p)
  <2>1. PICK last \in p .. Len(source) - 1 :
          /\ recvSeq' = last /\ seqData' = seqData \ (p .. last)
          /\ delivered' = delivered \o [i \in 1 .. last - p + 1 |-> source[p + i]]
    BY <1>3 DEF NextPacket
  <2>2. p = recvSeq + 1 /\ open /\ recvSeq + 1 \in Nat /\ last \in Nat /\ last < Len(source)
    BY <1>0, <1>3, <2>1 DEF NextPacket, InSequence, TypeOK
  <2> DEFINE m == recvSeq + 1
             n == last + 1
  <2>3. /\ m \in Nat /\ n \in Nat /\ m < n /\ n <= Len(source)
        /\ last - p + 1 = n - m /\ p = m
    BY <1>0, <2>1, <2>2
  <2>4. delivered' = SubSeq(source, 1, m) \o [i \in 1 .. n - m |-> source[m + i]]
    BY <2>1, <2>3 DEF InOrder
  <2>5. /\ delivered' = SubSeq(source, 1, n) /\ SubSeq(source, 1, n) \in Seq(Frames)
        /\ Len(delivered) = m
    <3> HIDE DEF m, n
    <3>1. delivered = SubSeq(source, 1, m)
      BY DEF InOrder, m
    <3> QED BY <1>0, <2>3, <2>4, <3>1, PrefixExtends
  <2>6. TypeOK'
    BY <1>0, <2>1, <2>2, <2>5 DEF TypeOK, Seqs, cameraVars, commandVars
  <2>7. InOrder' /\ CommandAcksTrue' /\ AckedCommandArrived'
    BY <1>0, <2>1, <2>5 DEF InOrder, CommandAcksTrue, AckedCommandArrived, cameraVars,
       commandVars
  <2>8. \A s \in Nat : Held(s) => Held(s)'
    BY <1>0, <2>1, <2>2 DEF Held
  <2>9. AcksTrue' /\ NothingForgotten'
    <3>1. camAcked' = camAcked /\ camAcked \subseteq Nat
      BY <1>0 DEF TypeOK, cameraVars
    <3>2. \A a, s : Acknowledged(a, s)' <=> Acknowledged(a, s)
      BY DEF Acknowledged
    <3> QED BY <1>0, <2>8, <3>1 DEF AcksTrue, NothingForgotten, Held, Acknowledged
  <2>10. Stream!StreamNext
    <3>1. n \in Len(delivered) + 1 .. Len(source)
      BY <1>0, <2>3, <2>5
    <3>2. Stream!DeliverUpTo(n)
      BY <1>0, <2>2, <2>5, <3>1 DEF Stream!DeliverUpTo, Stream!Prefix
    <3> QED BY <3>1, <3>2 DEF Stream!StreamNext
  <2> QED BY <2>6, <2>7, <2>9, <2>10
<1> QED BY <1>1, <1>2, <1>3

\* The ACK loop, the commands and the close: nothing that was received changes.
LEMMA SendStep ==
    ASSUME IInv, PeriodicAck \/ Send \/ CloseSession
    PROVE  IInv' /\ (UNCHANGED streamVars \/ Stream!StreamNext)
<1> USE DEF IInv
<1>0. /\ source \in Seq(Frames) /\ Len(source) \in Nat /\ recvSeq \in Int
      /\ camNext \in Nat /\ Seqs \subseteq Nat
  BY Sizes
<1>1. CASE PeriodicAck
  <2>1. /\ acks' \subseteq acks \union {AckOf(recvSeq, seqData)}
        /\ UNCHANGED <<streamVars, clientVars, down, cameraVars, commandVars, up, cmdAcks>>
    BY <1>1 DEF PeriodicAck, InFlight
  <2>2. TypeOK' /\ InOrder' /\ NothingForgotten' /\ CommandAcksTrue' /\ AckedCommandArrived'
    BY <2>1 DEF TypeOK, Seqs, InOrder, NothingForgotten, CommandAcksTrue,
       AckedCommandArrived, streamVars, clientVars, cameraVars, commandVars
  <2>3. \A s \in Nat : Held(s)' <=> Held(s)
    BY <2>1 DEF Held, clientVars
  <2>4. ASSUME NEW a \in acks', NEW s \in Nat, Acknowledged(a, s) PROVE Held(s)
    <3>1. CASE a \in acks
      BY <2>4, <3>1 DEF AcksTrue
    <3>2. CASE a = AckOf(recvSeq, seqData)
      BY <1>0, <2>4, <3>2, AckIsTrue DEF Held
    <3> QED BY <2>1, <2>4, <3>1, <3>2
  <2>5. AcksTrue'
    BY <2>3, <2>4 DEF AcksTrue, Acknowledged
  <2> QED BY <2>1, <2>2, <2>5
<1>2. ASSUME NEW c \in Commands, SendCommand(c) \/ Retransmit(c) \/ StopWaiting(c)
      PROVE  IInv' /\ UNCHANGED streamVars
  <2>1. UNCHANGED <<streamVars, clientVars, down, acks, cameraVars, cmdAcked, cmdAcks>>
    BY <1>2 DEF SendCommand, Retransmit, StopWaiting
  <2>2. TypeOK'
    <3>1. sent' \subseteq Commands /\ sent \subseteq sent' /\ waiting' \in sent' \union {NoWait}
      BY <1>2 DEF SendCommand, Retransmit, StopWaiting, TypeOK
    <3>2. up' \subseteq sent'
      <4>1. CASE SendCommand(c)
        BY <4>1 DEF SendCommand, TypeOK
      <4>2. CASE Retransmit(c)
        <5>1. c \in sent /\ sent' = sent /\ up' = up \union {c}
          BY <4>2 DEF Retransmit, TypeOK, Commands, NoWait
        <5> QED BY <5>1 DEF TypeOK
      <4>3. CASE StopWaiting(c)
        BY <4>3 DEF StopWaiting, TypeOK
      <4> QED BY <1>2, <4>1, <4>2, <4>3
    <3>3. retransmits' \in 0 .. MaxRetransmits
      BY <1>2, UdpAssumption DEF SendCommand, Retransmit, MayRetransmit, StopWaiting, TypeOK
    <3> QED BY <2>1, <3>1, <3>2, <3>3 DEF TypeOK, Seqs, streamVars, clientVars, cameraVars
  <2> QED BY <2>1, <2>2 DEF InOrder, AcksTrue, NothingForgotten, CommandAcksTrue,
             AckedCommandArrived, Held, streamVars, clientVars, cameraVars
<1>3. ASSUME NEW a \in cmdAcks, ObserveAck(a) PROVE IInv' /\ UNCHANGED streamVars
  <2>1. /\ cmdAcked' = cmdAcked \union {c \in sent : Acknowledged(a, c)}
        /\ cmdAcks' \subseteq cmdAcks
        /\ UNCHANGED <<streamVars, clientVars, down, acks, cameraVars, sent, waiting,
                       retransmits, up>>
    BY <1>3 DEF ObserveAck
  <2>2. TypeOK'
    BY <2>1 DEF TypeOK, Seqs, streamVars, clientVars, cameraVars
  <2>3. AckedCommandArrived'
    BY <2>1 DEF AckedCommandArrived, CommandAcksTrue, TypeOK, cameraVars
  <2>4. CommandAcksTrue'
    BY <2>1 DEF CommandAcksTrue, Acknowledged, cameraVars
  <2> QED BY <2>1, <2>2, <2>3, <2>4 DEF InOrder, AcksTrue, NothingForgotten, Held,
             streamVars, clientVars, cameraVars
<1>4. CASE CloseSession
  <2>1. /\ open /\ open' = FALSE /\ source' = source /\ delivered' = delivered
        /\ UNCHANGED <<clientVars, down, acks, cameraVars, commandVars, up, cmdAcks>>
    BY <1>4 DEF CloseSession
  <2>2. TypeOK'
    BY <2>1 DEF TypeOK, Seqs, clientVars, cameraVars, commandVars
  <2>3. Stream!StreamNext
    BY <2>1 DEF Stream!StreamNext, Stream!Close
  <2> QED BY <2>1, <2>2, <2>3 DEF InOrder, AcksTrue, NothingForgotten, CommandAcksTrue,
             AckedCommandArrived, Held, clientVars, cameraVars, commandVars
<1> QED BY <1>1, <1>2, <1>3, <1>4 DEF Send

\* The camera receives commands and ACKs, sends and resends; the network loses.
LEMMA CameraStep ==
    ASSUME IInv, CameraAndNetwork
    PROVE  IInv' /\ UNCHANGED streamVars
<1> USE DEF IInv
<1>0. /\ source \in Seq(Frames) /\ Len(source) \in Nat /\ recvSeq \in Int
      /\ camNext \in Nat /\ Seqs \subseteq Nat
  BY Sizes
<1>1. CASE CameraAcks
  <2>1. PICK base \in {-1} \union Commands :
          /\ 0 .. base \subseteq camCmds
          /\ cmdAcks' \subseteq cmdAcks \union {AckOf(base, camCmds \ (0 .. base))}
    BY <1>1 DEF CameraAcks, InFlight
  <2>2. UNCHANGED <<streamVars, clientVars, down, acks, cameraVars, commandVars, up>>
    BY <1>1 DEF CameraAcks
  <2>3. ASSUME NEW a \in cmdAcks', NEW c \in Commands, Acknowledged(a, c) PROVE c \in camCmds
    <3>1. CASE a \in cmdAcks
      BY <2>3, <3>1 DEF CommandAcksTrue
    <3>2. CASE a = AckOf(base, camCmds \ (0 .. base))
      <4>1. base \in Int /\ c \in Nat
        BY <2>1 DEF Commands
      <4>2. c <= base \/ c \in camCmds \ (0 .. base)
        BY <2>3, <3>2, <4>1, AckIsTrue
      <4> QED BY <2>1, <4>1, <4>2
    <3> QED BY <2>1, <2>3, <3>1, <3>2
  <2>4. CommandAcksTrue'
    BY <2>2, <2>3 DEF CommandAcksTrue, Acknowledged, cameraVars
  <2>5. TypeOK'
    BY <2>2 DEF TypeOK, Seqs, streamVars, clientVars, cameraVars, commandVars
  <2> QED BY <2>2, <2>4, <2>5 DEF InOrder, AcksTrue, NothingForgotten,
             AckedCommandArrived, Held, streamVars, clientVars, cameraVars, commandVars
<1>2. CASE CameraSends
  <2>1. /\ camNext < Len(source) /\ camNext' = camNext + 1 /\ down' = down \union {camNext}
        /\ UNCHANGED <<streamVars, clientVars, acks, camAcked, camCmds, commandVars, up,
                       cmdAcks>>
    BY <1>2 DEF CameraSends
  <2>2. TypeOK'
    BY <1>0, <2>1 DEF TypeOK, Seqs, streamVars, clientVars, commandVars
  <2> QED BY <2>1, <2>2 DEF InOrder, AcksTrue, NothingForgotten, CommandAcksTrue,
             AckedCommandArrived, Held, streamVars, clientVars, commandVars
<1>3. ASSUME NEW s \in Seqs, CameraResends(s) PROVE IInv' /\ UNCHANGED streamVars
  <2>1. /\ down' = down \union {s}
        /\ UNCHANGED <<streamVars, clientVars, acks, cameraVars, commandVars, up, cmdAcks>>
    BY <1>3 DEF CameraResends
  <2>2. TypeOK'
    BY <2>1 DEF TypeOK, Seqs, streamVars, clientVars, cameraVars, commandVars
  <2> QED BY <2>1, <2>2 DEF InOrder, AcksTrue, NothingForgotten, CommandAcksTrue,
             AckedCommandArrived, Held, streamVars, clientVars, cameraVars, commandVars
<1>4. ASSUME NEW c \in Commands, CommandArrives(c) PROVE IInv' /\ UNCHANGED streamVars
  <2>1. /\ camCmds' = camCmds \union {c} /\ up' \subseteq up
        /\ UNCHANGED <<streamVars, clientVars, down, acks, camNext, camAcked, commandVars,
                       cmdAcks>>
    BY <1>4 DEF CommandArrives
  <2>2. TypeOK'
    BY <2>1 DEF TypeOK, Seqs, streamVars, clientVars, commandVars
  <2> QED BY <2>1, <2>2 DEF InOrder, AcksTrue, NothingForgotten, CommandAcksTrue,
             AckedCommandArrived, Held, streamVars, clientVars, commandVars
<1>5. ASSUME NEW a \in acks, AckArrives(a) PROVE IInv' /\ UNCHANGED streamVars
  <2>1. /\ camAcked' = camAcked \union {s \in 0 .. camNext - 1 : Acknowledged(a, s)}
        /\ acks' \subseteq acks
        /\ UNCHANGED <<streamVars, clientVars, down, camNext, camCmds, commandVars, up,
                       cmdAcks>>
    BY <1>5 DEF AckArrives
  <2>2. TypeOK'
    BY <2>1 DEF TypeOK, Seqs, streamVars, clientVars, commandVars
  <2>3. NothingForgotten'
    BY <1>0, <2>1 DEF NothingForgotten, AcksTrue, Held, clientVars
  <2>4. AcksTrue'
    BY <2>1 DEF AcksTrue, Acknowledged, Held, clientVars
  <2> QED BY <2>1, <2>2, <2>3, <2>4 DEF InOrder, CommandAcksTrue, AckedCommandArrived,
             streamVars, clientVars, commandVars
<1>6. CASE Lose
  <2>1. /\ down' \subseteq down /\ acks' \subseteq acks /\ up' \subseteq up
        /\ cmdAcks' \subseteq cmdAcks
        /\ UNCHANGED <<streamVars, clientVars, cameraVars, commandVars>>
    BY <1>6 DEF Lose
  <2>2. TypeOK'
    BY <2>1 DEF TypeOK, Seqs, streamVars, clientVars, cameraVars, commandVars
  <2> QED BY <2>1, <2>2 DEF InOrder, AcksTrue, NothingForgotten, CommandAcksTrue,
             AckedCommandArrived, Acknowledged, Held, streamVars, clientVars, cameraVars,
             commandVars
<1> QED BY <1>1, <1>2, <1>3, <1>4, <1>5, <1>6 DEF CameraAndNetwork

LEMMA Stutter == ASSUME IInv, UNCHANGED vars PROVE IInv'
BY DEF IInv, TypeOK, Seqs, InOrder, AcksTrue, NothingForgotten, CommandAcksTrue,
   AckedCommandArrived, Acknowledged, Held, vars, streamVars, clientVars, cameraVars, commandVars

LEMMA Inductive == Spec => []IInv
<1>1. IInv /\ [Next]_vars => IInv'
  BY ReceiveStep, SendStep, CameraStep, Stutter DEF Next, Receive
<1> QED BY <1>1, Initially, PTL DEF Spec

-----------------------------------------------------------------------------
\* Ranges; at most MaxRetransmits retransmissions of a command, and only commands that
\* were sent are waited for or counted as acknowledged.
THEOREM TypeCorrect == Spec => []TypeOK
<1>1. IInv => TypeOK
  BY DEF IInv
<1> QED BY <1>1, Inductive, PTL

\* The camera forgets a packet of the file only when the client has it.
THEOREM NoPacketForgotten == Spec => []NothingForgotten
<1>1. IInv => NothingForgotten
  BY DEF IInv
<1> QED BY <1>1, Inductive, PTL

\* A command is not given up as acknowledged before the camera has it.
THEOREM NoCommandForgotten == Spec => []AckedCommandArrived
<1>1. IInv => AckedCommandArrived
  BY DEF IInv
<1> QED BY <1>1, Inductive, PTL

\* Whatever the network loses, repeats or reorders, the frames reach the collector in
\* order, without gaps and without repetitions.
THEOREM ImplementsStream == Spec => StreamImplemented
<1>1. Init => Stream!StreamInit
  BY DEF Init, Stream!StreamInit
<1>2. IInv /\ [Next]_vars => [Stream!StreamNext]_(Stream!streamVars)
  <2>1. ASSUME UNCHANGED vars PROVE UNCHANGED streamVars
    BY <2>1 DEF vars
  <2>2. Stream!streamVars = streamVars /\ (UNCHANGED streamVars => UNCHANGED Stream!streamVars)
    BY DEF Stream!streamVars, streamVars
  <2> QED BY <2>1, <2>2, ReceiveStep, SendStep, CameraStep DEF Next, Receive
<1> QED BY <1>1, <1>2, Inductive, PTL DEF Spec, StreamImplemented, Stream!StreamSpec
=============================================================================
