---------------------------- MODULE MCUdpStream ----------------------------
(* Instances of UdpStream for TLC. *)
EXTENDS UdpStream

\* The answer to cmd13 and three chunks of a file.
MCFrames == {"answer", "chunk1", "chunk2", "chunk3"}
FourFrames == {<<"answer", "chunk1", "chunk2", "chunk3">>}
=============================================================================
