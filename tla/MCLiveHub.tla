---------------------------- MODULE MCLiveHub ------------------------------
(* Instances of LiveHub for TLC. *)
EXTENDS LiveHub

CONSTANTS v, a, s1, s2, s3

TwoTracks == {v}
Consumers2 == {v, a}
Sessions3 == {s1, s2, s3}
=============================================================================
