----------------------- MODULE MCNotificationBridge ------------------------
(* Instances of NotificationBridge for TLC. *)
EXTENDS NotificationBridge, TLC

CONSTANTS s1, s2

TwoSources == {s1, s2}
MCEvents == TwoSources \union (TwoSources \X Tasks)
TwoPostTimes == s1 :> 0 @@ s2 :> 1
=============================================================================
