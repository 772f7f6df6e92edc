---------------------------- MODULE MCNotifications ----------------------------
(* Instances of Notifications in which one session raises every request. *)
EXTENDS Notifications
CONSTANT s1

MCSessionOf == [a \in Asks |-> s1]
================================================================================
