---- MODULE MCBallDevices ----
(* Instances of BallDevices for TLC. *)
EXTENDS BallDevices
MCCapacity == <<2, 1>>
====
