---- MODULE MCBallsInPlay ----
(* Instances of BallsInPlay for TLC. *)
EXTENDS BallsInPlay
Conf(e, m, c, h, s) == [eject |-> e, inMode |-> m, empties |-> c, holds |-> h, settle |-> s]
AllConfigs == {Conf("none", {"mb"}, FALSE, 1, FALSE),
               Conf("delay", {"mb"}, TRUE, 1, FALSE),
               Conf("event", {"save", "mb"}, FALSE, 0, FALSE),
               Conf("none", {"save", "mb"}, FALSE, 0, TRUE)}
====
