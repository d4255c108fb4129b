---- MODULE MCSwitches ----
(* Instances of Switches for TLC. *)
EXTENDS Switches
MCState == [i |-> 1, h |-> 1, w |-> 1]
MCMs == [i |-> 0, h |-> 1, w |-> 2]
MCHandlers == DOMAIN MCState
====
