---- MODULE MCComboSwitch ----
(* Instances of ComboSwitch for TLC. *)
EXTENDS ComboSwitch
====
