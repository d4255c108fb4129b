---- MODULE MCDataManagers ----
(* Instances of DataManagers for TLC. *)
EXTENDS DataManagers
====
