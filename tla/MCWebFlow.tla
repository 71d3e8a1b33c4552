------------------------------- MODULE MCWebFlow -------------------------------
(* Instances of WebFlow for TLC. *)
EXTENDS WebFlow

=============================================================================
