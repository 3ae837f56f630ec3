------------------------------- MODULE MCGui -------------------------------
(* Small instances of Gui for TLC. *)
EXTENDS Gui
=============================================================================
