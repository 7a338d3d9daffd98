--------------------------- MODULE MCProjectWiper ---------------------------
(* Instances of ProjectWiper for TLC. *)
EXTENDS ProjectWiper
=============================================================================
