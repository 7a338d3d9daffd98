------------------------- MODULE MCRegistrySecrets -------------------------
(* Instances of RegistrySecrets for TLC. *)
EXTENDS RegistrySecrets
=============================================================================
