-------------------------- MODULE MCTargetRegistry --------------------------
(* Two concurrent dashboard requests and starting processes. *)
EXTENDS TargetRegistry
=============================================================================
