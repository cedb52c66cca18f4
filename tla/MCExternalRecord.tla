-------------------------- MODULE MCExternalRecord --------------------------
(* A small instance of ExternalRecord for TLC. *)
EXTENDS ExternalRecord

MCOutcomes == Calls \X {"response", "throw"}
=============================================================================
