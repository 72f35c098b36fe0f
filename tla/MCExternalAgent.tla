--------------------------- MODULE MCExternalAgent ---------------------------
(* The instance of ExternalAgent that TLC checks. *)
EXTENDS ExternalAgent, TLC
=============================================================================
