--------------------------- MODULE MCJobSettlement ---------------------------
(* The instance of JobSettlement that TLC checks. *)
EXTENDS JobSettlement, TLC
=============================================================================
