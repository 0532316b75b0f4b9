--------------------------- MODULE MCTeamBilling ---------------------------
(* TeamBilling on a small instance: TLC evaluates its assumptions here. *)
EXTENDS TeamBilling
=============================================================================
