---------------------------- MODULE MCLegacyExecution -----------------------------
(* Small instance of LegacyExecution. *)
EXTENDS LegacyExecution
===================================================================================
