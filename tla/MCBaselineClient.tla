--------------------------- MODULE MCBaselineClient ---------------------------
(* Constants: the .cfg files of this module. *)
EXTENDS BaselineClient
=============================================================================
