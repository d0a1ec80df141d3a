---------------------------- MODULE MCWordCutter ----------------------------
(* An instance of WordCutter for TLC.                                      *)
EXTENDS WordCutter

=============================================================================
