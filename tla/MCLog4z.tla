------------------------------ MODULE MCLog4z ------------------------------
(* Instances of Log4z for TLC: one logger, one logging thread.            *)
EXTENDS Log4z

=============================================================================
