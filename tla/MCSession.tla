------------------------------- MODULE MCSession -------------------------------
(* TLC instances of SessionHistory; the constants are given by the .cfg files. *)
EXTENDS SessionHistory
================================================================================
