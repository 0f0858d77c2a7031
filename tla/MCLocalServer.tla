---------------------------- MODULE MCLocalServer ----------------------------
(***************************************************************************)
(* Locks for TLC: two lengths show that the lock grows and stays.          *)
(***************************************************************************)
EXTENDS LocalServer

MCLockouts == <<1, 2>>
=============================================================================
