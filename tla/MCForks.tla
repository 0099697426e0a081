------------------------------- MODULE MCForks -------------------------------
(***************************************************************************)
(* A small instance of Forks for TLC (forks.cfg).                          *)
(***************************************************************************)
EXTENDS Forks

\* The factorial program forks MAX + 2 processes.
AllProcesses == 0 .. 14
=============================================================================
