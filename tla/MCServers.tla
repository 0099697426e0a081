------------------------------ MODULE MCServers ------------------------------
(***************************************************************************)
(* A small instance of Servers for TLC (servers.cfg).                      *)
(***************************************************************************)
EXTENDS Servers
=============================================================================
