------------------------------ MODULE MCLogin ------------------------------
(***************************************************************************)
(* Instances of Login for TLC.                                             *)
(***************************************************************************)
EXTENDS Login

AllFlows == {"login", "loginCode", "loginToken", "connect", "connectCode"}
=============================================================================
