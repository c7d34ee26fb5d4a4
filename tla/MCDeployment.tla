---------------------------- MODULE MCDeployment ----------------------------
(* Small instances of Deployment for TLC. *)
EXTENDS Deployment
=============================================================================
