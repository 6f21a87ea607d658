---------------------------- MODULE MCDeployment ----------------------------
(***************************************************************************)
(* Deployment with three commits, one of which may be broken and another a *)
(* schema that earlier code cannot read, and as many runs.                 *)
(***************************************************************************)
EXTENDS Deployment
=============================================================================
