---------------------------- MODULE MCWorkspaces ----------------------------
(* Values for model-checking Workspaces on small instances.                *)
EXTENDS Workspaces

CONSTANT dir
=============================================================================
