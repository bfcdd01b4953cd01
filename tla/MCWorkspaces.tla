---------------------------- MODULE MCWorkspaces ----------------------------
(* Workspaces for TLC: a step and one that depends on it.                  *)
EXTENDS Workspaces

Chain == <<{}, {1}>>
=============================================================================
