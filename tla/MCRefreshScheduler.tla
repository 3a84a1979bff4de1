-------------------------- MODULE MCRefreshScheduler --------------------------
(***************************************************************************)
(* Instances of RefreshScheduler for TLC: every installation is of an app  *)
(* of its own, so App and Install are the same set of model values.        *)
(***************************************************************************)
EXTENDS RefreshScheduler

OwnApp == [i \in Install |-> i]

=============================================================================
