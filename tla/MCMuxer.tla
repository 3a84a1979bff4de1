------------------------------- MODULE MCMuxer -------------------------------
(* Instances of Muxer for TLC: an app, beside an agent or alone. *)
EXTENDS Muxer

AppAndAgent == [f \in Flow |-> IF f \in Sweep THEN "agent" ELSE "app"]
=============================================================================
