------------------------- MODULE MCLifecycleManager -------------------------
(* Instances of LifecycleManager for TLC. *)
EXTENDS LifecycleManager

CONSTANTS low_booster, high_booster, compression

BringupOrder == <<low_booster, high_booster, compression>>

\* Everything at once, and only what a reliable system can meet.
AllFaults == {Faults, {"refuse"}}
=============================================================================
