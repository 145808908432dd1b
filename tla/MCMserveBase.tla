---------------------------- MODULE MCMserveBase ----------------------------
(* Instances of MserveBase for TLC. *)
EXTENDS MserveBase

\* Reverse while turning, beyond the limits, and beyond the range of a wheel.
SomeTwists == {[linear |-> -300, angular |-> 300]}

\* A limit within the wheels' range and one beyond it.
SomeLimits == {[linear |-> 50, angular |-> 20], [linear |-> 250, angular |-> 250]}
=============================================================================
