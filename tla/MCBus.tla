------------------------------- MODULE MCBus -------------------------------
(* Instances of Bus for TLC. *)
EXTENDS Bus, TLC

CONSTANTS s1, s2

\* A channel smaller than the ring, as in the code (256 to 4096), and one as
\* large as the ring.
MixedCap == (s1 :> 1) @@ (s2 :> 2)
=============================================================================
