------------------------------- MODULE MCAccess -------------------------------
(* One envelope of the first of two devices.  Secrets are alike, and so are    *)
(* handlers.                                                                   *)
EXTENDS Access, TLC

MCKeyOf == [e \in {"e1"} |-> "d1"]
MCSymmetry == Permutations(Secrets) \cup Permutations(Handlers)
=============================================================================
