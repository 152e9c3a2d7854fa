--------------------------- MODULE MCCredentials ---------------------------
(* Instances of Credentials for TLC. *)
EXTENDS Credentials, TLC

\* The requests of a kind differ only in their names.
Symmetry == Permutations(Writes) \cup Permutations(Creates) \cup Permutations(Logins)
=============================================================================
