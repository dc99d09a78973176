-------------------------------- MODULE MCSharing --------------------------------
(* Sharing.tla on small sets; the members of each set are interchangeable. *)
EXTENDS Sharing, TLC

Symmetry == Permutations(Req) \cup Permutations(Issuer) \cup Permutations(Revoker)
================================================================================
