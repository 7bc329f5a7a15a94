--------------------------- MODULE MCSecretStream ---------------------------
(* SecretStream on small instances for TLC.                                *)
EXTENDS SecretStream, TLC

(* Roots and additional data are compared and never otherwise inspected.   *)
Symmetry == Permutations(Root) \union Permutations(Ad)
=============================================================================
