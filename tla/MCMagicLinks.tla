---------------------------- MODULE MCMagicLinks ----------------------------
EXTENDS MagicLinks, TLC

(* Links, codes and request slots are interchangeable.                     *)
Symmetry == Permutations(Links) \cup Permutations(Codes)
              \cup Permutations(Requests)
=============================================================================
