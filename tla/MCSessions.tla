----------------------------- MODULE MCSessions -----------------------------
EXTENDS Sessions, TLC

(* Tokens, request slots and users are interchangeable.                    *)
Symmetry == Permutations(Jti) \cup Permutations(Requests) \cup Permutations(Users)
=============================================================================
