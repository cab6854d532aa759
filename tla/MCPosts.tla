------------------------------ MODULE MCPosts ------------------------------
EXTENDS Posts, TLC

(* Posts, users and request slots are interchangeable.                     *)
Symmetry == Permutations(Ids) \cup Permutations(Users)
              \cup Permutations(Requests)
=============================================================================
