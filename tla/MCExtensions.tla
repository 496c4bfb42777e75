----------------------------- MODULE MCExtensions -----------------------------
EXTENDS Extensions, TLC

(* The digests and the requests are interchangeable.                           *)
Symmetry == Permutations(Digests) \cup Permutations(Requests)
===============================================================================
