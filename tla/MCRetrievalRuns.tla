--------------------------- MODULE MCRetrievalRuns ---------------------------
(* Retrieval runs on small instances: one space, two admin requests.        *)
EXTENDS RetrievalRuns, TLC

RunsFairSpec == RunsSpec /\ RunsFairness

RequestSymmetry == Permutations(Requests) \cup Permutations(Keys)
=============================================================================
