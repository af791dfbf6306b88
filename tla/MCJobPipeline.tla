--------------------------- MODULE MCJobPipeline ---------------------------
(***************************************************************************)
(* JobPipeline on small instances.  Uploads, requests, replicas and        *)
(* workers of one kind are interchangeable: no action or property tells    *)
(* two of them apart.                                                      *)
(***************************************************************************)
EXTENDS JobPipeline, TLC

Symmetry ==
  Permutations(Items) \cup Permutations(Requests) \cup
  Permutations(Replicas) \cup Permutations(Workers)
=============================================================================
