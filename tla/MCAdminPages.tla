---------------------------- MODULE MCAdminPages ----------------------------
(* AdminPages with interchangeable keys, secrets and requests.              *)
EXTENDS AdminPages

MCSymmetry ==
  Permutations(KeyIDs) \cup Permutations(Secrets) \cup Permutations(Procs)
=============================================================================
