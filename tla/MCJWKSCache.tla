---------------------------- MODULE MCJWKSCache ----------------------------
(* JWKSCache with a realm that replaces one key by another, with a document *)
(* of no usable key in between.                                             *)
EXTENDS JWKSCache, TLC

CONSTANTS k1, k2

MCDocs == <<{k1}, {}, {k2}>>

MCSymmetry == Permutations(Procs)
=============================================================================
