---------------------------- MODULE MCExpiredHash ----------------------------
(* ExpiredHash with interchangeable objects and fields.                    *)
EXTENDS ExpiredHash, TLC

Interchangeable ==
  Permutations(Readers) \cup Permutations(Writers) \cup Permutations(Fields)
==============================================================================
