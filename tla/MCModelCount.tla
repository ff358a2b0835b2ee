---------------------------- MODULE MCModelCount ----------------------------
(* ModelCount with two clients and one sync.                               *)
EXTENDS ModelCount
==============================================================================
