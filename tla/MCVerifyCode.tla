---------------------------- MODULE MCVerifyCode ----------------------------
(* VerifyCode with two requests in progress, a mobile and an e-mail.       *)
EXTENDS VerifyCode, TLC

Symmetry == Permutations(Procs)
==============================================================================
