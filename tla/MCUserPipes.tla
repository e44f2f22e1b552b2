---------------------------- MODULE MCUserPipes ----------------------------
(* UserPipes with two ids and two descriptors: either descriptor comes back     *)
(* under either id.  Descriptors are only compared for equality.                *)
EXTENDS UserPipes, TLC

Symmetric == Permutations(Fds)
=============================================================================
