----------------------------- MODULE MCUserFifos -----------------------------
(* UserFifos with two users, who pipe to each other, rename themselves, leave   *)
(* and come back as others; a third session is the one behind the table, or the *)
(* next with an id that was given back.                                         *)
EXTENDS UserFifos

MCLinks == {<<1, 2>>, <<2, 1>>}
=============================================================================
