--------------------------- MODULE MCBlake3Hasher ---------------------------
(***************************************************************************)
(* Blake3Hasher for an unkeyed hasher and for the one that derives a key:  *)
(* chunks of two blocks, and a buffer of a few chunks.                     *)
(***************************************************************************)
EXTENDS Blake3Hasher

IV == <<"iv">>
MCKeys == {[key |-> IV, flag |-> "None"], [key |-> IV, flag |-> "DeriveKeyContext"]}

=============================================================================
