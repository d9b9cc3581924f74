--------------------------- MODULE MCLoginPolicy ---------------------------
(***************************************************************************)
(* Small instances of LoginPolicy for TLC.                                 *)
(***************************************************************************)
EXTENDS LoginPolicy, TLC

Symmetric == Permutations(Keys)
=============================================================================
