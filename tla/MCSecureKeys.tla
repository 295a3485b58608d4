------------------------------ MODULE MCSecureKeys ------------------------------
(* SecureKeyManager for TLC: every key id is like any other. *)
EXTENDS SecureKeys, TLC

KeySymmetry == Permutations(Ids)
===============================================================================
