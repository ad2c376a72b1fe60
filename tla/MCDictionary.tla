---------------------------- MODULE MCDictionary ----------------------------
(* A built-in word, and a memory of a few cells, for TLC.                *)
EXTENDS Dictionary, TLC

CONSTANTS a, b
MCNames == {a, b}
MCBuiltIn == << a >>
=============================================================================
