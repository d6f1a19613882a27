---------------------------- MODULE MCPrecompile ----------------------------
(***************************************************************************)
(* A small instance of Precompile for TLC.  One key has signed one digest, *)
(* the empty message and one of two cells, another key the other digest.   *)
(***************************************************************************)
EXTENDS Precompile
CONSTANTS a, b, d, e

SignedPairs == {<<a, <<d>>>>, <<a, <<>>>>, <<a, <<e, d>>>>, <<b, <<e>>>>}

OtherData == <<Header, a, d, [key |-> a, over |-> <<d>>]>>
=============================================================================
