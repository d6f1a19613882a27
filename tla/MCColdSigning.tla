---------------------------- MODULE MCColdSigning ----------------------------
(***************************************************************************)
(* A small instance of ColdSigning for TLC: one key, one action its holder *)
(* wants and one they do not, and two seeds to mix files and signatures    *)
(* of.                                                                     *)
(***************************************************************************)
EXTENDS ColdSigning
CONSTANTS k1, k2, pay, home
=============================================================================
