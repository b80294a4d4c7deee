---------------------------- MODULE MCErrorChain ----------------------------
(***************************************************************************)
(* An instance of ErrorChain for TLC.                                      *)
(***************************************************************************)
EXTENDS ErrorChain
=============================================================================
