---------------------------- MODULE MCTabHistory ----------------------------
(* URLs of TabHistory's runs.                                              *)
EXTENDS TabHistory

CONSTANTS u1, u2
=============================================================================
