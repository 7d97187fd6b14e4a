----------------------------- MODULE MCStartup ------------------------------
(* An instance of Startup for TLC: two servers, pools of two, a ceiling    *)
(* just high enough for both.                                              *)
EXTENDS Startup

CONSTANTS s1, s2
=============================================================================
