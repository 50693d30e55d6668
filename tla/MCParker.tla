------------------------------- MODULE MCParker -------------------------------
(* Instance of Parker for TLC: two threads contend for the Listener, two   *)
(* others notify it.                                                       *)
EXTENDS Parker
===============================================================================
