---------------------------- MODULE MCFutexParker ----------------------------
(* Instance of FutexParker for TLC: two threads contend for the Listener,  *)
(* two others notify it.                                                   *)
EXTENDS FutexParker
===============================================================================
