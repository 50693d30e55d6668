------------------------------ MODULE MCListener ------------------------------
(* Instance of Listener for TLC: one thread that parks and blocks, and two *)
(* others that come by a Notifier or a Waker.                              *)
EXTENDS Listener
===============================================================================
