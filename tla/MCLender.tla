------------------------------- MODULE MCLender -------------------------------
(* Instances of Lender for TLC.                                            *)
EXTENDS Lender
===============================================================================
