-------------------------------- MODULE MCTask --------------------------------
(* Instance of Task for TLC: streams, send_once() channels and tasks, with *)
(* clients that read to the end and with clients that make any call.       *)
EXTENDS Task
===============================================================================
