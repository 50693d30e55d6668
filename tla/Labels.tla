-------------------------------- MODULE Labels --------------------------------
(* The entries of a function of program counters that are at some labels.  *)

Where(f, labels) == {x \in DOMAIN f : f[x] \in labels}
===============================================================================
