--------------------------- MODULE MCPerdbWorkers ---------------------------
(* Instantiation of PerdbWorkers for TLC: two peers, with node names as   *)
(* model values given in the .cfg files.                                  *)
EXTENDS PerdbWorkers

=============================================================================
