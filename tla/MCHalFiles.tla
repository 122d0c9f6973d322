----------------------------- MODULE MCHalFiles -----------------------------
(* A pool of six descriptors, and the names of the two devices and of none.  *)
EXTENDS HalFiles

CONSTANT Nowhere

MCNames == {Null, Uart, Nowhere}
=============================================================================
