--------------------------- MODULE MCKernelActivity ---------------------------
(* One kernel; the values of the bounds are in the configuration.          *)
EXTENDS KernelActivity
=============================================================================
