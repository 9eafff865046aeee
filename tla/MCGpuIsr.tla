------------------------------ MODULE MCGpuIsr ------------------------------
(* A GPU with two partitions, and one VA space.                              *)
EXTENDS GpuIsr
=============================================================================
