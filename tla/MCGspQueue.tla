------------------------------ MODULE MCGspQueue ------------------------------
(* Records of one and two elements on a ring of three or four buffers.       *)
EXTENDS GspQueue

MCElements == Elements
===============================================================================
