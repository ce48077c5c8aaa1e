------------------------------ MODULE MCServer ------------------------------
(* Server for TLC: three chunks, and more numbers than are ever in use.    *)
EXTENDS Server

CONSTANTS near, far, deep
=============================================================================
