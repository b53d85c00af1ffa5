------------------------------ MODULE MCPidFile ------------------------------
(* PidFile for TLC, with a few instances as model values.  They are not     *)
(* taken as symmetric, since the run checks a liveness property as well.    *)
EXTENDS PidFile
=============================================================================
