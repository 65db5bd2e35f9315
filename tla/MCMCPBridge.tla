------------------------------ MODULE MCMCPBridge ------------------------------
(* Instances of MCPBridge for TLC.                                             *)
EXTENDS MCPBridge, TLC

Symmetry == Permutations(Scan) \cup Permutations(Request)
================================================================================
