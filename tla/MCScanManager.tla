----------------------------- MODULE MCScanManager -----------------------------
(* Instances of ScanManager for TLC. Names are strings, so that one of them can *)
(* be the name of another's sidecar; jobs and workers are model values, which   *)
(* are interchangeable in a run without liveness.                               *)
EXTENDS ScanManager, TLC

\* metaPath: the name with ".meta" appended, which may be in Base itself.
MetaName == [b \in Base |-> b \o ".meta"]

Symmetry == Permutations(CliJob) \cup Permutations(McpJob) \cup Permutations(Worker)
================================================================================
