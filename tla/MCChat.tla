--------------------------------- MODULE MCChat --------------------------------
(* Instances of Chat for TLC. Calls of Send are interchangeable.               *)
EXTENDS Chat

Symmetry == Permutations(Sender)
================================================================================
