------------------------------ MODULE MCLogStream ------------------------------
(* Instances of LogStream for TLC. Connections are interchangeable, but the    *)
(* runs check liveness, where symmetry is not sound.                           *)
EXTENDS LogStream
================================================================================
