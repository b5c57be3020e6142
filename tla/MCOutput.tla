------------------------------ MODULE MCOutput ------------------------------
(* Instances of Output for TLC, with the streams of MCTransfer.            *)
EXTENDS MCTransfer, Output
=============================================================================
