---------------------------- MODULE MCReadModels ----------------------------
(* An instance of ReadModels for TLC, on the instance of Outcomes.          *)
EXTENDS MCOutcomes, ReadModels
=============================================================================
