----------------------- MODULE MCTokenBucketSignals ------------------------
(* A small instance of TokenBucketSignals for TLC.                         *)
EXTENDS TokenBucketSignals

MCNeeds == {1}
MCModes == {"DETERMINISTIC"}
=============================================================================
