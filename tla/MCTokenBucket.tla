--------------------------- MODULE MCTokenBucket ---------------------------
(* Small instances of TokenBucket for TLC.                                 *)
EXTENDS TokenBucket

(* Both modes; a packet may need nothing, one token, a full bucket, or     *)
(* more than the bucket holds.                                             *)
MCNeeds == 0 .. (B + 1)
MCModes == {"DETERMINISTIC", "TRACE_DRIVEN"}
=============================================================================
