------------------------- MODULE MCTLSStreamBufferer -------------------------
(* Bounds for model checking TLSStreamBufferer. The code's bounds are      *)
(* 1 MiB < 16 MiB with 50 KiB reads; the model keeps their order,          *)
(* Rec < Low < High, with a stream long enough to reach the pause.         *)
EXTENDS TLSStreamBufferer

MCLow == 3
MCHigh == 4
MCRec == 2
MCMaxBytes == 7
MCMaxOps == 4
MCReadSizes == {0, 1, 2}

(* Smaller bounds for the liveness run: the pause at the high bound still  *)
(* happens (High + 1 bytes can be produced before the user reads).          *)
LiveMaxBytes == 5
LiveMaxOps == 3
LiveReadSizes == {1, 2}

(* One write is enough: writes never interact with each other in the code. *)
MCMaxWrites == 1

(* The liveness run with a write: two user reads, so that the user may     *)
(* also stop reading and leave the pull paused at the high bound.          *)
LiveRWMaxOps == 2
=============================================================================
