-------------------- MODULE MCTLSStreamBuffererThreads --------------------
EXTENDS TLSStreamBuffererThreads

(* Two io threads; a queue that stops pulling at 2 bytes; reads of 1 or 2 *)
(* bytes, so both the restart below Low and the stop at High happen.       *)
MCLow == 1
MCHigh == 2
MCReadSizes == {1, 2}
MCMaxBytes == 2
MCMaxOps == 2
MCMaxWrites == 1
NoWrites == 0
ThreadSymmetry == Permutations(IoThreads)
====
