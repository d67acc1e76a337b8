---------------------------- MODULE AbstractStream ----------------------------
(***************************************************************************)
(* What a stream socket of the layer stack promises its reader (spec 4.B,  *)
(* the async_read_some contract): each read the user starts completes once;*)
(* a successful read returns the next bytes of the peer's stream, in       *)
(* order, never more than the peer has sent; once a read has failed (a     *)
(* saved error or operation_aborted) no later read returns data. Bytes may *)
(* be lost only by such a failure, so none is ever skipped or repeated.    *)
(* Reads that ask for bytes are queued and complete in the order they were *)
(* started (spec 4.B: queued reads are served FIFO); a read of an empty    *)
(* buffer is not queued and completes at once with no bytes.               *)
(***************************************************************************)
EXTENDS Naturals, Sequences

CONSTANTS MaxBytes, MaxOps

VARIABLES
    sent,     \* bytes the peer has sent
    nextOp,   \* reads started
    got,      \* bytes returned by successful reads, in completion order
    done,     \* completed reads: [id, ec]
    queue     \* started reads that ask for bytes, not yet completed, oldest first

vars == <<sent, nextOp, got, done, queue>>

Completed(i) == \E d \in done : d.id = i
Failed == \E d \in done : d.ec # "ok"
Queued(i) == \E k \in 1..Len(queue) : queue[k] = i
(* A queued read completes only at the head of the queue.                  *)
InTurn(i) == Queued(i) => i = Head(queue)

Init ==
    /\ sent = 0
    /\ nextOp = 0
    /\ got = <<>>
    /\ done = {}
    /\ queue = <<>>

Send == /\ sent < MaxBytes
        /\ \E n \in (sent + 1)..MaxBytes : sent' = n
        /\ UNCHANGED <<nextOp, got, done, queue>>

Start == /\ nextOp < MaxOps
         /\ nextOp' = nextOp + 1
         /\ queue' \in {Append(queue, nextOp), queue}
         /\ UNCHANGED <<sent, got, done>>

(* A started read completes in its turn with the next n bytes (n is 0 for  *)
(* an empty buffer), or a queued one fails without data.                   *)
Succeed(i) ==
    /\ i < nextOp /\ ~Completed(i) /\ InTurn(i)
    /\ \E n \in (IF Queued(i) THEN 0..(sent - Len(got)) ELSE {0}) :
          /\ n > 0 => ~Failed
          /\ got' = got \o [j \in 1..n |-> Len(got) + j]
    /\ done' = done \cup {[id |-> i, ec |-> "ok"]}
    /\ queue' = IF Queued(i) THEN Tail(queue) ELSE queue
    /\ UNCHANGED <<sent, nextOp>>

Fail(i) ==
    /\ i < nextOp /\ ~Completed(i) /\ Queued(i) /\ InTurn(i)
    /\ \E ec \in {"err", "aborted"} : done' = done \cup {[id |-> i, ec |-> ec]}
    /\ queue' = Tail(queue)
    /\ UNCHANGED <<sent, nextOp, got>>

Next == Send \/ Start \/ \E i \in 0..(MaxOps - 1) : Succeed(i) \/ Fail(i)

Spec == Init /\ [][Next]_vars

=============================================================================
