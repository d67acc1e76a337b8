-------------------------- MODULE TLSStreamBufferer --------------------------
(***************************************************************************)
(* The buffered TLS adapter of src/src/network/ssf/layer/cryptography/tls/ *)
(* OpenSSL/impl.h: class detail::TLSStreamBufferer and the calls of        *)
(* basic_buffered_tls_socket that drive it (async_handshake, close).       *)
(*                                                                         *)
(* The io_service is run by one thread (spec section 5): io_service.post   *)
(* appends a handler to the FIFO `ready`; io_service.dispatch and          *)
(* strand.dispatch called from a running handler execute inline, so the    *)
(* functions that the code chains with dispatch are composed here as       *)
(* operators on one record `buf` and a handler step applies them all.      *)
(* Bytes are numbered 1, 2, ... in the order the TLS record layer returns  *)
(* them; a byte count of the code is the length of a sequence here.        *)
(***************************************************************************)
EXTENDS Naturals, Sequences, SequencesExt

CONSTANTS
    Low,          \* lower_queue_size_bound  (1 MiB in the code)
    High,         \* higher_queue_size_bound (16 MiB)
    Rec,          \* receive_buffer_size: most bytes one socket read returns
    MaxBytes,     \* bound: bytes the peer's TLS stream produces in a run
    MaxOps,       \* bound: async_read_some calls the user makes in a run
    ReadSizes,    \* buffer sizes the user passes to async_read_some
    MaxWrites,    \* bound: async_write_some calls the user makes in a run
    ExecutorReads, \* whether read_some may be called on the io_service thread
    ReadsAfterClose \* whether the user may call async_read_some after close()

ASSUME /\ 0 < Rec /\ Rec < Low /\ Low < High
       /\ MaxBytes \in Nat /\ MaxOps \in Nat
       /\ ReadSizes \subseteq Nat /\ \E n \in ReadSizes : n > 0
       /\ MaxWrites \in Nat /\ ExecutorReads \in BOOLEAN
       /\ ReadsAfterClose \in BOOLEAN

VARIABLES
    buf,      \* the TLSStreamBufferer, the socket and the io_service queue
    phase,    \* "handshake", "open" or "closed": the user-visible socket life
    sent,     \* bytes the peer's TLS stream has produced so far
    nextOp,   \* number of async_read_some calls made (the next op id)
    got,      \* bytes handed to completed user read handlers, in order
    done,     \* ids of the user reads whose handler has run, with its result
    wrote,    \* async_write_some calls made
    written   \* async_write_some calls whose handler has run

vars == <<buf, phase, sent, nextOp, got, done, wrote, written>>

Bytes == 1..MaxBytes
OpIds == 0..MaxOps
ErrorCodes == {"ok", "err", "aborted"}   \* success, a TLS/socket error, operation_aborted

(* Handlers that sit in the io_service queue.                               *)
Pull == [h |-> "pull", op |-> 0, ec |-> "ok", bytes |-> <<>>]
Handle == [h |-> "handle", op |-> 0, ec |-> "ok", bytes |-> <<>>]
ReadCb(ec, bs) == [h |-> "readcb", op |-> 0, ec |-> ec, bytes |-> bs]
Complete(id, ec, bs) == [h |-> "complete", op |-> id, ec |-> ec, bytes |-> bs]
WriteCb(ec) == [h |-> "writecb", op |-> 0, ec |-> ec, bytes |-> <<>>]

Handlers == [h : {"pull", "handle", "readcb", "complete", "writecb"}, op : OpIds,
             ec : ErrorCodes, bytes : Seq(Bytes)]

TypeOK ==
    /\ buf \in [pulling : BOOLEAN, status : {"ok", "err"},
                data : Seq(Bytes),
                ops : Seq([id : OpIds, size : ReadSizes]),
                ready : Seq(Handlers),
                sock : {"open", "closed"},
                inflight : Seq({"open", "closed"}),
                writing : 0..MaxWrites,
                blocked : BOOLEAN]
    /\ phase \in {"handshake", "open", "closed"}
    /\ sent \in 0..MaxBytes
    /\ nextOp \in 0..MaxOps
    /\ got \in Seq(Bytes)
    /\ done \subseteq [id : OpIds, ec : ErrorCodes]
    /\ wrote \in 0..MaxWrites /\ written \in 0..wrote

-----------------------------------------------------------------------------
(* The member functions, as transformers of the record `buf`.               *)

(* Faulty variant: posts the pull but forgets to set pulling_.            *)
StartPullingNoFlag(s) ==
    IF s.pulling THEN s ELSE [s EXCEPT !.ready = Append(@, Pull)]

(* start_pulling: set pulling_ and post async_pull_packets, unless set.     *)
StartPulling(s) ==
    IF s.pulling THEN s
    ELSE [s EXCEPT !.pulling = TRUE, !.ready = Append(@, Pull)]

(* Faulty variants: pausing without clearing pulling_; reading while the   *)
(* queue is at the high bound.                                             *)
AsyncPullPacketsNoReset(s) ==
    IF Len(s.data) < High THEN [s EXCEPT !.inflight = Append(@, s.sock)] ELSE s
AsyncPullPacketsAtBound(s) ==
    IF Len(s.data) <= High
    THEN [s EXCEPT !.inflight = Append(@, s.sock)]
    ELSE [s EXCEPT !.pulling = FALSE]

(* async_pull_packets: while the queue is below the high bound, issue one   *)
(* socket read through the strand; otherwise pause by clearing pulling_.    *)
(* An in-flight read remembers whether the socket was open when issued.     *)
AsyncPullPackets(s) ==
    IF Len(s.data) < High
    THEN [s EXCEPT !.inflight = Append(@, s.sock)]
    ELSE [s EXCEPT !.pulling = FALSE]

(* cancel: stop pulling, drop the buffered bytes and post operation_aborted *)
(* completions for every pending user read.                                 *)
Cancel(s) ==
    [s EXCEPT !.pulling = FALSE, !.data = <<>>, !.ops = <<>>,
              !.ready = @ \o [i \in 1..Len(s.ops) |->
                                 Complete(s.ops[i].id, "aborted", <<>>)]]

(* Faulty variant of the data branch: consuming the whole queue after     *)
(* copying the op's share.                                                 *)
RECURSIVE HandleDataNOpsConsumeAll(_)
HandleDataNOpsConsumeAll(s) ==
    IF s.status = "ok"
    THEN LET t == IF Len(s.data) < Low /\ ~s.pulling THEN StartPulling(s) ELSE s
         IN IF t.ops # <<>> /\ t.data # <<>>
            THEN LET op == Head(t.ops)
                     k  == Min({op.size, Len(t.data)})
                 IN HandleDataNOpsConsumeAll(
                      [t EXCEPT !.ops = Tail(@), !.data = <<>>,
                                !.ready = Append(@, Complete(op.id, "ok",
                                                             SubSeq(t.data, 1, k)))])
            ELSE t
    ELSE s

(* Faulty variant: the newest pending read is served first (back() for    *)
(* front()).                                                               *)
RECURSIVE HandleDataNOpsNewestFirst(_)
HandleDataNOpsNewestFirst(s) ==
    IF s.status = "ok"
    THEN LET t == IF Len(s.data) < Low /\ ~s.pulling THEN StartPulling(s) ELSE s
         IN IF t.ops # <<>> /\ t.data # <<>>
            THEN LET op == Last(t.ops)
                     k  == Min({op.size, Len(t.data)})
                 IN HandleDataNOpsNewestFirst(
                      [t EXCEPT !.ops = Front(@),
                                !.data = SubSeq(@, k + 1, Len(@)),
                                !.ready = Append(@, Complete(op.id, "ok",
                                                             SubSeq(t.data, 1, k)))])
            ELSE t
    ELSE IF s.ops # <<>>
         THEN HandleDataNOpsNewestFirst([s EXCEPT !.ops = Tail(@),
                                       !.ready = Append(@, Complete(Head(s.ops).id,
                                                                    "err", <<>>))])
         ELSE s

(* handle_data_n_ops: restart pulling below the low bound, then serve the  *)
(* oldest pending read from the queue (fill_buffer copies and consumes at  *)
(* most the op's buffer size) and dispatch itself again; once status_ is   *)
(* an error, fail the pending reads one by one with it.                    *)
RECURSIVE HandleDataNOps(_)
HandleDataNOps(s) ==
    IF s.status = "ok"
    THEN LET t == IF Len(s.data) < Low /\ ~s.pulling THEN StartPulling(s) ELSE s
         IN IF t.ops # <<>> /\ t.data # <<>>
            THEN LET op == Head(t.ops)
                     k  == Min({op.size, Len(t.data)})
                 IN HandleDataNOps(
                      [t EXCEPT !.ops = Tail(@),
                                !.data = SubSeq(@, k + 1, Len(@)),
                                !.ready = Append(@, Complete(op.id, "ok",
                                                             SubSeq(t.data, 1, k)))])
            ELSE t
    ELSE IF s.ops # <<>>
         THEN HandleDataNOps([s EXCEPT !.ops = Tail(@),
                                       !.ready = Append(@, Complete(Head(s.ops).id,
                                                                    "err", <<>>))])
         ELSE s

(* Faulty variant: a read error drops the queue but is not saved.         *)
OnPullCompleteErrorLost(s, ec, bs) ==
    LET t == CASE ec = "ok" ->
                    LET c == [s EXCEPT !.data = @ \o bs]
                    IN IF c.status = "ok" THEN AsyncPullPackets(c) ELSE c
               [] ec = "aborted" -> Cancel(s)
               [] ec = "err" -> [s EXCEPT !.data = <<>>]
    IN HandleDataNOps(t)

(* Faulty variant: operation_aborted saved in status_ like any error.     *)
OnPullCompleteSavesAbort(s, ec, bs) ==
    LET t == IF ec = "ok"
             THEN LET c == [s EXCEPT !.data = @ \o bs]
                  IN IF c.status = "ok" THEN AsyncPullPackets(c) ELSE c
             ELSE [s EXCEPT !.data = <<>>, !.status = ec]
    IN HandleDataNOps(t)

(* The completion handler of a socket read (the lambda `handler` in         *)
(* async_pull_packets): commit the bytes and pull again while status_ is   *)
(* clear; on operation_aborted cancel; on any other error drop the queue   *)
(* and save the error; in every case dispatch handle_data_n_ops.            *)
OnPullComplete(s, ec, bs) ==
    LET t == CASE ec = "ok" ->
                    LET c == [s EXCEPT !.data = @ \o bs]
                    IN IF c.status = "ok" THEN AsyncPullPackets(c) ELSE c
               [] ec = "aborted" -> Cancel(s)
               [] ec = "err" -> [s EXCEPT !.data = <<>>, !.status = "err"]
    IN HandleDataNOps(t)

(* TLSStreamBufferer::async_read_some: an empty buffer posts its handler   *)
(* with (ok, 0) at once; otherwise the op is pushed on op_queue_ and       *)
(* handle_data_n_ops is posted.                                            *)
BuffererAsyncReadSome(s, id, size) ==
    IF size > 0
    THEN [s EXCEPT !.ops = Append(@, [id |-> id, size |-> size]),
                   !.ready = Append(@, Handle)]
    ELSE [s EXCEPT !.ready = Append(@, Complete(id, "ok", <<>>))]

(* basic_buffered_tls_socket::async_write_some: strand.dispatch of the TLS *)
(* stream's async_write_some, no buffering; a pull in flight is no reason  *)
(* to wait.                                                                *)
IssueWrite(s) == [s EXCEPT !.writing = @ + 1]

-----------------------------------------------------------------------------
(* Steps of the user, of the network and of the io_service thread.          *)

Init ==
    /\ buf = [pulling |-> FALSE, status |-> "ok", data |-> <<>>, ops |-> <<>>,
              ready |-> <<>>, sock |-> "open", inflight |-> <<>>,
              writing |-> 0, blocked |-> FALSE]
    /\ phase = "handshake"
    /\ sent = 0
    /\ nextOp = 0
    /\ got = <<>>
    /\ done = {}
    /\ wrote = 0
    /\ written = 0

(* basic_buffered_tls_socket::async_handshake succeeds: its user handler    *)
(* wrapper calls start_pulling before the caller's handler.                 *)
Handshake ==
    /\ phase = "handshake"
    /\ phase' = "open"
    /\ buf' = StartPulling(buf)
    /\ UNCHANGED <<sent, nextOp, got, done, wrote, written>>

(* basic_buffered_tls_socket::async_read_some, forwarded to the bufferer   *)
(* once the handshake made it (p_puller_). Nothing checks that the socket  *)
(* is still open: a caller that reads after close() is allowed when        *)
(* ReadsAfterClose is TRUE.                                                 *)
AsyncReadSome(size) ==
    /\ phase = "open" \/ (ReadsAfterClose /\ phase = "closed")
    /\ nextOp < MaxOps
    /\ buf' = BuffererAsyncReadSome(buf, nextOp, size)
    /\ nextOp' = nextOp + 1
    /\ UNCHANGED <<phase, sent, got, done, wrote, written>>

(* basic_buffered_tls_socket::read_some called from a handler on the       *)
(* io_service thread: async_read_some with use_future, then read.get()     *)
(* blocks the thread until the completion handler, which only the          *)
(* io_service runs, fulfils the promise.                                   *)
ReadSome(size) ==
    /\ ExecutorReads
    /\ phase = "open"
    /\ nextOp < MaxOps
    /\ ~buf.blocked
    /\ buf' = [BuffererAsyncReadSome(buf, nextOp, size) EXCEPT !.blocked = TRUE]
    /\ nextOp' = nextOp + 1
    /\ UNCHANGED <<phase, sent, got, done, wrote, written>>

(* The user writes: async_write_some on the open socket.                    *)
AsyncWriteSome ==
    /\ phase = "open"
    /\ wrote < MaxWrites
    /\ buf' = IssueWrite(buf)
    /\ wrote' = wrote + 1
    /\ UNCHANGED <<phase, sent, nextOp, got, done, written>>

(* basic_buffered_tls_socket::close: close the lowest layer, then cancel.   *)
Close ==
    /\ phase # "closed"
    /\ phase' = "closed"
    /\ buf' = Cancel([buf EXCEPT !.sock = "closed"])
    /\ UNCHANGED <<sent, nextOp, got, done, wrote, written>>

(* The oldest outstanding socket read completes and its strand-wrapped      *)
(* handler is queued: with 1..Rec new bytes or an error (end of stream, TLS *)
(* alert) while the socket is open; with operation_aborted if the socket    *)
(* was closed under it; with an error if it was issued on a closed socket.  *)
SocketReadDone ==
    /\ buf.inflight # <<>>
    /\ LET issued == Head(buf.inflight)
           queue(cb) == [buf EXCEPT !.inflight = Tail(@), !.ready = Append(@, cb)]
       IN \/ /\ issued = "open" /\ buf.sock = "open"
             /\ \E n \in 1..Rec :
                   /\ sent + n <= MaxBytes
                   /\ buf' = queue(ReadCb("ok", [i \in 1..n |-> sent + i]))
                   /\ sent' = sent + n
          \/ /\ issued = "open" /\ buf.sock = "open"
             /\ buf' = queue(ReadCb("err", <<>>))
             /\ UNCHANGED sent
          \/ /\ issued = "open" /\ buf.sock = "closed"
             /\ buf' = queue(ReadCb("aborted", <<>>))
             /\ UNCHANGED sent
          \/ /\ issued = "closed"
             /\ buf' = queue(ReadCb("err", <<>>))
             /\ UNCHANGED sent
    /\ UNCHANGED <<phase, nextOp, got, done, wrote, written>>

(* A TLS write completes and its strand-wrapped handler is queued: written *)
(* on an open socket, aborted on a closed one.                             *)
SocketWriteDone ==
    /\ buf.writing > 0
    /\ buf' = [buf EXCEPT !.writing = @ - 1,
                          !.ready = Append(@, WriteCb(IF buf.sock = "open"
                                                      THEN "ok" ELSE "aborted"))]
    /\ UNCHANGED <<phase, sent, nextOp, got, done, wrote, written>>

(* The io_service thread runs the oldest posted handler, unless it is      *)
(* blocked in read_some.                                                   *)
RunHandler ==
    /\ buf.ready # <<>>
    /\ ~buf.blocked
    /\ LET hd == Head(buf.ready)
           s  == [buf EXCEPT !.ready = Tail(@)]
       IN CASE hd.h = "pull"   -> /\ buf' = AsyncPullPackets(s)
                                  /\ UNCHANGED <<got, done, written>>
            [] hd.h = "handle" -> /\ buf' = HandleDataNOps(s)
                                  /\ UNCHANGED <<got, done, written>>
            [] hd.h = "readcb" -> /\ buf' = OnPullComplete(s, hd.ec, hd.bytes)
                                  /\ UNCHANGED <<got, done, written>>
            [] hd.h = "complete" ->
                                  /\ buf' = s
                                  /\ got' = got \o hd.bytes
                                  /\ done' = done \cup {[id |-> hd.op, ec |-> hd.ec]}
                                  /\ UNCHANGED written
            [] hd.h = "writecb" -> /\ buf' = s
                                   /\ written' = written + 1
                                   /\ UNCHANGED <<got, done>>
    /\ UNCHANGED <<phase, sent, nextOp, wrote>>

Next ==
    \/ Handshake
    \/ \E size \in ReadSizes : AsyncReadSome(size) \/ ReadSome(size)
    \/ AsyncWriteSome
    \/ Close
    \/ SocketReadDone
    \/ SocketWriteDone
    \/ RunHandler

(* The io_service runs every posted handler, and the transport eventually  *)
(* completes every read and write it was given.                            *)
Fairness == WF_vars(RunHandler) /\ WF_vars(SocketReadDone)
              /\ WF_vars(SocketWriteDone)

Spec == Init /\ [][Next]_vars /\ Fairness

-----------------------------------------------------------------------------
(* Properties.                                                              *)

(* Socket reads issued and not yet fully handled: reads in flight, their    *)
(* queued completion handlers and a posted async_pull_packets.              *)
PullsOutstanding ==
    Len(buf.inflight)
      + Len(SelectSeq(buf.ready, LAMBDA hd : hd.h \in {"pull", "readcb"}))

(* The bytes held by completion handlers still waiting in the queue.        *)
Queued(kind) ==
    UNION {ToSet(buf.ready[i].bytes) : i \in {j \in 1..Len(buf.ready) :
                                                 buf.ready[j].h = kind}}

(* While the socket is open and no read error was saved in status_, every  *)
(* byte the TLS stream has produced is still somewhere: in a queued pull   *)
(* completion, in data_queue_, in a posted user completion, or delivered.  *)
(* Bytes may only be discarded by an error or by close().                  *)
NoByteLost ==
    (buf.status = "ok" /\ buf.sock = "open") =>
        \A b \in 1..sent :
            b \in Queued("readcb") \cup ToSet(buf.data) \cup Queued("complete")
                  \cup ToSet(got)

(* data_queue_ never holds more than one receive buffer beyond the high    *)
(* bound: async_pull_packets only reads while the queue is below it.       *)
BufferBound == Len(buf.data) < High + Rec

(* While the socket is open at most one socket read is outstanding, so the *)
(* streambuf area handed out by prepare() is never shared by two reads.    *)
OnePullWhileOpen == buf.sock = "open" => PullsOutstanding <= 1

(* pulling_ tells the truth while the stream is healthy: it is set exactly *)
(* when a pull is outstanding. A set flag with no pull would stall all     *)
(* reads for good (handle_data_n_ops never restarts a pull); a clear flag  *)
(* with a pull running would let start_pulling start a second one.         *)
PullingFlagTracksLoop ==
    (buf.sock = "open" /\ buf.status = "ok") =>
        (buf.pulling <=> PullsOutstanding = 1)

(* User reads whose handler has not run yet.                               *)
PendingReads == {i \in 0..(nextOp - 1) : ~\E d \in done : d.id = i}

(* Every async_read_some eventually has its handler called, with data, the *)
(* saved error or operation_aborted, also across a pause at the high bound:*)
(* no read stays pending for ever.                                         *)
ReadsComplete == []<>(PendingReads = {})

(* A pending read is queued unless its buffer was empty: then its handler *)
(* sits in the io_service queue with (ok, no bytes), an answer a read     *)
(* that asked for bytes never gets (fill_buffer copies at least one).     *)
EmptyRead(i) == \E k \in 1..Len(buf.ready) : buf.ready[k] = Complete(i, "ok", <<>>)

(* The abstract read queue: the pending reads that asked for bytes, in the *)
(* order they were started.                                                *)
QueuedReads ==
    SelectSeq([k \in 1..nextOp |-> k - 1],
              LAMBDA i : i \in PendingReads /\ ~EmptyRead(i))

(* The adapter implements the read contract of a stream socket: every     *)
(* user-visible step (a byte sent by the peer, a read started, a read      *)
(* handler run) is a step of AbstractStream, with queued reads completed   *)
(* in the order they were started; the rest are internal steps.            *)
Contract == INSTANCE AbstractStream
                WITH sent <- sent, nextOp <- nextOp, got <- got, done <- done,
                     queue <- QueuedReads
ImplementsStream == Contract!Spec

(* The spec (section 4.B): exactly one pull operation is outstanding at    *)
(* any time, with no exception for a closed socket.                        *)
AtMostOnePull == PullsOutstanding <= 1

=============================================================================
