----------------------- MODULE TLSStreamBuffererThreads -----------------------
(***************************************************************************)
(* TLSStreamBufferer (network/ssf/layer/cryptography/tls/OpenSSL/impl.h)   *)
(* with its io_service run by several threads, the use its three mutexes   *)
(* and its strand are there for. Each handler is cut at its lock scopes:   *)
(* a section is entered (its mutexes taken, a thread that cannot take them *)
(* waits) and left (its effect applied, some mutexes released). While a    *)
(* thread is inside a section it is touching the locations the section     *)
(* names; two threads inside sections on one location, one of them        *)
(* writing, is a data race.                                                *)
(*                                                                         *)
(* Data is abstracted to the number of bytes in data_queue_ and of queued  *)
(* operations; TLSStreamBufferer.tla checks the bytes themselves on one    *)
(* thread. The ready handlers form a bag: with several threads the order   *)
(* in which posted handlers run is not the order they were posted in.      *)
(* The application is one more thread, User, calling async_read_some,      *)
(* write_some and close (the blocking read_some is why it is not an io     *)
(* thread).                                                                *)
(***************************************************************************)
EXTENDS Naturals, FiniteSets, Bags, BagsExt, Functions, TLC

CONSTANTS
    IoThreads,   \* the threads running io_service.run()
    User,        \* the application thread
    NoOwner,     \* owner of a free mutex
    Low, High,   \* lower_ and higher_queue_size_bound
    ReadSizes,   \* bytes a socket read may deliver
    MaxBytes,    \* bound: bytes the peer sends
    MaxOps,      \* bound: reads the application issues
    MaxWrites    \* bound: write_some calls of the application

Actors == IoThreads \cup {User}
Mutexes == {"pulling", "data", "op", "strand"}

VARIABLES
    size, status, pulling, ops,  \* data_queue_.size(), status_, pulling_, op_queue_.size()
    inflight, open, sent,        \* socket reads in flight, socket open, bytes delivered
    ready,                       \* posted handlers, a bag
    owner,                       \* owner of each mutex (and of the strand)
    pc, cur, cont, inStrand,     \* per actor: section, handler run, return label, in a strand handler
    acc,                         \* per actor: the accesses of the section it is inside
    nextOp, written              \* reads issued, write_some calls made

vars == <<size, status, pulling, ops, inflight, open, sent, ready, owner,
          pc, cur, cont, inStrand, acc, nextOp, written>>

R(l) == [loc |-> l, w |-> FALSE]
W(l) == [loc |-> l, w |-> TRUE]

(* Handlers: async_pull_packets, handle_data_n_ops, a completion, the      *)
(* strand-queued socket read issue, the strand-wrapped read callback.      *)
Pull == [k |-> "pull"]
Handle == [k |-> "handle"]
Complete == [k |-> "complete"]
Issue == [k |-> "issue"]
ReadCb(ec, n) == [k |-> "readcb", ec |-> ec, n |-> n]

(* The lock scopes: mutexes taken on entry and locations touched inside.   *)
Section ==
    ("H1" :> [locks |-> {}, acc |-> {R("status")}])
 @@ ("H2" :> [locks |-> {"pulling"}, acc |-> {R("data"), R("pulling")}])
 @@ ("H3" :> [locks |-> {"data", "op"}, acc |-> {W("data"), W("ops")}])
 @@ ("H5" :> [locks |-> {"data", "op"}, acc |-> {W("ops")}])
 @@ ("P1" :> [locks |-> {"data"}, acc |-> {W("data")}])
 @@ ("P2" :> [locks |-> {}, acc |-> {W("pulling")}])
 @@ ("I"  :> [locks |-> {}, acc |-> {W("engine")}])
 @@ ("R0" :> [locks |-> {}, acc |-> {W("engine")}])
 @@ ("R1" :> [locks |-> {"data"}, acc |-> {W("data")}])
 @@ ("R2" :> [locks |-> {}, acc |-> {R("status")}])
 @@ ("E1" :> [locks |-> {}, acc |-> {W("data"), W("status")}])
 @@ ("C1" :> [locks |-> {"pulling"}, acc |-> {W("pulling")}])
 @@ ("C2" :> [locks |-> {"data", "op"}, acc |-> {W("data"), W("ops")}])
 @@ ("UR" :> [locks |-> {"op"}, acc |-> {W("ops")}])
 @@ ("UW" :> [locks |-> {}, acc |-> {W("engine")}])
 @@ ("UC" :> [locks |-> {}, acc |-> {W("socket")}])

Release(a, ms) == [m \in Mutexes |-> IF m \in ms /\ owner[m] = a THEN NoOwner ELSE owner[m]]

Init ==
    /\ size = 0 /\ status = "ok" /\ ops = 0 /\ inflight = 0 /\ open = TRUE /\ sent = 0
    /\ pulling = TRUE /\ ready = SetToBag({Pull})   \* handshake succeeded: start_pulling
    /\ owner = [m \in Mutexes |-> NoOwner]
    /\ pc = [a \in Actors |-> IF a = User THEN "user" ELSE "idle"]
    /\ cur = [a \in Actors |-> Pull] /\ cont = [a \in Actors |-> "idle"]
    /\ inStrand = [a \in Actors |-> FALSE] /\ acc = [a \in Actors |-> {}]
    /\ nextOp = 0 /\ written = 0

Shared == <<size, status, pulling, ops, inflight, open, sent, ready, nextOp, written>>

(* Entering a section: its mutexes are free or already held (recursive    *)
(* mutexes), and the thread takes them.                                    *)
Enter(a) ==
    LET s == Section[pc[a]] IN
    /\ pc[a] \in DOMAIN Section /\ acc[a] = {}
    /\ \A m \in s.locks : owner[m] \in {NoOwner, a}
    /\ owner' = [m \in Mutexes |-> IF m \in s.locks THEN a ELSE owner[m]]
    /\ acc' = [acc EXCEPT ![a] = s.acc]
    /\ UNCHANGED <<Shared, pc, cur, cont, inStrand>>

Inside(a, l) == pc[a] = l /\ acc[a] # {} /\ acc' = [acc EXCEPT ![a] = {}]
Goto(a, l) == pc' = [pc EXCEPT ![a] = l]
-----------------------------------------------------------------------------
(* A thread of run() takes a ready handler. A strand-wrapped one (the read *)
(* callback, a queued read issue) waits for the strand and holds it.       *)
Take(a, h) ==
    /\ a \in IoThreads /\ pc[a] = "idle" /\ h \in BagToSet(ready)
    /\ h.k \in {"readcb", "issue"} => owner["strand"] = NoOwner
    /\ ready' = BagRemove(ready, h)
    /\ owner' = IF h.k \in {"readcb", "issue"} THEN [owner EXCEPT !["strand"] = a] ELSE owner
    /\ pc' = [pc EXCEPT ![a] = CASE h.k = "pull" -> "P1" [] h.k = "handle" -> "H1"
                                 [] h.k = "issue" -> "I" [] h.k = "readcb" -> "R0"
                                 [] h.k = "complete" -> "idle"]
    /\ cur' = [cur EXCEPT ![a] = IF h.k = "readcb" THEN h ELSE Pull]
    /\ inStrand' = [inStrand EXCEPT ![a] = h.k = "readcb"]
    /\ UNCHANGED <<size, status, pulling, ops, inflight, open, sent, acc, cont, nextOp, written>>

(* handle_data_n_ops. H1: the unlocked read of status_.                    *)
HandleCheckStatus(a) ==
    /\ Inside(a, "H1") /\ Goto(a, IF status = "ok" THEN "H2" ELSE "H5")
    /\ UNCHANGED <<Shared, owner, cur, cont, inStrand>>

(* H2, under pulling_mutex_: restart the loop when data_queue_ is low.     *)
HandleRestartPull(a) ==
    /\ Inside(a, "H2") /\ Goto(a, "H3")
    /\ IF size < Low /\ ~pulling
       THEN pulling' = TRUE /\ ready' = BagAdd(ready, Pull)
       ELSE UNCHANGED <<pulling, ready>>
    /\ owner' = Release(a, {"pulling"})
    /\ UNCHANGED <<size, status, ops, inflight, open, sent, cur, cont, inStrand, nextOp, written>>

(* H3, under both queue mutexes: serve the first operation, post its       *)
(* completion and dispatch handle_data_n_ops inline, locks still held.     *)
HandleServe(a) ==
    /\ Inside(a, "H3") /\ ops > 0 /\ size > 0 /\ Goto(a, "H1")
    /\ \E k \in 1..size : size' = size - k
    /\ ops' = ops - 1 /\ ready' = BagAdd(ready, Complete)
    /\ UNCHANGED <<status, pulling, inflight, open, sent, owner, cur, cont, inStrand, nextOp, written>>

(* H5, status_ set: fail the first operation and dispatch again.           *)
HandleFail(a) ==
    /\ Inside(a, "H5") /\ ops > 0 /\ Goto(a, "H1")
    /\ ops' = ops - 1 /\ ready' = BagAdd(ready, Complete)
    /\ UNCHANGED <<size, status, pulling, inflight, open, sent, owner, cur, cont, inStrand, nextOp, written>>

(* Nothing to serve: every nested call returns, releasing the queue        *)
(* mutexes, and the strand when the handler was the read callback.         *)
HandleReturn(a) ==
    /\ \/ Inside(a, "H3") /\ ~(ops > 0 /\ size > 0)
       \/ Inside(a, "H5") /\ ops = 0
    /\ Goto(a, "idle")
    /\ owner' = Release(a, {"data", "op"} \cup (IF inStrand[a] THEN {"strand"} ELSE {}))
    /\ inStrand' = [inStrand EXCEPT ![a] = FALSE]
    /\ cur' = [cur EXCEPT ![a] = Pull] /\ cont' = [cont EXCEPT ![a] = "idle"]
    /\ UNCHANGED Shared

(* async_pull_packets, P1 under data_queue_mutex_: prepare, then below the *)
(* high bound strand_.dispatch the socket read: inline when the strand is  *)
(* free or already held, queued on it otherwise.                           *)
PullIssue(a) ==
    /\ Inside(a, "P1") /\ size < High /\ owner["strand"] \in {NoOwner, a}
    /\ Goto(a, "I") /\ owner' = [owner EXCEPT !["strand"] = a]
    /\ UNCHANGED <<Shared, cur, cont, inStrand>>

PullQueue(a) ==
    /\ Inside(a, "P1") /\ size < High /\ owner["strand"] \notin {NoOwner, a}
    /\ ready' = BagAdd(ready, Issue)
    /\ Goto(a, cont[a]) /\ owner' = Release(a, {"data"})
    /\ UNCHANGED <<size, status, pulling, ops, inflight, open, sent, cur, cont, inStrand, nextOp, written>>

(* At the high bound the loop stops: pulling_ = false, under               *)
(* data_queue_mutex_ only (P2).                                            *)
PullStop(a) ==
    /\ Inside(a, "P1") /\ size >= High /\ Goto(a, "P2")
    /\ UNCHANGED <<Shared, owner, cur, cont, inStrand>>

PullStopped(a) ==
    /\ Inside(a, "P2") /\ pulling' = FALSE
    /\ Goto(a, cont[a]) /\ owner' = Release(a, {"data"})
    /\ UNCHANGED <<size, status, ops, inflight, open, sent, ready, cur, cont, inStrand, nextOp, written>>

(* The socket read is started on the TLS stream, in the strand (I).        *)
IssueRead(a) ==
    /\ Inside(a, "I") /\ inflight' = inflight + 1
    /\ Goto(a, cont[a])
    /\ owner' = Release(a, {"data"} \cup (IF inStrand[a] THEN {} ELSE {"strand"}))
    /\ UNCHANGED <<size, status, pulling, ops, open, sent, ready, cur, cont, inStrand, nextOp, written>>

(* The strand-wrapped read callback. R0: the TLS stream's read operation   *)
(* finishes on the engine before the callback body runs.                   *)
CallbackEnter(a) ==
    /\ Inside(a, "R0")
    /\ Goto(a, CASE cur[a].ec = "ok" -> "R1" [] cur[a].ec = "aborted" -> "C1"
                 [] cur[a].ec = "err" -> "E1")
    /\ cont' = [cont EXCEPT ![a] = "H1"]
    /\ UNCHANGED <<Shared, owner, cur, inStrand>>

(* R1, success: commit the bytes under data_queue_mutex_.                  *)
CallbackCommit(a) ==
    /\ Inside(a, "R1") /\ size' = size + cur[a].n
    /\ Goto(a, "R2") /\ owner' = Release(a, {"data"})
    /\ UNCHANGED <<status, pulling, ops, inflight, open, sent, ready, cur, cont, inStrand, nextOp, written>>

(* R2: the unlocked read of status_; when clear, async_pull_packets is     *)
(* dispatched inline, then handle_data_n_ops.                              *)
CallbackContinue(a) ==
    /\ Inside(a, "R2") /\ Goto(a, IF status = "ok" THEN "P1" ELSE "H1")
    /\ UNCHANGED <<Shared, owner, cur, cont, inStrand>>

(* E1, any other error: data_queue_ consumed and status_ set, no lock.     *)
CallbackError(a) ==
    /\ Inside(a, "E1") /\ size' = 0 /\ status' = "err" /\ Goto(a, "H1")
    /\ UNCHANGED <<pulling, ops, inflight, open, sent, ready, owner, cur, cont, inStrand, nextOp, written>>

(* cancel(). C1: pulling_ = false under pulling_mutex_, released before   *)
(* C2 takes both queue mutexes, empties data_queue_ and posts an aborted   *)
(* completion for every queued operation.                                  *)
(* Faulty variant: one lock scope for all of cancel(), pulling_mutex_      *)
(* still held when the queue mutexes are taken.                            *)
CancelPullingKeepsLock(a) ==
    /\ Inside(a, "C1") /\ pulling' = FALSE /\ Goto(a, "C2")
    /\ UNCHANGED <<size, status, ops, inflight, open, sent, ready, owner, cur, cont, inStrand, nextOp, written>>

CancelPulling(a) ==
    /\ Inside(a, "C1") /\ pulling' = FALSE
    /\ Goto(a, "C2") /\ owner' = Release(a, {"pulling"})
    /\ UNCHANGED <<size, status, ops, inflight, open, sent, ready, cur, cont, inStrand, nextOp, written>>

CancelDrain(a) ==
    /\ Inside(a, "C2") /\ size' = 0 /\ ops' = 0
    /\ ready' = IF ops > 0 THEN ready (+) (Complete :> ops) ELSE ready
    /\ Goto(a, cont[a]) /\ owner' = Release(a, {"data", "op"})
    /\ UNCHANGED <<status, pulling, inflight, open, sent, cur, cont, inStrand, nextOp, written>>

-----------------------------------------------------------------------------
(* The application calls async_read_some (UR: push under op_queue_mutex_,  *)
(* post handle_data_n_ops), write_some (UW: straight on the TLS stream,    *)
(* outside the strand) or close (UC: close the socket, then cancel()).     *)
Call(l) ==
    /\ pc[User] = "user"
    /\ \/ l = "UR" /\ nextOp < MaxOps
       \/ l = "UW" /\ written < MaxWrites
       \/ l = "UC" /\ open
    /\ Goto(User, l)
    /\ UNCHANGED <<Shared, owner, cur, cont, inStrand, acc>>

UserRead ==
    /\ Inside(User, "UR") /\ ops' = ops + 1 /\ nextOp' = nextOp + 1
    /\ ready' = BagAdd(ready, Handle)
    /\ Goto(User, "user") /\ owner' = Release(User, {"op"})
    /\ UNCHANGED <<size, status, pulling, inflight, open, sent, cur, cont, inStrand, written>>

UserWrite ==
    /\ Inside(User, "UW") /\ written' = written + 1 /\ Goto(User, "user")
    /\ UNCHANGED <<size, status, pulling, ops, inflight, open, sent, ready, owner, cur, cont, inStrand, nextOp>>

UserClose ==
    /\ Inside(User, "UC") /\ open' = FALSE /\ Goto(User, "C1")
    /\ cont' = [cont EXCEPT ![User] = "user"]
    /\ UNCHANGED <<size, status, pulling, ops, inflight, sent, ready, owner, cur, inStrand, nextOp, written>>

(* A socket read completes: bytes or an error while open, aborted once     *)
(* closed; its callback is posted through the strand.                      *)
SocketReadDone ==
    /\ inflight > 0 /\ inflight' = inflight - 1
    /\ \/ open /\ \E n \in ReadSizes :
             sent + n <= MaxBytes /\ sent' = sent + n /\ ready' = BagAdd(ready, ReadCb("ok", n))
       \/ open /\ sent' = sent /\ ready' = BagAdd(ready, ReadCb("err", 0))
       \/ ~open /\ sent' = sent /\ ready' = BagAdd(ready, ReadCb("aborted", 0))
    /\ UNCHANGED <<size, status, pulling, ops, open, owner, pc, cur, cont, inStrand, acc, nextOp, written>>

Step(a) ==
    \/ Enter(a)
    \/ \E h \in BagToSet(ready) : Take(a, h)
    \/ HandleCheckStatus(a) \/ HandleRestartPull(a) \/ HandleServe(a)
    \/ HandleFail(a) \/ HandleReturn(a)
    \/ PullIssue(a) \/ PullQueue(a) \/ PullStop(a) \/ PullStopped(a) \/ IssueRead(a)
    \/ CallbackEnter(a) \/ CallbackCommit(a) \/ CallbackContinue(a) \/ CallbackError(a)
    \/ CancelPulling(a) \/ CancelDrain(a)

Next ==
    \/ \E a \in Actors : Step(a)
    \/ \E l \in {"UR", "UW", "UC"} : Call(l)
    \/ UserRead \/ UserWrite \/ UserClose
    \/ SocketReadDone

Spec == Init /\ [][Next]_vars

-----------------------------------------------------------------------------
(* Properties.                                                              *)

(* No two threads are inside sections that touch location l at once with  *)
(* one of them writing it.                                                 *)
NoRace(l) ==
    \A a, b \in Actors : a # b =>
        \A x \in acc[a], y \in acc[b] : (x.loc = l /\ y.loc = l) => ~(x.w \/ y.w)

(* data_queue_ and pulling_, each declared beside its own mutex: the      *)
(* queue's size is read at impl.h:163 under pulling_mutex_ only and it is  *)
(* consumed at impl.h:221 under no mutex; pulling_ is cleared at           *)
(* impl.h:243 under data_queue_mutex_ only.                                *)
NoRaceOnQueues == NoRace("data") /\ NoRace("pulling")

(* The TLS stream (spec 5, impl.h:253): write_some (impl.h:401) calls it  *)
(* outside the strand the pull loop starts and finishes its reads in.     *)
NoRaceOnEngine == NoRace("engine")

(* Actor a waits for a mutex b holds.                                      *)
WaitsFor(a, b) ==
    /\ a # b /\ pc[a] \in DOMAIN Section /\ acc[a] = {}
    /\ \E m \in Section[pc[a]].locks : owner[m] = b

(* The three recursive mutexes are never taken in orders that close a     *)
(* cycle: the nested handle_data_n_ops takes pulling_mutex_ while holding  *)
(* both queue mutexes, and cancel() must not hold pulling_mutex_ while it  *)
(* takes them. With three actors a cycle has two or three of them.         *)
NoLockCycle ==
    ~\E a, b \in Actors :
        /\ WaitsFor(a, b)
        /\ \/ WaitsFor(b, a)
           \/ \E c \in Actors : WaitsFor(b, c) /\ WaitsFor(c, a)
====
