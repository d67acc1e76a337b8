# TLA+ models of SSF (Secure Socket Funneling)

This directory holds TLA+ models of the SSF core, checked with TLC. The models
are written from the C++ sources in `src/src/`. Where the code that drives a
component is not in `src/`, the model follows `spec.md`; those definitions are
marked `spec_modelled` in `PROJECT.json`.

## 1. Inventory

### Components in the source

| Component | Source | State it keeps | Operations |
|---|---|---|---|
| Buffered TLS adapter: `detail::TLSStreamBufferer` and `basic_buffered_tls_socket` | `network/ssf/layer/cryptography/tls/OpenSSL/impl.h:39-462` | `pulling_`, `status_`, `data_queue_` (streambuf), `op_queue_` (pending user reads), the strand, the ssl stream | `start_pulling`, `async_read_some`, `cancel`, `handle_data_n_ops`, `async_pull_packets` and its read handler; on the socket: `handshake`/`async_handshake` (start pulling on success), `read_some` (blocking, via a future), `async_write_some`/`write_some` (forwarded through the strand), `close` (close the lowest layer, then `cancel`) |
| Unbuffered TLS socket `basic_tls_socket` (`tls` alias) | `impl.h:465-597` | the ssl stream and a strand | every call forwarded to the ssl stream through the strand |
| TLS layer `basic_tls` | `impl.h:599-645` | none | `make_endpoint_context` (builds the OpenSSL context) |
| Admin service `Admin` | `services/admin/admin.h` | `command_handlers_` (serial → reply handler), `is_server_`, `command_serial_received_`, keep-alive timer, initialisation coroutine state (`i_`, `j_`, `init_retries_`, request vectors), `stopped_` | `Command`, `GetAvailableSerial`, `InsertHandler`, `EraseHandler`, `ExecuteAndRemoveCommandHandler`, `AsyncSendCommand`, `NotifyUserService`, `NotifyInitialization`; declared only (bodies in `admin.ipp`, not in `src/`): the receive loop, keep-alive, initialisation, stop |
| Proxy layer `basic_ProxyProtocol` | `network/ssf/layer/proxy/basic_proxy_protocol.h` | none | `make_endpoint` over the parameter stack |
| TCP layer `physical::tcp` | `network/ssf/layer/physical/tcp.h` | none | `make_endpoint` (forwarded) |
| Configuration `HttpProxy`, `SocksProxy`, `Circuit` | `common/config/proxy.h`, `circuit.h` | strings and flags | getters, `IsSet` |
| Fiber multiplexer | spec 4.C only | — | — |

### How they interact

The link stack is TCP, then optionally a proxy, then TLS. The buffered TLS
socket is the transport of the fiber multiplexer. The multiplexer's reader task
calls `async_read_some` on it, and its writer task calls `async_write_some`.
The admin service runs on fiber 0 of the multiplexer. It writes command frames
with `async_write` and reads them back in its receive loop.

Inside the TLS adapter, everything goes through one `io_service`:
- `post` queues a handler.
- `dispatch` from a running handler, and `strand.dispatch` when the strand is
  free, run inline.
- Socket read completions come back wrapped by the strand.

Spec §5 says the executor runs on one thread, yet the adapter takes three
mutexes as if several threads ran it, and the application calls `close()` and
`write_some` from its own thread. `TLSStreamBuffererThreads` checks those
threads. On one thread the adapter's behaviour is decided by two things:
- the order of the handlers in the io_service queue;
- when the network completes an outstanding read.

### What is hard

- **Interleaving of posted handlers with `close()`.** Handlers posted before the
  close run after it, against a cleared state.
- **The `pulling_` flag.** It must track whether a read is really outstanding:
  - if it is left set with no read, every reader stalls;
  - if it is left clear while a read runs, a second read can start.
- **Bounds.** The queue bounds (low 1 MiB, high 16 MiB, 50 KiB records) and the
  pause/resume at those bounds.
- **Byte accounting.** Bytes in the queue, in queued completions and delivered
  to the user must add up. Only an error or a close may drop bytes.
- **Serial allocation in the admin service.** Both peers allocate serials. A
  handler runs on the io_service after the serial has already been erased and
  may have been reused. When every serial is taken, `GetAvailableSerial`
  returns 0 without reserving it.
- **Concurrent writes on fiber 0.** Every command and reply starts its own
  `async_write`, and nothing waits for the previous one.
- **Several threads.** `pulling_` and `data_queue_` are touched under
  different mutexes in different handlers, and `write_some` bypasses the strand.
- **The keep-alive.** A timeout must close the link only when the peer is
  really gone, not while its reply is on its way. (The timer is abstracted by `Quiescent`, so the model does not check this race; see section 4.)
- **Initialization against late replies.** The client's retry timer races
  the create replies. A reply that comes after the coroutine gave up finds
  nobody left to stop its service.
- **Blocking `read_some`.** It waits on a future that only the io_service
  thread fulfils.
- **The parameter iterator in endpoint construction.** The proxy layer reads
  the set after its own, and each layer must hand the next one the right set.

### What makes each component correct

- **TLS adapter**
  - User reads get the stream's bytes in order. None is skipped or repeated.
  - Once a read fails, no later read returns data.
  - The queue never grows beyond the high bound plus one record.
  - At most one read is outstanding.
  - Every read eventually completes.
- **Admin**
  - A serial is never reused while its handler is registered.
  - A reply runs the handler of the command it answers, exactly once.
  - Every command's handler eventually runs.
  - The receiver reads each frame's parameters right after that frame's
    header, also when `write_some` takes a frame in pieces (it does not:
    `admin_frames_interleave`).
  - Initialization is reported exactly once. A user service is told of
    success only when its remote half runs. On failure, every remote service
    that was created is stopped (spec §4.D item 5).
- **Endpoint construction**
  - No layer reads past a parameter stack of `endpoint_stack_size` sets.
  - The endpoint is built from every set once, in order (spec §4.A).

## 2. Modules

| Module | Models | Notes |
|---|---|---|
| `TLSStreamBufferer.tla` | `TLSStreamBufferer` plus `basic_buffered_tls_socket::{async_handshake, async_read_some, read_some, async_write_some, close}` on one io_service thread | One record `buf` holds `pulling_`, `status_`, `data_queue_` (a sequence of byte numbers), `op_queue_`, the io_service queue `ready`, the socket state and the reads in flight. Each member function is an operator on `buf`. Inline dispatch chains are composed, e.g. the read handler runs `commit; async_pull_packets; handle_data_n_ops` in one step. `RunHandler` runs the oldest posted handler. `SocketReadDone` is the network completing the oldest read, with data (1..Rec bytes), an error, `operation_aborted` (socket closed under the read), or an error for a read issued on a closed socket. `AsyncWriteSome` issues a TLS write through the strand; `SocketWriteDone` queues its handler. `ReadSome` is `read_some` called on the io_service thread: it queues the read and sets `blocked`, and `RunHandler` cannot run while the thread is blocked. The constant `ExecutorReads` turns it on. `AsyncReadSome` needs an open socket unless the constant `ReadsAfterClose` is TRUE: the code does not check, so that constant says whether the caller may read after `close()`. Every passing run sets it FALSE. |
| `AbstractStream.tla` | The read contract of a stream socket (spec 4.B, asio `async_read_some`) | Reads complete once. A successful read returns the next bytes. No data comes after a failure. Reads that wait for data form a FIFO `queue` and are served in order (spec 4.B); a read that can be answered at once (empty buffer) is not queued. |
| `TLSStreamBuffererThreads.tla` | The same handlers of `TLSStreamBufferer` run by several io_service threads, plus an application thread calling `async_read_some`, `write_some` and `close` | Data is abstracted to counts (`size` bytes in `data_queue_`, `ops` queued reads). Posted handlers are a bag, since threads take them in any order. Each handler is cut at its lock scopes (`Section`): `Enter` takes the scope's mutexes or waits, records the locations it touches in `acc`, and the scope's own action applies the effect and releases. `owner` holds the owner of the three mutexes and the strand. A race is two actors inside scopes touching one location, one writing. |
| `Admin.tla` | The command table of `Admin` on both peers, and the keep-alive | `handlers` is `command_handlers_` per side. `Command` takes the serial (`GetAvailableSerial`, with the no-op reservation), inserts the handler and starts `AsyncSendCommand`. A frame is two pieces, header then parameters. `writing` holds each side's outstanding `async_write`s, and `WriteSome` is one `write_some` of one of them; it takes the whole rest, or a single piece when `PartialWrites` is TRUE. The receive loop is spec-modelled: a request is answered with a reply carrying its serial, and a reply runs `ExecuteAndRemoveCommandHandler`. Posted handlers run in `RunHandler`. The keep-alive (spec 4.D, `admin.ipp`) is spec-modelled: `KeepAliveSend` sends one through `Command`, its handler clears `keepAlive`, and `KeepAliveTimeout` closes the side when the last one is still unanswered. `GoSilent` and `Drop` are the fault: fiber 0 stops delivering. |
| `AdminInit.tla` | The client's initialization coroutine (spec 4.D item 5, `admin.ipp`) with `NotifyUserService` and `NotifyInitialization` (admin.h), composed over `Admin` on both peers | `A == INSTANCE Admin` shares the command table's variables; the wrappers `ProcessInstructionId` and `RunHandler` add what a request does on the server (`ExecuteRequest`: create a service, possibly failing, or stop one) and what a create reply's handler does on the client (`OnCreateReply`). The coroutine, over the members admin.h declares for it: `StartRemoteService` per service, then the timer (`AllStarted`, `Retry` up to `RetryCount`, `GiveUp`), then on failure `StopRemoteService` for every entry of `stop_request_vector_` and `ReportFailure`. A create reply's handler appends to `stop_request_vector_`, since the stop request needs the runtime id the reply carries. The server also sends its own commands and keep-alives. |
| `LinkStack.tla` | `tcp::make_endpoint`, `basic_ProxyProtocol::make_endpoint`, `basic_tls::make_endpoint_context`, `endpoint_stack_size` | Recursive operators over a stack of layer names (outermost first) and a parameter stack. A parameter set is abstracted to what the helpers outside `src/` answer about it. The result records the error flag, every index dereferenced, and the sets used. A read past the end yields `Garbage`. |
| `MCTLSStreamBufferer.tla`, `MCTLSStreamBuffererThreads.tla`, `MCAdmin.tla`, `MCAdminInit.tla`, `MCLinkStack.tla` | Bounds for TLC | |

Each module also defines faulty variants of some operators (named
`...NoFlag`, `...AtBound`, `...NewestFirst`, `...KeepsLock`, `...KeepsOld`, ...).
Each is a plausible bug in the code it shadows. The check substitutes each one
in turn to show that the corresponding property detects that bug (`mutants` in
`PROJECT.json`).

## 3. Runs

| Run | Config | Expect | What it shows |
|---|---|---|---|
| `tls_safety` | `MCTLSStreamBufferer.cfg` | pass | See below. |
| `tls_liveness` | `MCTLSStreamBuffererLive.cfg` | pass | `ReadsComplete`: no user read stays pending forever, through a pause at the high bound, read errors and close. |
| `tls_pull_after_close` | `MCTLSStreamBuffererPulls.cfg` | violation | `AtMostOnePull` fails. Handshake posts `async_pull_packets`, the user reads, then `close()`. The posted pull issues a read on the closed socket; the queued `handle_data_n_ops` finds `pulling_` false and `status_` clear and posts a second `async_pull_packets`. `PullsOutstanding` counts the posted one as outstanding, so the property fails before it issues its read. Spec 4.B says exactly one pull is outstanding and cancel stops pulling. |
| `tls_read_some_on_executor` | `MCTLSStreamBuffererReadSome.cfg` | violation | `ReadsComplete` fails once `read_some` is called on the io_service thread: it blocks in `read.get()`, and the handler that would fulfil the future is queued behind it. |
| `tls_threads_lock_order` | `MCTLSStreamBuffererThreads.cfg` | pass | `NoLockCycle`: with two io threads and the application, no actors wait on each other's mutexes or strand in a cycle. `cancel` and `handle_data_n_ops` both take the pulling mutex, release it, then take data and op in that order; the strand is never waited for while a mutex is held. |
| `tls_race_queues` | `MCTLSStreamBuffererRaceQueues.cfg` | violation | `NoRaceOnQueues` fails: `handle_data_n_ops` reads `data_queue_.size()` holding only the pulling mutex (impl.h:163) while `cancel`, called by `close()` on the application thread, consumes `data_queue_` under the data mutex. |
| `tls_race_engine` | `MCTLSStreamBuffererRaceEngine.cfg` | violation | `NoRaceOnEngine` fails: `write_some` (impl.h:401) uses the SSL stream from the application thread while a strand handler issues a read on it. |
| `admin_initialization` | `MCAdminInit.cfg` | pass | On the composition of the coroutine with the command table of both peers. `HandlerMatchesReply`: each handler that runs belongs to the command its reply answers. `RepliesHandled`: every command's handler eventually runs, unless the fiber went silent. `NotifiedOnlyIfRunning`: a user service is told of success only when the server runs its remote half. `InitializationReported`: `on_initialization_` is posted exactly once, also over a silent fiber. `TypeOK`. |
| `admin_frames_interleave` | `MCAdminInterleave.cfg` | violation | `ParametersMatchHeader` fails once `write_some` may take one piece: two `async_write`s each write their header, and the peer reads the second header as the first frame's parameters. |
| `tls_read_after_close` | `MCTLSStreamBuffererReadAfterClose.cfg` | violation | `ImplementsStream` fails once the user may call `async_read_some` after `close()` (`ReadsAfterClose`); nothing in impl.h:389-396 forbids it. The socket delivers byte 1, which is committed, and byte 2, whose handler is queued. `close()` runs `cancel`, which consumes byte 1. A read issued now is queued; the queued handler commits byte 2 without looking at `status_` (impl.h:205-208), and `handle_data_n_ops` serves the new read with byte 2. The reader gets byte 2 without byte 1. |
| `admin_orphan_service` | `MCAdminInitOrphan.cfg` | violation | `NoOrphanService` fails. The coroutine sends both create requests, its one retry expires, and it gives up with an empty `stop_request_vector_`, reports the error and is done. Only then does the server execute the first request and start the service. The client never stops it: a stop request needs the runtime id from the create reply, and that reply is handled after the stop loop is over. Spec 4.D says stop-requests go out "for whatever was created". |
| `link_endpoints` | `MCLinkStack.cfg` | pass | `ReadsWithinStack` and `SetsUsedOnce` over the four stacks of spec 4.A, with every abstract parameter set and stacks of the right length or one short. |

`tls_safety` checks:
- `ImplementsStream`: the adapter refines `AbstractStream` through
  `INSTANCE AbstractStream WITH ... queue <- QueuedReads`. `QueuedReads` lists
  the pending reads in issue order, leaving out those already answered from an
  empty buffer. So the adapter must serve waiting reads oldest first, as
  `handle_data_n_ops` does by popping `op_queue_` from the front.
- `NoByteLost`: while open and without error, every byte produced is in a
  queued read completion, in `data_queue_`, in a queued user completion, or
  delivered.
- `BufferBound`: the queue stays below the high bound plus one record.
- `OnePullWhileOpen`: at most one read is outstanding while the socket is open.
- `PullingFlagTracksLoop`: `pulling_` is set exactly when a read is outstanding,
  while open and without error.
- `TypeOK`.

### Bounds

**Adapter, one thread.**
- `Rec=2 < Low=3 < High=4`, the code's order (50 KiB < 1 MiB < 16 MiB).
- Stream length 7 bytes: enough to pass the high bound and pause, drain below
  the low bound, and resume. Four reads of size 0, 1 or 2; one write.
- Liveness: 5 bytes, 2 reads of size 1 or 2 (`LiveRWMaxOps`) and one write.
  The pause at the high bound still happens, and the user may stop reading
  and leave the pull paused under the write.

**Adapter, threads.** Two io threads and the application (one io thread for
the race runs, which need only the application thread beside it).
`Low=1 < High=2`, socket reads of 1 or 2 bytes, 2 bytes in all, 2 reads, one
`write_some`. The pause at the high bound, a cancel while a pull is queued and
a cancel with queued reads all happen. The io threads are symmetric.

**Admin.** Each side sends 2 commands, the least that makes a side's second
serial differ from its first. `MaxSerial=8` stands for `uint32_t` max. Frames
are two pieces, the least that can interleave. These bounds are used by the
violation run on `Admin` alone, `admin_frames_interleave`.

**Initialization** (`MCAdminInit`). Two remote services: one can be created
while the other fails or is late, so the stop loop has work to do. One retry
(`kServiceStatusRetryCount` is 50): the timer can expire before, between and
after the replies. The client's budget is 4 commands (two creates, at most two
stops). The server has 1 command of its own or keep-alive. The client arms its
keep-alive only once the coroutine is done, so the bound never blocks the
coroutine. 222,694 states.

**Endpoints.** All four stack shapes with all 8 abstractions of each parameter
set: 1458 inputs.

### Fairness

- **Adapter:** weak fairness on `RunHandler` (the io_service runs every posted
  handler), `SocketReadDone` (a read on a live connection delivers or fails,
  and close aborts it) and `SocketWriteDone`. The user's calls, close and the
  handshake are not fair: the user may stop.
- **Admin:** weak fairness on `write_some` steps, receiving and processing
  frames, running posted handlers, and `Drop` (a silent fiber discards what
  is written to it). Sending commands is not fair.
- **Initialization coroutine:** weak fairness on its steps. They run on the
  io_service when its timer expires, and the timer always expires.
- **Keep-alive timer.** The timer fires only when nothing is in flight
  (`Quiescent`). The period is 120 s against a round trip of milliseconds, so
  a timer that fires while a reply is on its way is not a behaviour of a live
  connection; with a silent fiber it still fires.
- The threaded model checks safety only, and assumes no fairness.

All configs set `CHECK_DEADLOCK FALSE`: after `close()` every posted handler
runs and nothing more happens; bounded users and peers go quiet; `LinkStack`
stops once the endpoint is built.

## 4. Not modelled, and why

- **The handshake failure and `shutdown`.** A failed handshake starts nothing;
  `shutdown` goes to the ssl stream and changes no adapter state.
- **The unbuffered `basic_tls_socket`.** Every call is forwarded through the
  strand, and it keeps no state of its own.
- **Version exchange and `BaseService` start/stop of the admin service.**
  Their bodies are in `admin.ipp`, not in `src/`. The initialization coroutine
  is modelled from spec 4.D, over the members admin.h declares for it.
- **Properties dropped after review.**
  - `WritesComplete` (every write completes). `AsyncWriteSome` is a counter
    that reads never touch, so it held by the model's shape.
  - `NoFalseTimeout` (the keep-alive closes only a silent side). The
    `Quiescent` guard of the timer rules out the race it was about, and
    `RepliesHandled` already covers a reply that must arrive.
  - `ParametersMatchHeader` in `admin_initialization`. With whole writes it
    cannot fail. It is kept in `admin_frames_interleave`, where it does.
  - The `admin_serials` run (`SerialsDisjoint`). The client's serials are
    3, 4, 5... and the server's 4, 5, 6..., against the even/odd split of
    spec §3. Each side looks replies up in its own table, and a reply is
    told from a request by its kind, so the overlap has no consequence.
    `HandlerMatchesReply` checks that.
- **The keep-alive's count of lost replies.** Spec 4.D item 4 closes the demux
  when no reply comes within one period. The spec's failure list says two lost
  in a row. The timer's code is in `admin.ipp`, so `KeepAliveTimeout` follows
  item 4.
- **Serial exhaustion as a run.** When every serial below `uint32_t` max is
  registered, `GetAvailableSerial` returns 0 without reserving it. With the
  maximum scaled to 4 and 3 commands, TLC finds `HandlerMatchesReply`
  violated: two commands share serial 0, and a reply runs the wrong handler.
  This needs 2³² outstanding commands, so it is not kept among the runs.
- **The helpers behind endpoint construction** (`make_tcp_endpoint`,
  `MakeProxyContext`, `UpdateRemoteHost`, `make_tls_context`). They are outside
  `src/`; their answers are inputs to `LinkStack`.
- **Configuration** (`HttpProxy`, `SocksProxy`, `Circuit`): getters and `IsSet`
  predicates, no state change.
- **The fiber multiplexer.** Described only by spec 4.C.

## 5. Plan

Done: the TLS adapter core with its refinement and liveness; the admin command
table on both peers, its keep-alive and the silent-fiber fault; the client's
initialization composed over the command table; endpoint construction; the
threaded adapter with lock order and races.

Next, by importance:
1. **Fiber multiplexer** (spec 4.C) composed over `AbstractStream`:
   connect/accept, FIN/RST close, credit flow control; at most one fiber per
   port pair, in-order exactly-once delivery, window bound. `Admin` would then
   run over fiber 0 of it.
2. **Threaded liveness**: every read completes with several io threads.
