----------------------------- MODULE AdminInit -----------------------------
(***************************************************************************)
(* The client's initialization of the admin service composed with the      *)
(* command table of Admin.tla, on both peers.                              *)
(*                                                                         *)
(* The coroutine (Initialize, InitializeRemoteServices, StartRemoteService,*)
(* StopRemoteService) is declared in src/src/services/admin/admin.h and    *)
(* its body is in admin.ipp, outside src/: it is modelled from spec 4.D    *)
(* item 5 over the state admin.h declares for it (i_, j_,                  *)
(* remote_all_started_, init_retries_, stop_request_vector_, init_ec_).    *)
(* It sends one CreateServiceRequest per remote service through Command,   *)
(* then waits on a timer, retrying up to kServiceStatusRetryCount times,   *)
(* for every reply. When all are started it notifies the user services and *)
(* reports success (NotifyUserService, NotifyInitialization, in admin.h);  *)
(* on a failed reply or when the retries run out it sends a                *)
(* StopServiceRequest for every service whose creation was reported, then  *)
(* reports the error. A create reply carries the runtime id a stop request *)
(* needs, so a service is added to stop_request_vector_ by its reply's     *)
(* handler. The server executes the requests (the command classes): a     *)
(* creation may fail.                                                      *)
(*                                                                         *)
(* The server keeps sending its own commands and keep-alives; the client's *)
(* keep-alive timer is armed once the coroutine is done, so that the       *)
(* command bound never holds the coroutine back.                           *)
(***************************************************************************)
EXTENDS Naturals, Sequences, FiniteSets, TLC

CONSTANTS
    MaxCommands,     \* bound: commands each side sends in a run
    MaxSerial,       \* std::numeric_limits<uint32_t>::max(), scaled down
    PartialWrites,   \* whether the fiber's write_some may take one piece only
    RemoteServices,  \* size of create_request_vector_
    RetryCount,      \* kServiceStatusRetryCount, scaled down
    ServerCommands   \* bound: commands and keep-alives the server sends

VARIABLES
    handlers, writing, fiber, received, params, posted, fired, issued,
    keepAlive, closed, silent,           \* the command table (Admin.tla)
    request,     \* the service request a command carries (its id and parameters)
    okReplies,   \* commands the server answered with success
    running,     \* services the server has started
    coPc,        \* where the coroutine is: "create", "wait", "stop", "done"
    i_, j_, remote_all_started_, init_retries_, init_ec_, stop_request_vector_,
    notified,    \* user services on_user_service_ has been posted for
    reports      \* the results on_initialization_ has been posted with, in order

A == INSTANCE Admin

adminVars == <<handlers, writing, fiber, received, params, posted, fired, issued,
               keepAlive, closed, silent>>
coVars == <<coPc, i_, j_, remote_all_started_, init_retries_, init_ec_,
            stop_request_vector_>>
initVars == <<request, okReplies, running, coVars, notified, reports>>
vars == <<adminVars, initVars>>

Services == 1..RemoteServices

TypeOK ==
    /\ A!TypeOK
    /\ coPc \in {"create", "wait", "stop", "done"}
    /\ i_ \in 0..RemoteServices /\ remote_all_started_ \in 0..RemoteServices
    /\ init_retries_ \in 0..RetryCount /\ init_ec_ \in BOOLEAN
    /\ stop_request_vector_ \in Seq(Services) /\ j_ \in 0..Len(stop_request_vector_)
    /\ running \subseteq Services /\ notified \subseteq Services
    /\ reports \in Seq({"success", "error"})

-----------------------------------------------------------------------------
(* NotifyUserService: on the client, post on_user_service_ for a service;  *)
(* the server returns at once.                                             *)
NotifyUserService(side, svcs) ==
    notified' = IF A!IsServer(side) = 1 THEN notified ELSE notified \cup svcs

(* NotifyInitialization: on the client, post on_initialization_(ec).       *)
NotifyInitialization(side, ec) ==
    reports' = IF A!IsServer(side) = 1 THEN reports ELSE Append(reports, ec)

(* The coroutine sends a service request through Command.                 *)
SendRequest(op, svc) ==
    /\ A!Command("client")
    /\ request' = (<<"client", issued["client"] + 1>> :> [op |-> op, svc |-> svc])
                      @@ request
    /\ UNCHANGED <<keepAlive, closed, silent>>

(* Step (a): the CreateServiceRequest of create_request_vector_[i_].       *)
StartRemoteService ==
    /\ coPc = "create" /\ i_ < RemoteServices
    /\ SendRequest("create", i_ + 1)
    /\ i_' = i_ + 1
    /\ coPc' = IF i_ + 1 = RemoteServices THEN "wait" ELSE "create"
    /\ UNCHANGED <<okReplies, running, j_, remote_all_started_, init_retries_,
                   init_ec_, stop_request_vector_, notified, reports>>

(* Step (b), the coroutine's timer expires: with every remote service      *)
(* started, step (c) and (d): notify each user service and report success. *)
AllStarted ==
    /\ coPc = "wait" /\ remote_all_started_ = RemoteServices
    /\ NotifyUserService("client", Services)
    /\ NotifyInitialization("client", "success")
    /\ coPc' = "done"
    /\ UNCHANGED <<adminVars, request, okReplies, running, i_, j_,
                   remote_all_started_, init_retries_, init_ec_, stop_request_vector_>>

(* Faulty variant: the timer is re-armed without counting the retry.       *)
RetryUncounted ==
    /\ coPc = "wait" /\ remote_all_started_ < RemoteServices
    /\ ~init_ec_ /\ init_retries_ < RetryCount
    /\ UNCHANGED <<adminVars, initVars>>

(* Not all started, no failure reported, retries left: wait once more.     *)
Retry ==
    /\ coPc = "wait" /\ remote_all_started_ < RemoteServices
    /\ ~init_ec_ /\ init_retries_ < RetryCount
    /\ init_retries_' = init_retries_ + 1
    /\ UNCHANGED <<adminVars, request, okReplies, running, coPc, i_, j_,
                   remote_all_started_, init_ec_, stop_request_vector_, notified, reports>>

(* A failed creation, or the retries are spent: stop what was created.     *)
GiveUp ==
    /\ coPc = "wait" /\ remote_all_started_ < RemoteServices
    /\ init_ec_ \/ init_retries_ = RetryCount
    /\ coPc' = "stop"
    /\ init_ec_' = TRUE
    /\ UNCHANGED <<adminVars, request, okReplies, running, i_, j_,
                   remote_all_started_, init_retries_, stop_request_vector_, notified, reports>>

(* The StopServiceRequest of stop_request_vector_[j_].                     *)
StopRemoteService ==
    /\ coPc = "stop" /\ j_ < Len(stop_request_vector_)
    /\ SendRequest("stop", stop_request_vector_[j_ + 1])
    /\ j_' = j_ + 1
    /\ UNCHANGED <<okReplies, running, coPc, i_, remote_all_started_,
                   init_retries_, init_ec_, stop_request_vector_, notified, reports>>

(* Every stop request sent: report the error to the caller.               *)
ReportFailure ==
    /\ coPc = "stop" /\ j_ = Len(stop_request_vector_)
    /\ NotifyInitialization("client", "error")
    /\ coPc' = "done"
    /\ UNCHANGED <<adminVars, request, okReplies, running, i_, j_,
                   remote_all_started_, init_retries_, init_ec_, stop_request_vector_, notified>>
-----------------------------------------------------------------------------
(* The server executes a client's request (the command classes, outside    *)
(* src/): a creation starts the service or fails, a stop tears it down.    *)
ExecuteRequest(cmd) ==
    IF cmd \notin DOMAIN request THEN UNCHANGED <<running, okReplies>>
    ELSE LET r == request[cmd]
         IN IF r.op = "create"
            THEN \E ok \in BOOLEAN :
                    /\ running' = IF ok THEN running \cup {r.svc} ELSE running
                    /\ okReplies' = IF ok THEN okReplies \cup {cmd} ELSE okReplies
            ELSE /\ running' = running \ {r.svc}
                 /\ okReplies' = okReplies \cup {cmd}

(* ProcessInstructionId, with the server executing the requests it gets.   *)
ProcessInstructionId(side) ==
    /\ A!ProcessInstructionId(side)
    /\ LET frame == received[side].frame
       IN IF side = "server" /\ frame.kind = "request"
          THEN ExecuteRequest(frame.cmd)
          ELSE UNCHANGED <<running, okReplies>>
    /\ UNCHANGED <<request, coVars, notified, reports>>

(* Faulty variant: the handler does not look at the reply's status.        *)
OnCreateReplyIgnoresStatus(h) ==
    /\ remote_all_started_' = remote_all_started_ + 1
    /\ stop_request_vector_' = Append(stop_request_vector_, request[h.cmd].svc)
    /\ UNCHANGED init_ec_

(* The handler a CreateServiceRequest registered: a success reply counts   *)
(* the service as started and queues the stop request for its runtime id;  *)
(* a failure reply sets init_ec_.                                          *)
OnCreateReply(h) ==
    IF h.reply \in okReplies
    THEN /\ remote_all_started_' = remote_all_started_ + 1
         /\ stop_request_vector_' = Append(stop_request_vector_, request[h.cmd].svc)
         /\ UNCHANGED init_ec_
    ELSE /\ init_ec_' = TRUE
         /\ UNCHANGED <<remote_all_started_, stop_request_vector_>>

(* A posted reply handler runs; on the client a create request's handler   *)
(* feeds the coroutine.                                                    *)
RunHandler(side) ==
    /\ A!RunHandler(side)
    /\ LET h == Head(posted[side])
       IN IF side = "client" /\ h.cmd \in DOMAIN request
             /\ request[h.cmd].op = "create"
          THEN OnCreateReply(h)
          ELSE UNCHANGED <<remote_all_started_, stop_request_vector_, init_ec_>>
    /\ UNCHANGED <<request, okReplies, running, coPc, i_, j_, init_retries_,
                   notified, reports>>

(* The server's own commands, within its bound.                            *)
ServerCommand ==
    /\ ~closed["server"] /\ issued["server"] < ServerCommands
    /\ A!Command("server")
    /\ UNCHANGED <<keepAlive, closed, silent, initVars>>

(* The keep-alive timer: on the server within its bound, on the client     *)
(* once the coroutine is done.                                             *)
KeepAliveSend(side) ==
    /\ IF side = "client" THEN coPc = "done" ELSE issued["server"] < ServerCommands
    /\ A!KeepAliveSend(side)
    /\ UNCHANGED initVars

-----------------------------------------------------------------------------
Init ==
    /\ A!Init
    /\ request = <<>> /\ okReplies = {} /\ running = {}
    /\ coPc = "create" /\ i_ = 0 /\ j_ = 0
    /\ remote_all_started_ = 0 /\ init_retries_ = 0 /\ init_ec_ = FALSE
    /\ stop_request_vector_ = <<>>
    /\ notified = {} /\ reports = <<>>

Coroutine ==
    \/ StartRemoteService \/ AllStarted \/ Retry \/ GiveUp
    \/ StopRemoteService \/ ReportFailure

Transport(side) ==
    \/ \E i \in 1..(2 * MaxCommands) : A!WriteSome(side, i)
    \/ A!ReceiveInstructionHeader(side)
    \/ A!ReceiveInstructionParameters(side)
    \/ A!Drop(side)

Next ==
    \/ Coroutine
    \/ ServerCommand
    \/ A!GoSilent /\ UNCHANGED initVars
    \/ \E side \in A!Sides :
        \/ Transport(side) /\ UNCHANGED initVars
        \/ ProcessInstructionId(side)
        \/ RunHandler(side)
        \/ KeepAliveSend(side)
        \/ A!KeepAliveTimeout(side) /\ UNCHANGED initVars

(* The coroutine's timer expires and its steps run on the io_service; the  *)
(* fiber, the receive loops and the io_services are fair as in Admin.tla.  *)
Fairness ==
    /\ WF_vars(Coroutine)
    /\ \A side \in A!Sides :
        /\ WF_vars(Transport(side) /\ UNCHANGED initVars)
        /\ WF_vars(ProcessInstructionId(side))
        /\ WF_vars(RunHandler(side))

Spec == Init /\ [][Next]_vars /\ Fairness

-----------------------------------------------------------------------------
(* Properties. The command table's own (Admin.tla) are checked on this     *)
(* composition too.                                                        *)

HandlerMatchesReply == A!HandlerMatchesReply
RepliesHandled == A!RepliesHandled

(* Spec 4.D item 5 (c): a user service is told its remote half started     *)
(* only when the server really runs it: the create handler must read the  *)
(* status of its own reply, and nothing the coroutine did since may have   *)
(* stopped the service.                                                    *)
NotifiedOnlyIfRunning == notified \subseteq running

(* Spec 4.D item 5 (d): on_initialization_ is posted exactly once, also    *)
(* when fiber 0 goes silent and no reply ever comes: the retry count       *)
(* bounds the coroutine's wait.                                            *)
InitializationReported == <>[](Len(reports) = 1)

(* Spec 4.D item 5: on an unrecoverable failure the client sends stop      *)
(* requests for whatever was created, so once the error is reported the    *)
(* server eventually runs none of the client's services (unless fiber 0    *)
(* went silent and the stop requests are lost).                            *)
NoOrphanService == <>[](silent \/ reports # <<"error">> \/ running = {})

=============================================================================
