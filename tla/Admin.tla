------------------------------- MODULE Admin -------------------------------
(***************************************************************************)
(* The command table of the admin service, src/src/services/admin/admin.h: *)
(* both peers (the client and the server Admin) send commands over fiber 0 *)
(* with a serial from GetAvailableSerial, keep a reply handler per serial  *)
(* in command_handlers_, and run it when the reply with that serial comes  *)
(* back (ExecuteAndRemoveCommandHandler).                                  *)
(*                                                                         *)
(* The receive loop (ReceiveInstructionHeader, ProcessInstructionId) is in *)
(* admin.ipp, which is not part of src/: it is modelled from spec 4.D      *)
(* ("a reply reuses the original serial", "handlers are executed exactly  *)
(* once when a reply arrives, then erased"). Fiber 0 is a reliable,        *)
(* ordered stream per direction. A frame goes out as two pieces, its       *)
(* header (serial, id, size) and its parameters, written by an async_write *)
(* (AsyncSendCommand) that calls the fiber's write_some until both are     *)
(* out. A command is named by a ghost id <<side, n>> that the model        *)
(* carries along to compare handler and reply.                             *)
(*                                                                         *)
(* The keep-alive (spec 4.D item 4, reserved_keep_alive_timer_ with        *)
(* kKeepAliveInterval) is in admin.ipp too and is modelled from the spec:  *)
(* when the timer expires a side sends a keep-alive through Command, or    *)
(* closes its demux with timed_out when the last one is still unanswered.  *)
(* The 120 s period dwarfs a round trip, so the timer expires only once    *)
(* nothing is left to write, deliver or run. Fiber 0 may go silent for     *)
(* good (a blackholed network): from then on it drops every piece.         *)
(***************************************************************************)
EXTENDS Naturals, Sequences, SequencesExt, TLC

CONSTANTS
    MaxCommands,  \* bound: commands each side sends in a run
    MaxSerial,    \* std::numeric_limits<uint32_t>::max(), scaled down
    PartialWrites \* whether the fiber's write_some may take one piece only

Sides == {"client", "server"}
Peer(side) == IF side = "client" THEN "server" ELSE "client"
IsServer(side) == IF side = "server" THEN 1 ELSE 0     \* !!is_server_

ASSUME MaxCommands \in Nat /\ MaxSerial \in Nat /\ MaxSerial > 3
       /\ PartialWrites \in BOOLEAN

VARIABLES
    handlers,   \* command_handlers_ of each side: serial -> command it answers
    writing,    \* each side's async_writes on fiber 0: the pieces still to write
    fiber,      \* pieces in flight on fiber 0 towards each side
    received,   \* the header piece read last: command_serial_received_ and co.
    params,     \* the piece read as parameters_buff_received_
    posted,     \* reply handlers posted to each side's io_service
    fired,      \* handlers that have run: [cmd |-> its command, reply |-> reply's command]
    issued,     \* commands each side has sent
    keepAlive,  \* each side's unanswered keep-alive command, or NoCmd
    closed,     \* whether each side has closed its demux with timed_out
    silent      \* whether fiber 0 has stopped delivering

vars == <<handlers, writing, fiber, received, params, posted, fired, issued,
          keepAlive, closed, silent>>
kaVars == <<keepAlive, closed, silent>>

Serials == 0..MaxSerial
CmdIds == Sides \X (1..MaxCommands)
Frames == [kind : {"request", "reply"}, serial : Serials, cmd : CmdIds]
(* The no-op handler GetAvailableSerial reserves a serial with.            *)
NoOp == <<"noop", 0>>
NoFrame == [kind |-> "none", serial |-> 0, cmd |-> <<"client", 0>>]
Pieces == [part : {"header", "parameters"}, frame : Frames]
NoPiece == [part |-> "none", frame |-> NoFrame]
NoCmd == <<"none", 0>>

TypeOK ==
    /\ \A side \in Sides :
          /\ DOMAIN handlers[side] \subseteq Serials
          /\ \A s \in DOMAIN handlers[side] : handlers[side][s] \in CmdIds \cup {NoOp}
    /\ writing \in [Sides -> Seq(Seq(Pieces))]
    /\ fiber \in [Sides -> Seq(Pieces)]
    /\ received \in [Sides -> Pieces \cup {NoPiece}]
    /\ params \in [Sides -> Pieces \cup {NoPiece}]
    /\ posted \in [Sides -> Seq([cmd : CmdIds \cup {NoOp}, reply : CmdIds])]
    /\ fired \in [Sides -> SUBSET [cmd : CmdIds \cup {NoOp}, reply : CmdIds]]
    /\ issued \in [Sides -> 0..MaxCommands]
    /\ keepAlive \in [Sides -> CmdIds \cup {NoCmd}]
    /\ closed \in [Sides -> BOOLEAN]
    /\ silent \in BOOLEAN

-----------------------------------------------------------------------------
(* Faulty variant: a serial taken without looking at the table.           *)
GetAvailableSerialUnchecked(side) == 3 + IsServer(side)

(* GetAvailableSerial: the first serial from 3 up, shifted by one on the    *)
(* server, that has no handler; it is reserved (with a no-op handler that   *)
(* Command overwrites at once). 0 when the space is exhausted.             *)
GetAvailableSerial(side) ==
    LET free == {s \in 3..(MaxSerial - 1) :
                    s + IsServer(side) \notin DOMAIN handlers[side]}
    IN IF free = {} THEN 0 ELSE Min(free) + IsServer(side)

(* The reservation done inside GetAvailableSerial.                         *)
Reserve(map, serial) == (serial :> NoOp) @@ map

(* Faulty variant: insert() instead of operator[], which keeps the          *)
(* reservation's no-op handler.                                            *)
InsertHandlerKeepsOld(map, serial, cmd) == map @@ (serial :> cmd)

(* InsertHandler: command_handlers_[serial] = handler.                      *)
InsertHandler(map, serial, cmd) == (serial :> cmd) @@ map

(* EraseHandler: command_handlers_.erase(serial).                           *)
EraseHandler(map, serial) == [s \in DOMAIN map \ {serial} |-> map[s]]

(* Faulty variant: erase before the lookup; operator[] then inserts and    *)
(* posts an empty std::function.                                           *)
EmptyHandler == <<"empty", 0>>
ExecuteAndRemoveCommandHandlerEraseFirst(side, frame) ==
    IF frame.serial \in DOMAIN handlers[side]
    THEN /\ posted' = [posted EXCEPT ![side] =
                          Append(@, [cmd |-> EmptyHandler, reply |-> frame.cmd])]
         /\ handlers' = [handlers EXCEPT ![side] =
                            (frame.serial :> EmptyHandler) @@ EraseHandler(@, frame.serial)]
    ELSE UNCHANGED <<posted, handlers>>

(* ExecuteAndRemoveCommandHandler: if a handler is registered for the       *)
(* serial last received, post it to the io_service and erase it.            *)
ExecuteAndRemoveCommandHandler(side, frame) ==
    IF frame.serial \in DOMAIN handlers[side]
    THEN /\ posted' = [posted EXCEPT ![side] =
                          Append(@, [cmd |-> handlers[side][frame.serial],
                                     reply |-> frame.cmd])]
         /\ handlers' = [handlers EXCEPT ![side] = EraseHandler(@, frame.serial)]
    ELSE UNCHANGED <<posted, handlers>>

(* AsyncSendCommand: boost::asio::async_write of the command's buffers,    *)
(* header then parameters, on fiber_; nothing waits for an earlier write.  *)
AsyncSendCommand(w, frame) ==
    Append(w, <<[part |-> "header", frame |-> frame],
                [part |-> "parameters", frame |-> frame]>>)

-----------------------------------------------------------------------------
Init ==
    /\ handlers = [side \in Sides |-> <<>>]
    /\ writing = [side \in Sides |-> <<>>]
    /\ fiber = [side \in Sides |-> <<>>]
    /\ received = [side \in Sides |-> NoPiece]
    /\ params = [side \in Sides |-> NoPiece]
    /\ posted = [side \in Sides |-> <<>>]
    /\ fired = [side \in Sides |-> {}]
    /\ issued = [side \in Sides |-> 0]
    /\ keepAlive = [side \in Sides |-> NoCmd]
    /\ closed = [side \in Sides |-> FALSE]
    /\ silent = FALSE

(* Command: take a serial, register the reply handler under it and send    *)
(* the command frame (AsyncSendCommand). Keep-alives and the create/stop   *)
(* service requests all go through here.                                   *)
Command(side) ==
    /\ issued[side] < MaxCommands
    /\ LET serial == GetAvailableSerial(side)
           cmd == <<side, issued[side] + 1>>
       IN /\ handlers' = [handlers EXCEPT ![side] =
                                InsertHandler(Reserve(@, serial), serial, cmd)]
          /\ writing' = [writing EXCEPT ![side] =
                            AsyncSendCommand(@, [kind |-> "request",
                                                 serial |-> serial, cmd |-> cmd])]
    /\ issued' = [issued EXCEPT ![side] = @ + 1]
    /\ UNCHANGED <<fiber, received, params, posted, fired>>

(* One write_some of the i-th outstanding async_write: the fiber takes the *)
(* rest of its buffers, or only the next piece when it may write partly.   *)
WriteSome(side, i) ==
    /\ i \in 1..Len(writing[side])
    /\ LET op == writing[side][i]
       IN \E n \in (IF PartialWrites THEN 1..Len(op) ELSE {Len(op)}) :
             /\ fiber' = [fiber EXCEPT ![Peer(side)] = @ \o SubSeq(op, 1, n)]
             /\ writing' = [writing EXCEPT ![side] =
                               IF n = Len(op) THEN RemoveAt(@, i)
                               ELSE [@ EXCEPT ![i] = SubSeq(op, n + 1, Len(op))]]
    /\ UNCHANGED <<handlers, received, params, posted, fired, issued, kaVars>>

(* ReceiveInstructionHeader: the next piece of fiber 0 is read as a header *)
(* (command_serial_received_, command_id_received_, size).                 *)
ReceiveInstructionHeader(side) ==
    /\ received[side] = NoPiece
    /\ fiber[side] # <<>> /\ ~silent
    /\ received' = [received EXCEPT ![side] = Head(fiber[side])]
    /\ fiber' = [fiber EXCEPT ![side] = Tail(@)]
    /\ UNCHANGED <<handlers, writing, params, posted, fired, issued, kaVars>>

(* ReceiveInstructionParameters: the next piece is read as the parameters. *)
ReceiveInstructionParameters(side) ==
    /\ received[side] # NoPiece /\ params[side] = NoPiece
    /\ fiber[side] # <<>> /\ ~silent
    /\ params' = [params EXCEPT ![side] = Head(fiber[side])]
    /\ fiber' = [fiber EXCEPT ![side] = Tail(@)]
    /\ UNCHANGED <<handlers, writing, received, posted, fired, issued, kaVars>>

(* ProcessInstructionId (spec 4.D): a request is executed and answered     *)
(* with a reply that reuses its serial; a reply runs the handler           *)
(* registered under its serial. Then the next header is awaited.           *)
ProcessInstructionId(side) ==
    /\ params[side] # NoPiece
    /\ LET frame == received[side].frame
       IN IF frame.kind = "request"
          THEN /\ writing' = [writing EXCEPT ![side] =
                                 AsyncSendCommand(@, [frame EXCEPT !.kind = "reply"])]
               /\ UNCHANGED <<posted, handlers>>
          ELSE /\ ExecuteAndRemoveCommandHandler(side, frame)
               /\ UNCHANGED writing
    /\ received' = [received EXCEPT ![side] = NoPiece]
    /\ params' = [params EXCEPT ![side] = NoPiece]
    /\ UNCHANGED <<fiber, fired, issued, kaVars>>

(* The io_service runs a posted reply handler; the keep-alive's marks the *)
(* keep-alive answered.                                                    *)
RunHandler(side) ==
    /\ posted[side] # <<>>
    /\ fired' = [fired EXCEPT ![side] = @ \cup {Head(posted[side])}]
    /\ posted' = [posted EXCEPT ![side] = Tail(@)]
    /\ keepAlive' = [keepAlive EXCEPT ![side] =
                        IF Head(posted[side]).cmd = @ THEN NoCmd ELSE @]
    /\ UNCHANGED <<handlers, writing, fiber, received, params, issued, closed, silent>>

(* Nothing is left to write, deliver, process or run on either side.       *)
Quiescent ==
    \A side \in Sides :
        /\ writing[side] = <<>> /\ fiber[side] = <<>>
        /\ params[side] = NoPiece /\ posted[side] = <<>>

(* reserved_keep_alive_timer_ expires: with the last keep-alive still      *)
(* unanswered the demux is closed with timed_out, otherwise a keep-alive   *)
(* command is sent through Command.                                        *)
KeepAliveTimeout(side) ==
    /\ ~closed[side] /\ Quiescent /\ keepAlive[side] # NoCmd
    /\ closed' = [closed EXCEPT ![side] = TRUE]
    /\ UNCHANGED <<handlers, writing, fiber, received, params, posted, fired,
                   issued, keepAlive, silent>>

KeepAliveSend(side) ==
    /\ ~closed[side] /\ Quiescent /\ keepAlive[side] = NoCmd
    /\ Command(side)
    /\ keepAlive' = [keepAlive EXCEPT ![side] = <<side, issued[side] + 1>>]
    /\ UNCHANGED <<closed, silent>>

(* The network goes silent, while each side can still send a keep-alive   *)
(* within the bound or has one outstanding.                                *)
GoSilent ==
    /\ ~silent
    /\ \A side \in Sides : keepAlive[side] # NoCmd \/ issued[side] < MaxCommands
    /\ silent' = TRUE
    /\ UNCHANGED <<handlers, writing, fiber, received, params, posted, fired,
                   issued, keepAlive, closed>>

(* A silent fiber 0 drops the piece at its head.                           *)
Drop(side) ==
    /\ silent /\ fiber[side] # <<>>
    /\ fiber' = [fiber EXCEPT ![side] = Tail(@)]
    /\ UNCHANGED <<handlers, writing, received, params, posted, fired, issued, kaVars>>

Next ==
    \/ GoSilent
    \/ \E side \in Sides :
        \/ ~closed[side] /\ Command(side) /\ UNCHANGED kaVars
        \/ \E i \in 1..(2 * MaxCommands) : WriteSome(side, i)
        \/ ReceiveInstructionHeader(side)
        \/ ReceiveInstructionParameters(side)
        \/ ProcessInstructionId(side)
        \/ RunHandler(side)
        \/ KeepAliveTimeout(side)
        \/ KeepAliveSend(side)
        \/ Drop(side)

(* Both io_services run their handlers, the fiber writes what it is given  *)
(* and delivers every piece.                                               *)
Fairness ==
    \A side \in Sides :
        /\ WF_vars(\E i \in 1..(2 * MaxCommands) : WriteSome(side, i))
        /\ WF_vars(ReceiveInstructionHeader(side))
        /\ WF_vars(ReceiveInstructionParameters(side))
        /\ WF_vars(ProcessInstructionId(side))
        /\ WF_vars(RunHandler(side))
        /\ WF_vars(Drop(side))

Spec == Init /\ [][Next]_vars /\ Fairness

-----------------------------------------------------------------------------
(* Properties.                                                              *)

(* Every reply handler that runs belongs to the command the reply answers: *)
(* a serial is never handed to a second command while the first one's      *)
(* handler is still registered (spec 3, invariant 4).                      *)
HandlerMatchesReply ==
    \A side \in Sides : \A f \in fired[side] : f.cmd = f.reply

(* Unless fiber 0 goes silent, every command's reply handler eventually    *)
(* runs, exactly once.                                                     *)
RepliesHandled ==
    <>[](silent \/ \A side \in Sides :
            /\ Cardinality(fired[side]) = issued[side]
            /\ \A n \in 1..issued[side] :
                  \E f \in fired[side] : f.cmd = <<side, n>>)

(* Every parameters block the receive loop reads belongs to the header it *)
(* read just before: frames of concurrent AsyncSendCommand calls (a        *)
(* command and a reply, or two commands) never interleave on fiber 0.      *)
ParametersMatchHeader ==
    \A side \in Sides :
        params[side] # NoPiece =>
            /\ received[side].part = "header"
            /\ params[side] = [part |-> "parameters", frame |-> received[side].frame]

=============================================================================
