----------------------------- MODULE MCAdminInit -----------------------------
(* Bounds for the admin initialization: two remote services, so that one   *)
(* can be created while the other fails or is late; one retry of the       *)
(* coroutine's timer; the client's budget holds two creates and two stops. *)
EXTENDS AdminInit

MCInitMaxCommands == 4
MCInitMaxSerial == 8
MCRemoteServices == 2
MCRetryCount == 1
MCServerCommands == 1
=============================================================================
