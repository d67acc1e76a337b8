------------------------------- MODULE MCAdmin -------------------------------
(* Bounds for model checking Admin: two commands outstanding on each side  *)
(* make the second serial of each side differ from its first, which is    *)
(* where the client's and the server's sequences meet.                     *)
EXTENDS Admin

MCMaxCommands == 2
MCMaxSerial == 8
=============================================================================
