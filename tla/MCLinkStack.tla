------------------------------ MODULE MCLinkStack ------------------------------
(* The stacks of spec 4.A (server and direct client TLS over TCP, client   *)
(* TLS over a proxy over TCP) and their parts.                             *)
EXTENDS LinkStack

MCStacks == {<<"tcp">>, <<"tls", "tcp">>, <<"proxy", "tcp">>,
             <<"tls", "proxy", "tcp">>}

(* An end iterator's set: nothing in it is accepted.                       *)
MCGarbage == [ok |-> FALSE, acceptor |-> FALSE, remote |-> FALSE]
=============================================================================
