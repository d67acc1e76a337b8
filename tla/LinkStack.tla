------------------------------ MODULE LinkStack ------------------------------
(***************************************************************************)
(* Endpoint construction over the link protocol stack (spec 4.A): each     *)
(* layer's make_endpoint takes the parameter set at the iterator and hands *)
(* the advanced iterator to the layer below it. The layers are            *)
(* physical::tcp (network/ssf/layer/physical/tcp.h), proxy::              *)
(* basic_ProxyProtocol (network/ssf/layer/proxy/basic_proxy_protocol.h)    *)
(* and cryptography::basic_tls (network/ssf/layer/cryptography/tls/       *)
(* OpenSSL/impl.h). A stack is listed outermost layer first, as the        *)
(* parameter stack is.                                                     *)
(*                                                                         *)
(* The helpers that interpret a parameter set (make_tcp_endpoint,          *)
(* MakeProxyContext, ProxyEndpointContext, make_tls_context) are outside   *)
(* src/: a parameter set is abstracted to what they answer about it.       *)
(* Dereferencing the iterator past the end of the stack is undefined; it   *)
(* is recorded as a read of an index beyond the stack and yields Garbage.  *)
(***************************************************************************)
EXTENDS Naturals, Sequences

CONSTANTS
    Stacks,      \* the layer stacks the client and server build
    Garbage      \* what *parameters_it yields past the end of the stack

(* What the helpers make of one parameter set: whether the layer's own     *)
(* helper accepts it, whether it describes an acceptor (no remote proxy    *)
(* host), and whether ProxyEndpointContext::UpdateRemoteHost accepts it.   *)
ParamSets == [ok : BOOLEAN, acceptor : BOOLEAN, remote : BOOLEAN]

ASSUME Garbage \in ParamSets

VARIABLES
    layers,     \* the protocol stack
    params,     \* the parameter stack (a ParameterStack)
    endpoint    \* the result of make_endpoint, once built

vars == <<layers, params, endpoint>>

(* *parameters_it for the iterator at index i.                              *)
Deref(ps, i) == IF i \in 1..Len(ps) THEN ps[i] ELSE Garbage

(* A result: the error flag, the indices the code dereferenced and the     *)
(* parameter sets the endpoint was built from, in order.                   *)
Result(ec, reads, uses) == [ec |-> ec, reads |-> reads, uses |-> uses]
NotBuilt == Result(FALSE, {}, <<>>)

-----------------------------------------------------------------------------
(* Faulty variant: the proxy layer counted without its own parameter set.  *)
RECURSIVE StackSizeProxyUncounted(_)
StackSizeProxyUncounted(ls) ==
    CASE Head(ls) = "tcp"   -> 1
      [] Head(ls) = "proxy" -> StackSizeProxyUncounted(Tail(ls))
      [] Head(ls) = "tls"   -> 1 + StackSizeProxyUncounted(Tail(ls))

(* endpoint_stack_size: 1 for tcp, 1 + the next layer's for proxy and tls. *)
RECURSIVE StackSize(_)
StackSize(ls) ==
    IF Head(ls) = "tcp" THEN 1 ELSE 1 + StackSize(Tail(ls))

(* tcp::make_endpoint: make_tcp_endpoint on *parameters_it.                *)
TcpMakeEndpoint(ps, i) == Result(~Deref(ps, i).ok, {i}, <<i>>)

(* basic_tls::make_endpoint_context: make_tls_context on *parameters_it;   *)
(* invalid_argument when no context could be made.                         *)
TlsMakeEndpointContext(ps, i) == Result(~Deref(ps, i).ok, {i}, <<i>>)

RECURSIVE MakeEndpoint(_, _, _)

(* Faulty variant: the iterator is not advanced, so the proxy's own set is *)
(* read again as the remote host and handed to the next layer.            *)
ProxyMakeEndpointNoAdvance(ls, ps, i) ==
    LET ctx == Deref(ps, i)
    IN IF ~ctx.ok THEN Result(TRUE, {i}, <<i>>)
       ELSE IF ~ctx.acceptor /\ Deref(ps, i).remote
            THEN Result(FALSE, {i}, <<i, i>>)
            ELSE LET next == MakeEndpoint(Tail(ls), ps, i)
                 IN Result(next.ec, {i} \cup next.reads, <<i>> \o next.uses)

(* basic_ProxyProtocol::make_endpoint: MakeProxyContext on its own set; on *)
(* error an empty endpoint. Then ++parameters_it: a client context whose   *)
(* next set gives the remote host keeps it and ends the endpoint there;    *)
(* otherwise the next layer's endpoint is built from the advanced iterator.*)
ProxyMakeEndpoint(ls, ps, i) ==
    LET ctx == Deref(ps, i)
    IN IF ~ctx.ok THEN Result(TRUE, {i}, <<i>>)
       ELSE IF ~ctx.acceptor /\ Deref(ps, i + 1).remote
            THEN Result(FALSE, {i, i + 1}, <<i, i + 1>>)
            ELSE LET next == MakeEndpoint(Tail(ls), ps, i + 1)
                 IN Result(next.ec,
                           {i} \cup (IF ctx.acceptor THEN {} ELSE {i + 1})
                               \cup next.reads,
                           <<i>> \o next.uses)

(* The endpoint of a layer with a context (basic_VirtualLink_endpoint,     *)
(* outside src/, spec 4.A): its context from its own set, then the next    *)
(* layer's endpoint from the following set; an error of either surfaces.   *)
TlsMakeEndpoint(ls, ps, i) ==
    LET ctx == TlsMakeEndpointContext(ps, i)
        next == MakeEndpoint(Tail(ls), ps, i + 1)
    IN Result(ctx.ec \/ next.ec, ctx.reads \cup next.reads, ctx.uses \o next.uses)

(* The template composition: the outer layer's make_endpoint is called     *)
(* with the iterator at its set.                                           *)
MakeEndpoint(ls, ps, i) ==
    CASE Head(ls) = "tcp"   -> TcpMakeEndpoint(ps, i)
      [] Head(ls) = "proxy" -> ProxyMakeEndpoint(ls, ps, i)
      [] Head(ls) = "tls"   -> TlsMakeEndpoint(ls, ps, i)

-----------------------------------------------------------------------------
(* The caller picks a stack and a parameter stack with one set per layer,  *)
(* or one set short of it.                                                 *)
Init ==
    /\ layers \in Stacks
    /\ \E n \in {StackSize(layers) - 1, StackSize(layers)} :
          params \in [1..n -> ParamSets]
    /\ endpoint = NotBuilt

(* The caller resolves the endpoint: make_endpoint of the outermost layer. *)
Build ==
    /\ endpoint = NotBuilt
    /\ endpoint' = MakeEndpoint(layers, params, 1)
    /\ UNCHANGED <<layers, params>>

Next == Build

Spec == Init /\ [][Next]_vars

-----------------------------------------------------------------------------
(* Properties.                                                              *)

Built == endpoint # NotBuilt

(* With as many parameter sets as endpoint_stack_size says, no layer's     *)
(* make_endpoint dereferences the iterator past the end of the stack:      *)
(* also not the proxy layer, which reads the set after its own.            *)
ReadsWithinStack ==
    (Built /\ Len(params) >= StackSize(layers)) =>
        \A k \in endpoint.reads : k \in 1..Len(params)

(* Spec 4.A: each layer consumes exactly one parameter set, in order. An   *)
(* endpoint built without error from a full stack was made from every set  *)
(* once, outermost first, also when the proxy layer takes the set below it *)
(* as its remote host instead of building that layer.                      *)
SetsUsedOnce ==
    (Built /\ ~endpoint.ec /\ Len(params) = StackSize(layers)) =>
        endpoint.uses = [k \in 1..Len(params) |-> k]

=============================================================================
