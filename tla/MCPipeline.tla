----------------------------- MODULE MCPipeline -----------------------------
(* Every answer takes half the budget and expires one tick later; k1 is     *)
(* blocked by the rules of one source and excepted by those of another; k3  *)
(* is below a hosts wildcard.                                               *)
EXTENDS Pipeline

CONSTANTS h1, h2, r1, c1, list, exceptions

k1 == <<"a", "ads", "net">>
k2 == <<"ok", "net">>
k3 == <<"x", "home", "net">>

MCKeys == {k1, k2, k3}
MCKey == {k1}
MCWildcard == {<<"home", "net">>}
MCContents ==
  (list :> {{}, {[kind |-> "block", domain |-> <<"ads", "net">>],
                 [kind |-> "host", domain |-> <<"net">>]}})
  @@ (exceptions :> {{[kind |-> "exception", domain |-> k1]}})
MCRcodes == {"NoError", "ServFail"}
MCMessages == [name : Keys, id : Callers, rcode : MCRcodes]
MCNameLen == [k \in Keys |-> 1]
MCWireLen == [m \in MCMessages |-> 1]
MCTtl == [m \in MCMessages |-> 1]
=============================================================================
