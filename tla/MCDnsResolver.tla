--------------------------- MODULE MCDnsResolver ---------------------------
(***************************************************************************)
(* A small DNS ingress: two upstreams, one domain that a reload may start  *)
(* or stop denying, the UDP loop, two connections to a listener that takes *)
(* one, and a session that restores the addresses it is told.              *)
(***************************************************************************)
EXTENDS DnsResolver

MCTables ==
    {[enabled |-> Upstreams, deny |-> {}], [enabled |-> Upstreams, deny |-> Domains],
     [enabled |-> {}, deny |-> {}]}
=============================================================================
