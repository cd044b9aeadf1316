------------------------------ MODULE MCIngress ------------------------------
(***************************************************************************)
(* The ingresses besides the TCP and UDP relays, side by side: a behaviour *)
(* runs the DNS ingress, the SOCKS5 ingress or one captured UDP flow, and  *)
(* the other two stay as they began.                                       *)
(*                                                                         *)
(* DNS: two upstreams, one domain that a reload may start or stop denying, *)
(* the UDP loop, two connections to a listener that takes one, a session   *)
(* that restores the addresses it is told.  SOCKS5: an associating and a   *)
(* connecting client and room for one; two keys; channels of depth one, so *)
(* that both fill.                                                         *)
(***************************************************************************)
EXTENDS MCDnsResolver

CONSTANTS Clients, Associating, Keys, MaxSessions, Depth, MaxDatagrams, ResponseDepth, MaxResponses

VARIABLES
    focus,
    listener, halt, phase, gone, entry, sending, reports, assoc, sent,
    at, sender, task, abort, responses, produced, events

Socks == INSTANCE SocksIngress WITH stop <- halt
Captured == INSTANCE CapturedUdp

socksVars == <<listener, halt, phase, gone, entry, sending, reports, assoc, sent>>
capturedVars == <<at, sender, task, abort, responses, produced, events>>
allVars == <<dnsVars, focus, socksVars, capturedVars>>

DnsAtRest ==
    /\ routing = [enabled |-> {}, deny |-> {}]
    /\ conn = [c \in TcpSessions |-> "absent"]

IngressInit ==
    /\ focus \in {"dns", "socks", "captured"}
    /\ DnsInit /\ (focus # "dns" => DnsAtRest)
    /\ Socks!SocksInit /\ Captured!CapturedInit

DnsStep == focus = "dns" /\ DnsNext
SocksStep == focus = "socks" /\ Socks!SocksNext
CapturedStep == focus = "captured" /\ Captured!CapturedNext

IngressNext ==
    \/ DnsStep /\ UNCHANGED <<focus, socksVars, capturedVars>>
    \/ SocksStep /\ UNCHANGED <<dnsVars, focus, capturedVars>>
    \/ CapturedStep /\ UNCHANGED <<dnsVars, focus, socksVars>>

IngressSpec ==
    /\ IngressInit /\ [][IngressNext]_allVars
    /\ DnsFairness /\ Socks!SocksFairness /\ Captured!CapturedFairness

(* The properties of the instances, under their own names                  *)
SocksDrains == focus = "socks" => Socks!SocksDrains
CapturedEnds == Captured!CapturedEnds
=============================================================================
