---------------------------- MODULE DnsResolver ----------------------------
(***************************************************************************)
(* The DNS ingress and the race of the upstreams behind it.                *)
(*                                                                         *)
(* Three kinds of callers run resolve_dns_wire: the UDP loop of the DNS    *)
(* ingress, which takes one query at a time; the sessions of its TCP       *)
(* listener; and the SOCKS5 and captured sessions that restore the domain  *)
(* of the address they were given (resolve_socket_destination).  Each asks *)
(* all enabled upstreams at once.  A first answer that is not made of      *)
(* 198.18/15 addresses alone wins; such a fake one is kept and used when   *)
(* the deadline passes or every upstream has been heard.  Configuration    *)
(* and the IPv6 rule are two reads, between which a reload may commit.     *)
(*                                                                         *)
(* An answer is the set of its addresses.  "cut" is a response whose       *)
(* question section is truncated.  A query that does not parse (opaque) is *)
(* forwarded as it is; its answer is recorded under the name it carries.   *)
(***************************************************************************)
EXTENDS Naturals, Sequences, FiniteSets

CONSTANTS
    Upstreams, Domains,
    Tables,                  \* the routing tables a reload may bring
    TcpSessions, Restorers,  \* callers besides the UDP loop
    MaxTcpSessions,          \* max_sessions of the TCP listener
    MaxQueries, MaxReloads,  \* bounds: queries taken up, reloads
    MaxTcpQueries            \* bound: queries taken up while the listener has clients

ASSUME DnsAssumption ==
    /\ Tables \subseteq [enabled : SUBSET Upstreams, deny : SUBSET Domains]
    /\ MaxTcpSessions \in Nat \ {0}
    /\ MaxQueries \in Nat /\ MaxReloads \in Nat /\ MaxTcpQueries \in Nat

VARIABLES
    routing,   \* what a reload replaces: the enabled upstreams and the denied domains
    reloads, queries,
    map,       \* ObservedDnsMap
    conn,      \* the TCP listener's connections
    stop,      \* the shutdown token
    handed,    \* history: the fake addresses sent to DNS clients
    res        \* the callers

dnsVars == <<routing, reloads, queries, map, conn, stop, handed, res>>

Wire == {"udp"} \union TcpSessions
Callers == Wire \union Restorers
Fake == "198.18.0.10"
Unknown == "unknown"

Nothing == [kind |-> "none", ips |-> {}]
Failed == [kind |-> "error", ips |-> {}]
Answer(ips) == [kind |-> "answer", ips |-> ips]

(* What an upstream may answer, as query_upstream sees it after the check  *)
(* that it parses and carries the id of the query.                         *)
Replies(qtype) ==
    {Failed} \union
        CASE qtype = "A" -> {Answer({Fake}), Answer({Fake, "v4"}), Answer({"v4"})}
          [] qtype = "AAAA" -> {Answer({"v6"}), [kind |-> "cut", ips |-> {}]}
          [] qtype = "opaque" -> {Answer({}), Answer({"v4"})}

Idle == [state |-> "idle", domain |-> Unknown, qtype |-> "A", enabled |-> {},
         rule |-> FALSE, pending |-> {}, channel |-> <<>>, candidate |-> Nothing,
         due |-> FALSE, result |-> Nothing, denied |-> FALSE, hasty |-> FALSE, told |-> FALSE]

DnsInit ==
    /\ routing \in Tables
    /\ reloads = 0 /\ queries = 0
    /\ map = [d \in Domains |-> {}]
    /\ \E clients \in {"none", "absent"} : conn = [c \in TcpSessions |-> clients]
    /\ stop = FALSE /\ handed = {}
    /\ res = [c \in Callers |-> Idle]

Set(c, r) == res' = [res EXCEPT ![c] = r]

-----------------------------------------------------------------------------
(* The routing table is replaced as a whole.  `denied` is history: the     *)
(* domain has been denied since the query was taken up.                    *)
Reload(table) ==
    /\ reloads < MaxReloads
    /\ reloads' = reloads + 1
    /\ routing' = table
    /\ res' = [c \in Callers |-> [res[c] EXCEPT !.denied = @ /\ res[c].domain \in table.deny]]
    /\ UNCHANGED <<queries, map, conn, stop, handed>>

QueryBound == IF \A c \in TcpSessions : conn[c] = "absent" THEN MaxQueries
                                                            ELSE MaxTcpQueries

(* The first read of resolve_dns_wire: dns_config.                         *)
Begin(c, d, t) ==
    /\ queries < QueryBound /\ queries' = queries + 1
    /\ Set(c, [Idle EXCEPT !.state = "configured", !.domain = d, !.qtype = t,
                           !.enabled = routing.enabled, !.denied = d \in routing.deny])

(* run_udp and handle_tcp_session receive a query.                         *)
Take(c, d, t) ==
    /\ c \in Wire /\ res[c].state = "idle"
    /\ c \in TcpSessions => conn[c] = "open"
    /\ Begin(c, d, t)
    /\ UNCHANGED <<routing, reloads, map, conn, stop, handed>>

(* domain_for_ip: the first domain whose last answers hold the address.    *)
DomainsFor(a) == {d \in Domains : a \in map[d]}

(* resolve_socket_destination of a session that is told an address; `told` *)
(* is history: the address is one a DNS client was given.                  *)
Restore(c, a) ==
    /\ c \in Restorers /\ res[c].state = "idle"
    /\ IF DomainsFor(a) = {}
       THEN /\ queries < QueryBound /\ queries' = queries + 1
            /\ Set(c, [Idle EXCEPT !.state = "done", !.told = a \in handed])
       ELSE Begin(c, CHOOSE d \in DomainsFor(a) : TRUE, "A")
    /\ UNCHANGED <<routing, reloads, map, conn, stop, handed>>

(* dns_ipv6_deny_rule, a second read of the routing table; then one task   *)
(* per upstream.                                                           *)
Spawn(c, rule) ==
    /\ res[c].state = "configured"
    /\ Set(c, IF res[c].enabled = {}
              THEN [res[c] EXCEPT !.state = "done", !.result = Failed]
              ELSE [res[c] EXCEPT !.state = "racing", !.rule = rule,
                                  !.pending = res[c].enabled])
    /\ UNCHANGED <<routing, reloads, queries, map, conn, stop, handed>>

ReadRuleIgnored(c) == Spawn(c, FALSE)
ReadRule(c) == Spawn(c, res[c].qtype = "AAAA" /\ res[c].domain \in routing.deny)

(* query_upstream: a task reports.                                         *)
Reply(c, u, reply) ==
    /\ res[c].state = "racing" /\ u \in res[c].pending
    /\ Set(c, [res[c] EXCEPT !.pending = @ \ {u}, !.channel = Append(@, reply)])
    /\ UNCHANGED <<routing, reloads, queries, map, conn, stop, handed>>

(* The deadline of the race.  The tasks' own timeouts count the same       *)
(* duration from about the same moment and are replies that failed.        *)
Expire(c) ==
    /\ res[c].state = "racing" /\ ~res[c].due
    /\ Set(c, [res[c] EXCEPT !.due = TRUE])
    /\ UNCHANGED <<routing, reloads, queries, map, conn, stop, handed>>

(* The resolution is recorded and returned; the receiver is dropped, so    *)
(* that what the remaining tasks send is lost.  `hasty` is history: some   *)
(* upstream had not been heard, nor had the deadline passed.               *)
Return(c, r, result) ==
    /\ Set(c, [r EXCEPT !.state = "done", !.result = result,
                        !.enabled = {}, !.pending = {}, !.channel = <<>>,
                        !.candidate = Nothing, !.due = FALSE,
                        !.hasty = ~r.due /\ (r.pending # {} \/ r.channel # <<>>)])
    /\ map' = IF result.ips = {} THEN map ELSE [map EXCEPT ![r.domain] = result.ips]
    /\ UNCHANGED <<routing, reloads, queries, conn, stop, handed>>

FallBack(c) == Return(c, res[c], IF res[c].candidate = Nothing THEN Failed
                                 ELSE res[c].candidate)

(* rx.recv() with a result: the filter of the IPv6 rule, which fails on a  *)
(* question it cannot delimit; the fake candidate; the winner.             *)
Received(c, keepsFake) ==
    /\ res[c].state = "racing" /\ res[c].channel # <<>>
    /\ LET reply == Head(res[c].channel)
           r == [res[c] EXCEPT !.channel = Tail(@)]
           ips == IF r.rule THEN {} ELSE reply.ips
       IN  IF reply = Failed
           THEN Set(c, r) /\ UNCHANGED <<routing, reloads, queries, map, conn, stop, handed>>
           ELSE IF r.rule /\ reply.kind = "cut" THEN Return(c, r, Failed)
           ELSE IF ips = {Fake} /\ keepsFake
           THEN /\ Set(c, [r EXCEPT !.candidate = IF @ = Nothing THEN Answer(ips) ELSE @])
                /\ UNCHANGED <<routing, reloads, queries, map, conn, stop, handed>>
           ELSE Return(c, r, Answer(ips))

RecvReplyEager(c) == Received(c, FALSE)
RecvReply(c) == Received(c, TRUE)

(* rx.recv() when every task has reported                                  *)
ChannelEnds(c) ==
    /\ res[c].state = "racing" /\ res[c].channel = <<>> /\ res[c].pending = {}
    /\ FallBack(c)

(* select! picks the deadline although replies may be waiting.             *)
DeadlineWithCandidate(c) ==
    res[c].state = "racing" /\ res[c].due /\ res[c].candidate # Nothing /\ FallBack(c)
Deadline(c) == res[c].state = "racing" /\ res[c].due /\ FallBack(c)

-----------------------------------------------------------------------------
(* The response is sent, or the error recorded and nothing sent.  A failed *)
(* send ends the UDP loop, and try_join! the listener with it; a failed    *)
(* write ends the TCP session.                                             *)
Deliver(c) ==
    /\ res[c].state = "done"
    /\ \/ /\ Set(c, Idle)
          /\ handed' = IF c \in Wire THEN handed \union (res[c].result.ips \cap {Fake})
                                     ELSE handed
          /\ UNCHANGED conn
       \/ /\ c \in Wire /\ res[c].result.kind = "answer"
          /\ Set(c, [Idle EXCEPT !.state = IF c = "udp" THEN "failed" ELSE "idle"])
          /\ conn' = IF c = "udp" THEN conn ELSE [conn EXCEPT ![c] = "closed"]
          /\ UNCHANGED handed
    /\ UNCHANGED <<routing, reloads, queries, map, stop>>

(* run_tcp: a connection above the limit is dropped.                       *)
Accept(c) ==
    /\ c \in TcpSessions /\ conn[c] = "none" /\ res["udp"].state # "failed"
    /\ conn' = [conn EXCEPT ![c] =
          IF Cardinality({s \in TcpSessions : conn[s] = "open"}) < MaxTcpSessions
          THEN "open" ELSE "closed"]
    /\ UNCHANGED <<routing, reloads, queries, map, stop, handed, res>>

CancelDns ==
    /\ ~stop /\ stop' = TRUE
    /\ UNCHANGED <<routing, reloads, queries, map, conn, handed, res>>

(* The token is looked at between queries; a TCP session also ends when    *)
(* its client leaves.                                                      *)
StopUdp ==
    /\ stop /\ res["udp"].state = "idle"
    /\ Set("udp", [Idle EXCEPT !.state = "stopped"])
    /\ UNCHANGED <<routing, reloads, queries, map, conn, stop, handed>>

CloseTcp(c) ==
    /\ c \in TcpSessions /\ conn[c] = "open" /\ res[c].state = "idle"
    /\ conn' = [conn EXCEPT ![c] = "closed"]
    /\ UNCHANGED <<routing, reloads, queries, map, stop, handed, res>>

DnsOver ==
    /\ stop /\ res["udp"].state \in {"stopped", "failed"}
    /\ UNCHANGED dnsVars

DnsNext ==
    \/ \E table \in Tables : Reload(table)
    \/ CancelDns \/ StopUdp \/ DnsOver
    \/ \E c \in TcpSessions : Accept(c) \/ CloseTcp(c)
    \/ \E c \in Wire, d \in Domains, t \in {"A", "AAAA", "opaque"} : Take(c, d, t)
    \/ \E c \in Restorers, a \in {Fake, "v4"} : Restore(c, a)
    \/ \E c \in Callers :
          \/ ReadRule(c) \/ Expire(c) \/ RecvReply(c)
          \/ ChannelEnds(c) \/ Deadline(c) \/ Deliver(c)
          \/ \E u \in Upstreams : \E reply \in Replies(res[c].qtype) : Reply(c, u, reply)

(* Timers fire and tasks are polled; an upstream owes nothing.  A session  *)
(* of the TCP listener ends when the token is cancelled.                   *)
DnsFairness ==
    /\ WF_dnsVars(StopUdp)
    /\ \A c \in Callers : /\ WF_dnsVars(ReadRule(c)) /\ WF_dnsVars(Expire(c))
                          /\ WF_dnsVars(Deadline(c)) /\ WF_dnsVars(Deliver(c))
    /\ \A c \in TcpSessions : WF_dnsVars(stop /\ CloseTcp(c))

DnsSpec == DnsInit /\ [][DnsNext]_dnsVars
DnsFairSpec == DnsSpec /\ DnsFairness

-----------------------------------------------------------------------------
(* A fake answer is the last resort of the race: before the deadline it is *)
(* used only when every upstream has been heard, and a real answer that    *)
(* was read is never passed over for it (resolve_dns_wire, fake_candidate).*)
FakeIsLastResort ==
    \A c \in Callers :
        res[c].state = "done" /\ res[c].result = Answer({Fake}) =>
            ~res[c].hasty

(* No AAAA answer for a domain that has been denied since the query was    *)
(* taken up leaves the resolver with addresses, whatever reload commits    *)
(* between the two reads of the routing table (dns_ipv6_deny_rule).        *)
DenyHolds ==
    \A c \in Callers :
        res[c].state = "done" /\ res[c].denied /\ res[c].qtype = "AAAA" =>
            res[c].result.ips = {}

(* However many upstreams stay silent, a query that was taken up ends, and *)
(* a cancelled UDP loop with it.                                           *)
QueryEnds ==
    /\ \A c \in Callers : res[c].state \in {"configured", "racing", "done"} ~>
                          res[c].state \in {"idle", "stopped", "failed"}
    /\ stop ~> /\ res["udp"].state \in {"stopped", "failed"}
               /\ \A c \in TcpSessions : conn[c] # "open"

(* A session that is told a fake address which a DNS client was given      *)
(* finds the domain it stands for (resolve_socket_destination).            *)
FakeIsRestored == \A c \in Restorers : res[c].state = "done" => ~res[c].told
=============================================================================
