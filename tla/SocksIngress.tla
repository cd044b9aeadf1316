---------------------------- MODULE SocksIngress ----------------------------
(***************************************************************************)
(* The SOCKS5 ingress: the listener with its session limit, CONNECT        *)
(* sessions, and UDP ASSOCIATE sessions, whose loop hands each datagram to *)
(* the association of its (peer, target) and spawns it when there is none. *)
(*                                                                         *)
(* An association is a detached task.  It drops its receiver when its      *)
(* egress returns and then reports its key on a bounded channel; the loop  *)
(* drops the senders and that channel when it returns.  The loop may wait  *)
(* for room in the queue of one association, and then reads neither the    *)
(* reports nor the end of the control connection.                          *)
(***************************************************************************)
EXTENDS Naturals, Sequences, FiniteSets

CONSTANTS
    Clients, Keys,   \* connections; (peer, target) pairs of the datagrams
    Associating,     \* the clients that ask for UDP ASSOCIATE
    MaxSessions,     \* config.max_sessions
    Depth,           \* UDP_CHANNEL_DEPTH
    MaxDatagrams     \* bound: datagrams of the clients

VARIABLES
    listener,   \* run_socks5: open, draining, returned
    stop,       \* the shutdown token
    phase,      \* the session of a client
    gone,       \* the client has closed its connection
    entry,      \* associations of a session's loop: key -> association, 0 for none
    sending,    \* the association whose queue the loop waits for, 0 for none
    reports,    \* the channel of completions
    assoc,      \* the association tasks, in the order they were spawned
    sent        \* datagrams so far

sessionVars == <<phase, gone, entry, sending, reports>>
socksVars == <<listener, stop, sessionVars, assoc, sent>>

NoEntries == [k \in Keys |-> 0]

SocksInit ==
    /\ listener = "open" /\ stop = FALSE
    /\ phase = [c \in Clients |-> "none"] /\ gone = [c \in Clients |-> FALSE]
    /\ entry = [c \in Clients |-> NoEntries] /\ sending = [c \in Clients |-> 0]
    /\ reports = [c \in Clients |-> <<>>]
    /\ assoc = <<>> /\ sent = 0

Live == {c \in Clients : phase[c] \notin {"none", "over"}}

-----------------------------------------------------------------------------
(* run_socks5: without a permit the connection is dropped.                 *)
Accept(c) ==
    /\ listener = "open" /\ phase[c] = "none"
    /\ phase' = [phase EXCEPT ![c] = IF Cardinality(Live) < MaxSessions
                                     THEN "negotiating" ELSE "over"]
    /\ UNCHANGED <<listener, stop, gone, entry, sending, reports, assoc, sent>>

Leave(c) ==
    /\ c \in Live /\ ~gone[c]
    /\ gone' = [gone EXCEPT ![c] = TRUE]
    /\ UNCHANGED <<listener, stop, phase, entry, sending, reports, assoc, sent>>

Cancel ==
    /\ ~stop /\ stop' = TRUE
    /\ UNCHANGED <<listener, sessionVars, assoc, sent>>

(* The accept loop breaks; then every session is joined, and none is told. *)
StopAccepting ==
    /\ listener = "open" /\ stop
    /\ listener' = "draining"
    /\ UNCHANGED <<stop, sessionVars, assoc, sent>>

JoinSessions ==
    /\ listener = "draining" /\ Live = {}
    /\ listener' = "returned"
    /\ UNCHANGED <<stop, sessionVars, assoc, sent>>

(* The session's task returns, with the permit; what its loop owned goes.  *)
Ends(c) ==
    /\ phase' = [phase EXCEPT ![c] = "over"]
    /\ entry' = [entry EXCEPT ![c] = NoEntries]
    /\ sending' = [sending EXCEPT ![c] = 0]
    /\ reports' = [reports EXCEPT ![c] = <<>>]
    /\ UNCHANGED <<listener, stop, gone, sent>>

(* negotiate_no_auth, read_request: a malformed greeting or request, a     *)
(* command that is not supported, a target that does not resolve or that   *)
(* no rule lets through, a reply that cannot be written                    *)
Refuse(c) == phase[c] = "negotiating" /\ Ends(c) /\ UNCHANGED assoc

(* handle_connect and handle_udp_associate reply and go on.                *)
Serve(c) ==
    /\ phase[c] = "negotiating"
    /\ phase' = [phase EXCEPT ![c] = IF c \in Associating THEN "udp" ELSE "connect"]
    /\ UNCHANGED <<listener, stop, gone, entry, sending, reports, assoc, sent>>

(* handle_tcp returns an outcome or an error.                              *)
ConnectEnds(c) == phase[c] = "connect" /\ Ends(c) /\ UNCHANGED assoc

-----------------------------------------------------------------------------
(* run_socks_udp_loop *)

Selecting(c) == phase[c] = "udp" /\ sending[c] = 0

(* spawn_udp_control_watch has seen the connection end.                    *)
ControlClosed(c) == Selecting(c) /\ gone[c] /\ Ends(c) /\ UNCHANGED assoc

Reap(c) ==
    /\ Selecting(c) /\ reports[c] # <<>>
    /\ entry' = [entry EXCEPT ![c][Head(reports[c])] = 0]
    /\ reports' = [reports EXCEPT ![c] = Tail(@)]
    /\ UNCHANGED <<listener, stop, phase, gone, sending, assoc, sent>>

ReceivingUntilReported(a) == assoc[a].state \in {"relaying", "reporting"}

(* downstream_rx lives as long as handle_udp.                              *)
Receiving(a) == assoc[a].state = "relaying"

(* tx.send: it fails when the receiver is gone, and waits for room.        *)
SendTo(c, k, a) ==
    IF ~Receiving(a)
    THEN /\ entry' = [entry EXCEPT ![c][k] = 0]
         /\ sending' = [sending EXCEPT ![c] = 0] /\ UNCHANGED assoc
    ELSE IF assoc[a].queued < Depth
    THEN /\ assoc' = [assoc EXCEPT ![a].queued = @ + 1]
         /\ sending' = [sending EXCEPT ![c] = 0] /\ UNCHANGED entry
    ELSE sending' = [sending EXCEPT ![c] = a] /\ UNCHANGED <<entry, assoc>>

(* A datagram arrives.  One that does not parse, resolve or select, and a  *)
(* failed recv_from, end the loop with all its associations.               *)
Datagram(c, k) ==
    /\ Selecting(c) /\ sent < MaxDatagrams /\ sent' = sent + 1
    /\ IF entry[c][k] # 0 THEN SendTo(c, k, entry[c][k])
       ELSE /\ assoc' = Append(assoc, [of |-> c, key |-> k, state |-> "relaying",
                                       queued |-> 1])
            /\ entry' = [entry EXCEPT ![c][k] = Len(assoc) + 1]
            /\ UNCHANGED sending
    /\ UNCHANGED <<listener, stop, phase, gone, reports>>

BadDatagram(c) == Selecting(c) /\ Ends(c) /\ UNCHANGED assoc

SendReturns(c) ==
    LET a == sending[c]
    IN  /\ a # 0 /\ (Receiving(a) => assoc[a].queued < Depth)
        /\ SendTo(c, assoc[a].key, a)
        /\ UNCHANGED <<listener, stop, phase, gone, reports, sent>>

-----------------------------------------------------------------------------
(* spawn_socks_udp_association *)

Relaying(a) == a \in DOMAIN assoc /\ assoc[a].state = "relaying"

HasSender(a) == sending[assoc[a].of] = a \/ entry[assoc[a].of][assoc[a].key] = a

TakeDatagram(a) ==
    /\ Relaying(a) /\ assoc[a].queued > 0
    /\ assoc' = [assoc EXCEPT ![a].queued = @ - 1]
    /\ UNCHANGED <<listener, stop, sessionVars, sent>>

(* handle_udp returns, and its event is recorded: the channel has ended,   *)
Drained(a) ==
    /\ Relaying(a) /\ assoc[a].queued = 0 /\ ~HasSender(a)
    /\ assoc' = [assoc EXCEPT ![a].state = "reporting"]
    /\ UNCHANGED <<listener, stop, sessionVars, sent>>

(* or the idle timeout has passed, or the egress has failed.               *)
Breaks(a) ==
    /\ Relaying(a)
    /\ assoc' = [assoc EXCEPT ![a].state = "reporting"]
    /\ UNCHANGED <<listener, stop, sessionVars, sent>>

(* complete_tx.send, without effect once the loop has returned             *)
Report(a) ==
    /\ a \in DOMAIN assoc /\ assoc[a].state = "reporting"
    /\ LET c == assoc[a].of
       IN  IF phase[c] = "udp"
           THEN /\ Len(reports[c]) < Depth
                /\ reports' = [reports EXCEPT ![c] = Append(@, assoc[a].key)]
           ELSE UNCHANGED reports
    /\ assoc' = [assoc EXCEPT ![a].state = "ended", ![a].queued = 0]
    /\ UNCHANGED <<listener, stop, phase, gone, entry, sending, sent>>

SocksStep(c) ==
    \/ Accept(c) \/ Leave(c) \/ Refuse(c) \/ Serve(c) \/ ConnectEnds(c)
    \/ ControlClosed(c) \/ Reap(c) \/ BadDatagram(c) \/ SendReturns(c)
    \/ \E k \in Keys : Datagram(c, k)

SocksNext ==
    \/ Cancel \/ StopAccepting \/ JoinSessions
    \/ \E c \in Clients : SocksStep(c)
    \/ \E a \in 1 .. MaxDatagrams :
          TakeDatagram(a) \/ Drained(a) \/ Breaks(a) \/ Report(a)

(* Tasks are polled.  An association is assumed to get its datagrams off;  *)
(* of a CONNECT session and of a half-read request only that they end once *)
(* the client has left: the relay has no timeout of its own.               *)
SocksFairness ==
    /\ WF_socksVars(StopAccepting) /\ WF_socksVars(JoinSessions)
    /\ \A c \in Clients :
          /\ WF_socksVars(gone[c] /\ (Refuse(c) \/ ConnectEnds(c)))
          /\ SF_socksVars(ControlClosed(c))
          /\ WF_socksVars(SendReturns(c) \/ Reap(c))
    /\ \A a \in 1 .. MaxDatagrams :
          WF_socksVars(TakeDatagram(a) \/ Drained(a)) /\ WF_socksVars(Report(a))

-----------------------------------------------------------------------------
(* Clients that have left are let go, whatever queue their loop was        *)
(* waiting for: the session ends, every association it spawned ends, and a *)
(* listener that was told to stop returns (run_socks5, run_socks_udp_loop).*)
SocksDrains ==
    /\ \A c \in Clients :
          gone[c] ~> /\ phase[c] = "over"
                     /\ \A a \in DOMAIN assoc : assoc[a].of = c => assoc[a].state = "ended"
    /\ (stop /\ \A c \in Live : gone[c]) ~> (listener = "returned" \/ \E c \in Live : ~gone[c])
=============================================================================
