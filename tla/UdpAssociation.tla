--------------------------- MODULE UdpAssociation ---------------------------
(***************************************************************************)
(* One UDP association inside an egress node: the loop that waits, for at  *)
(* most idle_timeout, for a datagram of the client or one of the upstream. *)
(*   direct, ss, ss2022, ss2022-chain  a connected UDP socket: packets may *)
(*       be lost, doubled and reordered; ss2022 checks the packet id, the  *)
(*       chain checks one id per hop;                                      *)
(*   vless, trojan, vmess  datagrams framed on one byte stream, read by    *)
(*       read_datagram inside a select!.  When the client's branch wins,   *)
(*       the future is dropped with what it has read of a frame.           *)
(*                                                                         *)
(* A unit of the stream stands for a field of the framing or a byte of a   *)
(* payload.  Payload bytes read as an address, a delimiter or a ciphertext *)
(* fail the check there; VLESS checks only the version.                    *)
(***************************************************************************)
EXTENDS ReplayWindow, Sequences

CONSTANTS
    UdpKinds,        \* the protocols of the nodes
    Sizes,        \* the payload sizes of the upstream's datagrams
    MaxUp,        \* bound: datagrams of the client
    MaxFrames,    \* bound: frames of the upstream
    MaxPackets    \* bound: packets of the upstream

Streams == {"vless", "trojan", "vmess"}
Packets == {"direct", "ss", "ss2022", "ss2022-chain"}

ASSUME UdpAssumption ==
    /\ UdpKinds \subseteq Streams \union Packets
    /\ Sizes \subseteq Nat
    /\ MaxUp \in Nat /\ MaxFrames \in Nat /\ MaxPackets \in Nat

VARIABLES
    node,
    offered, queue, inbound,    \* the client: datagrams so far, downstream_rx, its sender
    sizes,                      \* the datagrams the upstream has sent
    network,                    \* UDP: packets under way, <<outer id, inner id>>
    wire, ended,                \* stream: units under way; the upstream has closed
    buffer,                     \* stream: units at the socket
    headerPending,              \* response_pending, ~header_read
    partial,                    \* what the read_datagram future has consumed
    dropped,                    \* a future was dropped inside a frame
    counter,                    \* VmessReader::counter
    outer, inner,               \* the replay windows of the two sessions
    writing,                    \* a write to the upstream is awaited
    given,                      \* the datagrams sent to the client; 0: not one of the upstream's
    outcome

clientVars == <<offered, queue, inbound>>
upstreamVars == <<sizes, network, wire, ended>>
readVars == <<buffer, headerPending, partial, dropped, counter, outer, inner>>
udpVars == <<node, clientVars, upstreamVars, readVars, writing, given, outcome>>

UdpInit ==
    /\ node \in UdpKinds
    /\ offered = 0 /\ queue = <<>> /\ inbound = "open"
    /\ sizes = <<>> /\ network = {} /\ wire = <<>> /\ ended = FALSE
    /\ buffer = <<>> /\ partial = <<>> /\ dropped = FALSE /\ counter = 0
    /\ headerPending = (node \in {"vless", "vmess"})
    /\ outer = NewWindow /\ inner = NewWindow
    /\ writing = FALSE /\ given = <<>> /\ outcome = "open"

Associated == outcome = "open"
Waiting == Associated /\ ~writing

-----------------------------------------------------------------------------
(* Framing *)

Unit(what, val, of) == [what |-> what, val |-> val, of |-> of]

Payload(i, size) == [k \in 1 .. size |-> Unit("data", 1, i)]

(* The frames of the far side: udp_frame (VLESS) and encrypt_chunk (VMess) *)
(* write a length before the payload, udp_packet (Trojan) an address, a    *)
(* length and a delimiter.  VLESS and VMess answer with a header first.    *)
UdpFrame(i, size) == <<Unit("length", size, i)>> \o Payload(i, size)

UdpPacket(i, size) ==
    <<Unit("address", 1, i), Unit("length", size, i), Unit("crlf", 13, i)>>
        \o Payload(i, size)

Frame(i, size) == IF node = "trojan" THEN UdpPacket(i, size) ELSE UdpFrame(i, size)

Greeting(i) ==
    IF i = 1 /\ node # "trojan" THEN <<Unit("header", 0, 0), Unit("header", 0, 0)>>
                                ELSE <<>>

More == [state |-> "more"]
Bad == [state |-> "bad"]
Good(n) == [state |-> "good", used |-> n]

(* `prefix` units and the payload they announce, if they are there         *)
Exactly(units, prefix, size) ==
    IF Len(units) < prefix + size THEN More ELSE Good(prefix + size)

(* read_vless_response_header: a version and the length of an addon to     *)
(* skip                                                                    *)
ReadVlessResponseHeader(units) ==
    IF units # <<>> /\ units[1].val # 0 THEN Bad
    ELSE IF Len(units) < 2 THEN More
    ELSE Exactly(units, 2, units[2].val)

(* VmessReader::read_response_header: an AEAD header and the length before *)
(* it                                                                      *)
ReadResponseHeader(units) ==
    IF \E n \in 1 .. Len(units) : n <= 2 /\ units[n].what # "header" THEN Bad
    ELSE Exactly(units, 2, 0)

ReadAnswerHeader(units) ==
    IF node = "vmess" THEN ReadResponseHeader(units) ELSE ReadVlessResponseHeader(units)

(* read_udp_frame                                                          *)
ReadUdpFrame(units) ==
    IF units = <<>> THEN More ELSE Exactly(units, 1, units[1].val)

(* read_udp_packet: the address type and the delimiter are checked.        *)
ReadUdpPacket(units) ==
    IF \/ Len(units) >= 1 /\ units[1].what # "address"
       \/ Len(units) >= 3 /\ units[3].what # "crlf"
    THEN Bad
    ELSE IF Len(units) < 3 THEN More ELSE Exactly(units, 3, units[2].val)

(* VmessReader::read_chunk: length 0 is the end of the stream; what does   *)
(* not decrypt with the next counter is refused.                           *)
ReadChunk(units) ==
    LET chunk == ReadUdpFrame(units)
    IN  IF units # <<>> /\ units[1].val = 0 THEN Bad
        ELSE IF chunk.state = "good" /\ ~ /\ units[1].what = "length"
                                         /\ \A n \in 2 .. chunk.used : units[n].of = counter + 1
        THEN Bad
        ELSE chunk

ReadFrame(units) ==
    CASE node = "vless" -> ReadUdpFrame(units)
      [] node = "trojan" -> ReadUdpPacket(units)
      [] node = "vmess" -> ReadChunk(units)

(* The datagram whose frame was read, or 0 when it was not one frame.      *)
Named(units) ==
    LET ones == {i \in 1 .. Len(sizes) : units = Frame(i, sizes[i])}
    IN  IF ones = {} THEN 0 ELSE CHOOSE i \in ones : TRUE

-----------------------------------------------------------------------------
(* The client, behind the ingress *)

Offer(class) ==
    /\ inbound = "open" /\ offered < MaxUp /\ Associated
    /\ offered' = offered + 1 /\ queue' = Append(queue, class)
    /\ UNCHANGED <<node, inbound, upstreamVars, readVars, writing, given, outcome>>

CloseInbound ==
    /\ inbound = "open"
    /\ inbound' = "closed"
    /\ UNCHANGED <<node, offered, queue, upstreamVars, readVars, writing, given, outcome>>

(* The upstream and the network *)

SendFrame(size) ==
    /\ node \in Streams /\ Len(sizes) < MaxFrames /\ ~ended /\ Associated
    /\ sizes' = Append(sizes, size)
    /\ LET i == Len(sizes) + 1 IN wire' = wire \o Greeting(i) \o Frame(i, size)
    /\ UNCHANGED <<node, clientVars, network, ended, readVars, writing, given, outcome>>

Arrive ==
    /\ wire # <<>> /\ Associated
    /\ \E n \in 1 .. Len(wire) :
          /\ buffer' = buffer \o SubSeq(wire, 1, n)
          /\ wire' = SubSeq(wire, n + 1, Len(wire))
    /\ UNCHANGED <<node, clientVars, sizes, network, ended, headerPending, partial,
                   dropped, counter, outer, inner, writing, given, outcome>>

(* A packet of the final server, in one or, when that leg doubles it, two  *)
(* packets of the underlay.                                                *)
SendPacket ==
    /\ node \in Packets /\ Len(sizes) < MaxPackets /\ Associated
    /\ \E id \in 0 .. Len(sizes) :
          /\ node = "ss2022-chain" \/ id = Len(sizes)
          /\ network' = network \union {<<Len(sizes), id>>}
    /\ sizes' = Append(sizes, 0)
    /\ UNCHANGED <<node, clientVars, wire, ended, readVars, writing, given, outcome>>

Lose == /\ \E p \in network : network' = network \ {p}
        /\ Associated
        /\ UNCHANGED <<node, clientVars, sizes, wire, ended, readVars, writing,
                       given, outcome>>

EndStream ==
    /\ node \in Streams /\ ~ended /\ wire = <<>> /\ Associated
    /\ ended' = TRUE
    /\ UNCHANGED <<node, clientVars, sizes, network, wire, readVars, writing,
                   given, outcome>>

-----------------------------------------------------------------------------
(* udp_step / vless_udp_step / trojan_udp_step / vmess_udp_step *)

(* downstream_rx.recv() is ready: the read future is dropped with what it  *)
(* consumed.  A payload above the chunk limit ends a VMess association;    *)
(* send and write_datagram may fail.                                       *)
TakeDownstream ==
    /\ Waiting /\ queue # <<>>
    /\ queue' = Tail(queue)
    /\ partial' = <<>> /\ dropped' = (dropped \/ partial # <<>>)
    /\ \/ ~(node = "vmess" /\ Head(queue) = "large") /\ writing' = TRUE /\ UNCHANGED outcome
       \/ outcome' = "error" /\ UNCHANGED writing
    /\ UNCHANGED <<node, offered, inbound, upstreamVars, buffer, headerPending,
                   counter, outer, inner, given>>

Written ==
    /\ writing /\ writing' = FALSE
    /\ UNCHANGED <<node, clientVars, upstreamVars, readVars, given, outcome>>

(* None from the channel *)
Gone(upstreamToo) ==
    /\ Waiting /\ queue = <<>> /\ inbound = "closed"
    /\ upstreamToo => ended
    /\ outcome' = "inbound-closed"
    /\ UNCHANGED <<node, clientVars, upstreamVars, readVars, writing, given>>

InboundClosedLate == Gone(TRUE)
InboundClosed == Gone(FALSE)

(* relay_udp_response: the datagram goes to the client, which may fail.    *)
Respond(name) ==
    /\ given' = Append(given, name)
    /\ outcome' \in {outcome, "error"}

(* The read future is polled with what is at the socket.  The flag that    *)
(* the response header has been read outlives the future.                  *)
Polled(greets) ==
    /\ node \in Streams /\ Waiting
    /\ buffer # <<>>
    /\ LET units == partial \o buffer
           head == IF headerPending /\ greets THEN ReadAnswerHeader(units) ELSE Good(0)
           rest == IF head.state = "good" THEN SubSeq(units, head.used + 1, Len(units))
                                          ELSE units
           frame == IF head.state = "good" THEN ReadFrame(rest) ELSE head
       IN  /\ headerPending' = (headerPending /\ head.state # "good")
           /\ CASE frame.state = "more" ->
                     /\ partial' = rest /\ buffer' = <<>>
                     /\ UNCHANGED <<counter, given, outcome>>
                [] frame.state = "bad" ->
                     /\ outcome' = "error"
                     /\ UNCHANGED <<partial, buffer, counter, given>>
                [] frame.state = "good" ->
                     /\ partial' = <<>>
                     /\ buffer' = SubSeq(rest, frame.used + 1, Len(rest))
                     /\ counter' = counter + 1
                     /\ Respond(Named(SubSeq(rest, 1, frame.used)))
    /\ UNCHANGED <<node, clientVars, upstreamVars, dropped, outer, inner, writing>>

PollReaderUngreeted == Polled(FALSE)
PollReader == Polled(TRUE)

(* The end of the stream inside or between frames, a read error            *)
StreamFails ==
    /\ node \in Streams /\ Waiting
    /\ ended /\ buffer = <<>>
    /\ outcome' = "error"
    /\ UNCHANGED <<node, clientVars, upstreamVars, readVars, writing, given>>

Guarded == node \in {"ss2022", "ss2022-chain"}
Chained == node = "ss2022-chain"

(* A packet is received, now or as a duplicate later, and decoded: of a    *)
(* chain the outer session first, whose window moves even if the inner one *)
(* refuses.  A refused packet ends the association.                        *)
RecvPacket ==
    /\ node \in Packets /\ Waiting
    /\ \E p \in network :
          /\ network' \in {network \ {p}} \union
                          (IF Len(given) < MaxPackets THEN {network} ELSE {})
          /\ outer' = IF Guarded /\ Accepts(outer, p[1]) THEN Update(outer, p[1])
                                                         ELSE outer
          /\ inner' = IF Chained /\ Accepts(outer, p[1]) /\ Accepts(inner, p[2])
                      THEN Update(inner, p[2]) ELSE inner
          /\ IF /\ Guarded => Accepts(outer, p[1])
                /\ Chained => Accepts(inner, p[2])
             THEN Respond(p[2])
             ELSE outcome' = "error" /\ UNCHANGED given
    /\ UNCHANGED <<node, clientVars, sizes, wire, ended, buffer, headerPending,
                   partial, dropped, counter, writing>>

(* recv fails: UdpStep::Closed, as when the client is gone; a packet that  *)
(* does not decrypt ends a Shadowsocks association.                        *)
RecvFails ==
    /\ node \in Packets /\ Waiting
    /\ outcome' \in {"inbound-closed"} \union (IF node = "direct" THEN {} ELSE {"error"})
    /\ UNCHANGED <<node, clientVars, upstreamVars, readVars, writing, given>>

(* time::timeout polls the step first: nothing was ready.                  *)
IdleTimeout ==
    /\ Waiting
    /\ queue = <<>> /\ inbound = "open" /\ buffer = <<>>
    /\ outcome' = "idle-timeout"
    /\ UNCHANGED <<node, clientVars, upstreamVars, readVars, writing, given>>

Dissociated == ~Associated /\ inbound = "closed" /\ UNCHANGED udpVars

UdpNext ==
    \/ \E class \in {"plain", "large"} : Offer(class)
    \/ \E size \in Sizes : SendFrame(size)
    \/ CloseInbound \/ Arrive \/ SendPacket \/ Lose \/ EndStream
    \/ TakeDownstream \/ Written \/ InboundClosed
    \/ PollReader \/ StreamFails \/ RecvPacket \/ RecvFails
    \/ IdleTimeout \/ Dissociated

(* The loop is a task that tokio keeps polling; select! picks its branches *)
(* at random, so a ready channel is not passed over for ever.  A write is  *)
(* assumed to return: the far side of the stream keeps reading.            *)
UdpFairness ==
    WF_udpVars(TakeDownstream) /\ WF_udpVars(Written) /\ WF_udpVars(InboundClosed)

UdpSpec == UdpInit /\ [][UdpNext]_udpVars
UdpFairSpec == UdpSpec /\ UdpFairness

-----------------------------------------------------------------------------
(* What udp_frame_roundtrip and reads_udp_packet_payload assert of one     *)
(* frame, for a relay: the datagrams framed on a stream reach the client   *)
(* whole, in order and without a gap (read_datagram, relay_udp).           *)
FramesInOrder == node \in Streams => \A i \in DOMAIN given : given[i] = i

(* ... however the frames are cut up on the way and whatever the client    *)
(* sends, as long as no datagram of the client comes in the middle of one. *)
InOrderUnlessDropped == ~dropped => FramesInOrder

(* Whatever the network doubles or reorders, no packet of a Shadowsocks    *)
(* 2022 session reaches the client twice (ReplayWindow::check_and_update). *)
NoReplay ==
    Guarded =>
        \A i, j \in DOMAIN given : i # j => given[i] # given[j]

(* When the ingress drops its sender, the association ends: the datagrams  *)
(* that are still queued are sent first, and nothing the upstream does     *)
(* keeps the loop alive.                                                   *)
InboundCloseEnds == inbound = "closed" ~> outcome # "open"
=============================================================================
