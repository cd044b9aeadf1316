--------------------------- MODULE RealitySession ---------------------------
(***************************************************************************)
(* The REALITY client of the VLESS prototype: RealityClientConnection      *)
(* (TLS 1.3 handshake, record decryption, record sealing), the two         *)
(* SlideBuffers it reads into, perform_reality_handshake and the           *)
(* RealityStream that polls the connection afterwards.                     *)
(*                                                                         *)
(* What the server sends is a `server' record: recs is the sequence of its *)
(* TLS records, ends[i] the stream position after record i, data[i] the    *)
(* application bytes in records 1..i, limit the bytes it sends before its  *)
(* FIN, and flight the handshake plaintext of an honest server.  TCP       *)
(* delivers that stream in pieces of any size.  Bytes are scaled units;    *)
(* ciphertext and plaintext buffers are the offsets of SlideBuffer, since  *)
(* their contents are always the next bytes of the stream.                 *)
(*                                                                         *)
(* A poll of the stream is atomic for the caller: `phase' keeps any other  *)
(* poll out while a read is inside its loop.                               *)
(***************************************************************************)
EXTENDS Integers, Sequences

CONSTANTS Servers,          \* the server streams a connection may meet
          MaxRecord,        \* TLS_MAX_RECORD_SIZE
          HandshakeRead,    \* HANDSHAKE_BUFFER_SIZE
          CompactAt,        \* threshold of maybe_compact
          MaxIterations,    \* bound of the handshake loop (100)
          MaxPlain,         \* MAX_TLS_PLAINTEXT_LEN, for records we seal
          Overhead,         \* header, content type and tag of a record
          MaxBytes          \* bound: application bytes written

ASSUME SizesAssumption ==
    /\ MaxRecord \in Nat \ {0}
    /\ HandshakeRead \in 1 .. MaxRecord
    /\ CompactAt \in Nat
    /\ MaxIterations \in Nat
    /\ MaxPlain \in Nat \ {0}
    /\ Overhead \in Nat \ {0}
    /\ MaxBytes \in Nat

(* A server's records are no longer than TLS 1.3 allows, and the data of a *)
(* record is shorter than the record.                                      *)
ASSUME ServersAssumption ==
    \A s \in Servers :
        LET N == Len(s.recs) IN
        /\ N \in Nat
        /\ s.ends \in [0 .. N -> Nat] /\ s.data \in [0 .. N -> Nat]
        /\ s.ends[0] = 0 /\ s.data[0] = 0
        /\ \A i \in 1 .. N :
              /\ s.ends[i] - s.ends[i-1] \in 1 .. MaxRecord
              /\ s.data[i] - s.data[i-1] \in 0 .. (s.ends[i] - s.ends[i-1] - 1)
        /\ s.limit \in 0 .. s.ends[N]

VARIABLES
    server,     \* the stream this connection receives
    phase,      \* connect, await, feeding: in perform_reality_handshake; open: between
                \* two polls; polling, filling: in poll_read; failed, panicked
    iteration,  \* perform_reality_handshake's counter (0 outside its loop)
    hs,         \* HandshakeState
    flight,     \* the fields of HandshakeState::ProcessingHandshake
    received,   \* bytes read_tls has taken from the socket
    done,       \* records consumed
    cbuf,       \* ciphertext_read_buf: [start, end]
    pbuf,       \* plaintext_read_buf
    readSeq, closeNotify,
    state,      \* StreamState, as the two closed halves
    delivered,  \* application bytes poll_read returned
    sealed,     \* records sealed since the handshake, in order
    outLen,     \* bytes of ciphertext_write_buf
    needFlush,
    accepted,   \* application bytes poll_write took
    tcpShut     \* poll_shutdown reached the socket

recvVars == <<hs, flight, received, done, cbuf, pbuf, readSeq, closeNotify>>
sendVars == <<sealed, outLen, needFlush, accepted, tcpShut>>
vars == <<server, phase, iteration, recvVars, state, delivered, sendVars>>

-----------------------------------------------------------------------------
(* SlideBuffer: offsets into a fixed array of 2 * MaxRecord.               *)

Capacity == 2 * MaxRecord

NewBuffer == [start |-> 0, end |-> 0]

BufLen(b) == b.end - b.start

RemainingCapacity(b) == Capacity - b.end

ExtendFromSlice(b, n) == [b EXCEPT !.end = @ + n]

Consume(b, n) ==
    IF b.start + n >= b.end THEN NewBuffer ELSE [b EXCEPT !.start = @ + n]

Compact(b) == [start |-> 0, end |-> BufLen(b)]

MaybeCompact(b) == IF b.start > CompactAt THEN Compact(b) ELSE b

-----------------------------------------------------------------------------
(* The handshake messages inside the decrypted records.                    *)

EncryptedExtensions == 8
Certificate == 11
CertificateVerify == 15
Finished == 20

NoOffset == -1
NewFlight == [seq |-> 0, acc |-> <<>>, found |-> 0, cert |-> FALSE,
              cv |-> NoOffset, error |-> FALSE]

(* A certificate's first body unit is 1 when its HMAC verifies; the unit   *)
(* of a CertificateVerify is the length of the transcript it signs.        *)
VerifyCertificateHmac(body) == body # <<>> /\ body[1] = 1

(* extract_certificate_verify_signature and its verification, over the     *)
(* transcript up to the message.                                           *)
VerifySignature(acc, offset) ==
    acc[offset + 2] >= 1 /\ acc[offset + 3] = offset

(* One turn of the loop over the messages of accumulated_plaintext.        *)
(* p.offset is where it parses; units are type, length, body.              *)
ParseMessage(acc, p) ==
    LET type == acc[p.offset + 1]
        end  == p.offset + 2 + acc[p.offset + 2]
        body == SubSeq(acc, p.offset + 3, end)
        bad  == type = Certificate /\ ~VerifyCertificateHmac(body)
    IN  IF \/ p.error \/ p.stop \/ p.found >= 4
           \/ p.offset + 2 > Len(acc)
           \/ end > Len(acc)
        THEN [p EXCEPT !.stop = TRUE]
        ELSE [p EXCEPT !.offset = end,
                       !.found  = @ + 1,
                       !.cert   = @ \/ (type = Certificate /\ ~bad),
                       !.cv     = IF type = CertificateVerify THEN p.offset ELSE @,
                       !.error  = bad]

(* The record's plaintext is appended and parsed from where it starts.     *)
ParseRecord(f, body) ==
    LET acc == f.acc \o body
        parsed[n \in 0 .. 4] ==
            IF n = 0
            THEN [offset |-> Len(f.acc), found |-> f.found, cert |-> f.cert,
                  cv |-> f.cv, error |-> FALSE, stop |-> FALSE]
            ELSE ParseMessage(acc, parsed[n - 1])
        p   == parsed[4]
    IN  [seq |-> f.seq + 1, acc |-> acc, found |-> p.found, cert |-> p.cert,
         cv |-> p.cv, error |-> p.error]

(* The checks once four messages were found.                               *)
Authenticated(f) ==
    f.cert /\ f.cv # NoOffset /\ VerifySignature(f.acc, f.cv)

-----------------------------------------------------------------------------
Init ==
    /\ server \in Servers
    /\ phase = "connect" /\ iteration = 0
    /\ hs = "hello" /\ flight = NewFlight
    /\ received = 0 /\ done = 0
    /\ cbuf = NewBuffer /\ pbuf = NewBuffer
    /\ readSeq = 0 /\ closeNotify = FALSE
    /\ state = [read |-> TRUE, write |-> TRUE] /\ delivered = 0
    /\ sealed = <<>> /\ outLen = Overhead      \* generate_client_hello
    /\ needFlush = FALSE /\ accepted = 0 /\ tcpShut = FALSE

ReadInto(b, n) ==
    /\ n <= server.limit - received
    /\ received' = received + n
    /\ cbuf' = ExtendFromSlice(b, n)
    /\ UNCHANGED <<hs, flight, done, pbuf, readSeq, closeNotify>>

ReadTlsInPlace(n) == ReadInto(cbuf, n)

(* read_tls, which compacts first when a full record might not fit.        *)
ReadTls(n) ==
    ReadInto(IF RemainingCapacity(cbuf) < MaxRecord THEN Compact(cbuf) ELSE cbuf, n)

(* The top of the handshake loop: write everything, flush, and leave once  *)
(* the handshake is complete.                                              *)
HandshakeRound ==
    /\ phase = "connect"
    /\ IF iteration >= MaxIterations
       THEN phase' = "failed" /\ UNCHANGED outLen
       ELSE /\ outLen' = 0
            /\ phase' = IF hs = "complete" THEN "open" ELSE "await"
    /\ iteration' = IF phase' = "await" THEN iteration + 1 ELSE 0
    /\ UNCHANGED <<server, recvVars, state, delivered, sealed, needFlush,
                   accepted, tcpShut>>

HandshakeReadSome ==
    /\ phase = "await" /\ phase' = "feeding"
    /\ \E n \in 1 .. HandshakeRead : ReadTls(n)
    /\ UNCHANGED <<server, iteration, state, delivered, sendVars>>

HandshakeEof ==
    /\ phase = "await" /\ phase' = "failed"
    /\ received = server.limit
    /\ UNCHANGED <<server, iteration, recvVars, state, delivered, sendVars>>

-----------------------------------------------------------------------------
(* process_new_packets, a record at a time.                                *)

Record == server.recs[done + 1]
RecordLen == server.ends[done + 1] - server.ends[done]
HasRecord == done < Len(server.recs) /\ BufLen(cbuf) >= RecordLen

ConsumeRecord ==
    done' = done + 1 /\ cbuf' = Consume(cbuf, RecordLen)

(* process_new_packets returns to the handshake loop or to poll_read.      *)
Returned == IF phase = "feeding" THEN "connect" ELSE "polling"

(* An error is returned to the handshake, or by poll_read after it tried   *)
(* to drain the pending writes; either ends the connection.                *)
ProcessFails ==
    /\ phase' = "failed"
    /\ IF phase = "feeding" THEN UNCHANGED outLen ELSE outLen' \in 0 .. outLen
    /\ UNCHANGED <<sealed, needFlush, accepted, tcpShut>>

ProcessServerHello ==
    /\ hs = "hello" /\ ConsumeRecord
    /\ IF Record.outer = "hello"
       THEN /\ hs' = "encrypted" /\ flight' = NewFlight
            /\ UNCHANGED <<phase, sendVars>>
       ELSE ProcessFails /\ UNCHANGED <<hs, flight>>
    /\ UNCHANGED <<received, pbuf, readSeq, closeNotify>>

Opens(key, seq) ==
    Record.outer = "app" /\ Record.key = key /\ Record.seq = seq /\ Record.inner # "zeros"

(* The four messages are in: queue the client's Finished and switch to the *)
(* application keys, or refuse the server.                                 *)
Finish(verified) ==
    IF verified
    THEN /\ hs' = "complete" /\ readSeq' = 0
         /\ outLen' = outLen + Overhead
         /\ UNCHANGED <<phase, sealed, needFlush, accepted, tcpShut>>
    ELSE ProcessFails /\ UNCHANGED <<hs, readSeq>>

FinishUnsigned(f) == Finish(f.cert)

FinishHandshake(f) == Finish(Authenticated(f))

ProcessEncryptedHandshake ==
    /\ hs = "encrypted"
    /\ CASE Record.outer = "ccs" ->
              ConsumeRecord /\ UNCHANGED <<phase, hs, flight, readSeq, sendVars>>
         [] Record.outer = "hello" ->
              ProcessFails /\ UNCHANGED <<done, cbuf, hs, flight, readSeq>>
         [] Record.outer = "app" /\ ~Opens("hs", flight.seq) ->
              ConsumeRecord /\ ProcessFails /\ UNCHANGED <<hs, flight, readSeq>>
         [] OTHER ->
              /\ ConsumeRecord
              /\ flight' = ParseRecord(flight, Record.body)
              /\ IF flight'.error
                 THEN ProcessFails /\ UNCHANGED <<hs, readSeq>>
                 ELSE IF flight'.found < 4
                 THEN UNCHANGED <<phase, hs, readSeq, sendVars>>
                 ELSE FinishHandshake(flight')
    /\ UNCHANGED <<received, pbuf, closeNotify>>

(* One record of process_application_data.  A close_notify is left in the  *)
(* buffer and ends the processing.  An inner handshake record, which the   *)
(* decryptor lets through, meets unreachable!.                             *)
ProcessApplicationData ==
    /\ hs = "complete"
    /\ IF ~Opens("app", readSeq)
       THEN ProcessFails /\ UNCHANGED <<done, cbuf, pbuf, readSeq, closeNotify>>
       ELSE /\ readSeq' = readSeq + 1
            /\ CASE Record.inner = "data" ->
                      /\ pbuf' = ExtendFromSlice(MaybeCompact(pbuf),
                                                 server.data[done + 1] - server.data[done])
                      /\ ConsumeRecord
                      /\ UNCHANGED <<phase, closeNotify, sendVars>>
                 [] Record.inner = "warning" ->
                      ConsumeRecord /\ UNCHANGED <<phase, pbuf, closeNotify, sendVars>>
                 [] Record.inner = "close" ->
                      /\ closeNotify' = TRUE /\ phase' = Returned
                      /\ UNCHANGED <<done, cbuf, pbuf, sendVars>>
                 [] Record.inner = "fatal" ->
                      ProcessFails /\ UNCHANGED <<done, cbuf, pbuf, closeNotify>>
                 [] OTHER ->
                      /\ phase' = "panicked"
                      /\ UNCHANGED <<done, cbuf, pbuf, closeNotify, sendVars>>
    /\ UNCHANGED <<hs, flight, received>>

ProcessPartial ==
    /\ ~HasRecord /\ phase' = Returned
    /\ UNCHANGED <<recvVars, sendVars>>

ProcessNewPackets ==
    /\ phase \in {"feeding", "filling"}
    /\ \/ ProcessPartial
       \/ HasRecord /\ ProcessServerHello
       \/ HasRecord /\ ProcessEncryptedHandshake
       \/ HasRecord /\ ProcessApplicationData
    /\ UNCHANGED <<server, iteration, state, delivered>>

-----------------------------------------------------------------------------
(* RealityStream::poll_read.                                               *)

WantsRead == ~closeNotify /\ BufLen(pbuf) = 0

PollRead ==
    /\ phase = "open" /\ state.read /\ phase' = "polling"
    /\ UNCHANGED <<server, iteration, recvVars, state, delivered, sendVars>>

PollReadMore ==
    /\ phase = "polling" /\ WantsRead /\ phase' = "filling"
    /\ \E n \in 1 .. MaxRecord : ReadTls(n)
    /\ UNCHANGED <<server, iteration, state, delivered, sendVars>>

PollReadPending ==
    /\ phase = "polling" /\ WantsRead /\ phase' = "open"
    /\ UNCHANGED <<server, iteration, recvVars, state, delivered, sendVars>>

(* The socket's end of stream, with nothing left to deliver.               *)
PollReadEof ==
    /\ phase = "polling" /\ WantsRead /\ phase' = "open"
    /\ received = server.limit
    /\ state' = [state EXCEPT !.read = FALSE]
    /\ UNCHANGED <<server, iteration, recvVars, delivered, sendVars>>

(* The end of poll_read: hand over buffered bytes, or report the end.      *)
ReadReturns(hasData) ==
    /\ phase = "polling" /\ ~WantsRead /\ phase' = "open"
    /\ LET b == MaybeCompact(pbuf) IN
       IF hasData
       THEN \E room \in 1 .. BufLen(b) :
               /\ pbuf' = Consume(b, room)
               /\ delivered' = delivered + room
               /\ UNCHANGED state
       ELSE /\ state' = [state EXCEPT !.read = FALSE]
            /\ pbuf' = b /\ UNCHANGED delivered
    /\ UNCHANGED <<server, iteration, hs, flight, received, done, cbuf, readSeq,
                   closeNotify, sendVars>>

PollReadCloseFirst == ReadReturns(~closeNotify)

(* RealityReader::fill_buf: data first, then the end close_notify marks.   *)
PollReadReturn == ReadReturns(BufLen(pbuf) > 0)

-----------------------------------------------------------------------------
(* Sealing: encrypt_app_data cuts what is pending into records.            *)

Least(a, b) == IF a <= b THEN a ELSE b

Fragments(n) ==
    [i \in 1 .. (n + MaxPlain - 1) \div MaxPlain |->
        [kind |-> "data", seq |-> Len(sealed) + i - 1,
         len |-> Least(MaxPlain, n - (i - 1) * MaxPlain)]]

SealedLen(n) == n + Overhead * Len(Fragments(n))

CloseNotify == [kind |-> "close", seq |-> Len(sealed), len |-> 0]

(* poll_write seals all it is given, then writes what the socket takes.    *)
PollWrite ==
    /\ phase = "open" /\ state.write
    /\ \E n \in 1 .. MaxBytes - accepted :
          /\ accepted' = accepted + n
          /\ sealed' = sealed \o Fragments(n)
          /\ outLen' \in 0 .. outLen + SealedLen(n)
    /\ needFlush' = TRUE
    /\ UNCHANGED <<server, phase, iteration, recvVars, state, delivered, tcpShut>>

PollFlush ==
    /\ phase = "open"
    /\ outLen' \in 0 .. outLen
    /\ LET wrote == needFlush \/ outLen' < outLen IN
       IF outLen' > 0 THEN needFlush' = wrote ELSE needFlush' \in {wrote, FALSE}
    /\ UNCHANGED <<server, phase, iteration, recvVars, state, delivered, sealed,
                   accepted, tcpShut>>

(* poll_shutdown: drain, close_notify once, drain, shut the socket; the    *)
(* socket may stop taking bytes in either drain.                           *)
PollShutdown ==
    LET notify == state.write IN
    /\ phase = "open" /\ ~tcpShut
    /\ \/ /\ outLen' \in 1 .. outLen
          /\ UNCHANGED <<state, sealed, tcpShut>>
       \/ /\ sealed' = IF notify THEN Append(sealed, CloseNotify) ELSE sealed
          /\ state' = [state EXCEPT !.write = FALSE]
          /\ outLen' \in 0 .. IF notify THEN Overhead ELSE 0
          /\ tcpShut' = (outLen' = 0)
    /\ UNCHANGED <<server, phase, iteration, recvVars, delivered, needFlush, accepted>>

(* The relay ended: with an error, or with both halves closed.             *)
Over ==
    /\ phase \in {"failed", "panicked"}
    /\ UNCHANGED vars

Next ==
    \/ HandshakeRound \/ HandshakeReadSome \/ HandshakeEof
    \/ ProcessNewPackets
    \/ PollRead \/ PollReadMore \/ PollReadPending \/ PollReadEof \/ PollReadReturn
    \/ PollWrite \/ PollFlush \/ PollShutdown
    \/ Over

Spec == Init /\ [][Next]_vars
-----------------------------------------------------------------------------
(* Neither SlideBuffer is ever filled past its fixed array, whatever sizes *)
(* the socket delivers and however many records one read completes:        *)
(* extend_from_slice, which would panic, always has room.                  *)
BuffersFit ==
    /\ cbuf.start <= cbuf.end /\ cbuf.end <= Capacity
    /\ pbuf.start <= pbuf.end /\ pbuf.end <= Capacity

(* The handshake completes only against a server that proved itself, and   *)
(* then with the transcript the server has: the application keys agree.    *)
HandshakeSound ==
    hs = "complete" => server.honest /\ flight.acc = server.flight

(* The two directions are faithful.  poll_read returns the application     *)
(* bytes of every record that was opened, exactly once, and reports the    *)
(* end of the stream only when none is left in the plaintext buffer and no *)
(* whole record is left unopened.  What is sealed after the handshake is   *)
(* every byte poll_write accepted, under consecutive sequence numbers, and *)
(* at most one close_notify behind all of it; the socket is shut only when *)
(* all of that was written.                                                *)
StreamFaithful ==
    /\ hs = "complete" => delivered + BufLen(pbuf) = server.data[done]
    /\ ~state.read => /\ BufLen(pbuf) = 0
                      /\ HasRecord => Record.inner = "close"
    /\ \A i \in 1 .. Len(sealed) : /\ sealed[i].seq = i - 1
                                   /\ sealed[i].kind = "close" => i = Len(sealed)
                                   /\ sealed[i].len <= MaxPlain
    /\ LET total[i \in 0 .. Len(sealed)] ==
              IF i = 0 THEN 0 ELSE total[i - 1] + sealed[i].len
       IN  total[Len(sealed)] = accepted
    /\ tcpShut => outLen = 0 /\ sealed # <<>> /\ sealed[Len(sealed)].kind = "close"
=============================================================================
