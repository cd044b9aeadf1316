-------------------------- MODULE Protocols_proofs ---------------------------
(***************************************************************************)
(* Proofs about two protocols that dynet speaks as a client.               *)
(*                                                                         *)
(* RealitySession, for every size of records and reads and every stream of *)
(* the server: neither SlideBuffer overflows.  What bounds a buffer is what*)
(* the step before left in it.                                             *)
(*                                                                         *)
(* DnsResolver, for every set of upstreams, domains, routing tables and    *)
(* callers: a fake answer is the last resort, and a denied domain gets no  *)
(* IPv6 address.                                                           *)
(***************************************************************************)
EXTENDS RealitySession, DnsResolver, TLAPS

Buffer == [start : Nat, end : Nat]

Processing == phase \in {"feeding", "filling"}

(* The offsets are in order and an empty buffer starts at 0.               *)
WellFormed(b) ==
    /\ b \in Buffer /\ b.start <= b.end
    /\ b.start = b.end => b.end = 0

ReceiveTypeOK ==
    /\ server \in Servers
    /\ done \in 0 .. Len(server.recs) /\ received \in Nat
    /\ WellFormed(cbuf) /\ WellFormed(pbuf)

(* What is buffered are the bytes received after the consumed records.     *)
Position ==
    /\ received <= server.limit
    /\ BufLen(cbuf) = received - server.ends[done]

(* Outside processing less than a record is left, until the connection is  *)
(* closed by the peer or failed.                                           *)
Leftover ==
    /\ phase \in {"connect", "await", "open", "polling"} /\ ~closeNotify
          => BufLen(cbuf) < MaxRecord

(* While records are processed, plaintext and ciphertext fit together.     *)
Room == Processing => pbuf.end + BufLen(cbuf) < Capacity

(* No plaintext and no close_notify before the handshake is complete.      *)
Handshaking ==
    /\ phase = "await" => hs # "complete"
    /\ hs # "complete" => pbuf = NewBuffer /\ ~closeNotify

Fits == cbuf.end <= Capacity /\ pbuf.end <= Capacity

IInv == ReceiveTypeOK /\ Position /\ Leftover /\ Room /\ Handshaking /\ Fits

-----------------------------------------------------------------------------
(* SlideBuffer: what the operations do to the offsets.                     *)
LEMMA ExtendFacts ==
    ASSUME NEW b, WellFormed(b), NEW n \in Nat
    PROVE  /\ WellFormed(ExtendFromSlice(b, n))
           /\ ExtendFromSlice(b, n).end = b.end + n
           /\ BufLen(ExtendFromSlice(b, n)) = BufLen(b) + n
BY DEF WellFormed, Buffer, ExtendFromSlice, BufLen

LEMMA CompactFacts ==
    ASSUME NEW b, WellFormed(b)
    PROVE  /\ WellFormed(Compact(b))
           /\ Compact(b).end = BufLen(b) /\ BufLen(Compact(b)) = BufLen(b)
           /\ Compact(b).end <= b.end
BY DEF WellFormed, Buffer, Compact, BufLen

LEMMA MaybeCompactFacts ==
    ASSUME NEW b, WellFormed(b)
    PROVE  /\ WellFormed(MaybeCompact(b))
           /\ BufLen(MaybeCompact(b)) = BufLen(b)
           /\ MaybeCompact(b).end <= b.end
<1>1. CASE b.start > CompactAt
  BY <1>1, CompactFacts DEF MaybeCompact
<1>2. CASE ~(b.start > CompactAt)
  BY <1>2 DEF MaybeCompact, WellFormed, Buffer
<1> QED BY <1>1, <1>2

LEMMA ConsumeFacts ==
    ASSUME NEW b, WellFormed(b), NEW n \in Nat, n <= BufLen(b)
    PROVE  /\ WellFormed(Consume(b, n))
           /\ BufLen(Consume(b, n)) = BufLen(b) - n
           /\ Consume(b, n).end <= b.end
BY DEF WellFormed, Buffer, Consume, NewBuffer, BufLen

LEMMA NewBufferFacts == WellFormed(NewBuffer) /\ BufLen(NewBuffer) = 0 /\ NewBuffer.end = 0
BY DEF WellFormed, Buffer, NewBuffer, BufLen

(* A record of the stream, as the assumptions on servers give it.          *)
LEMMA RecordFacts ==
    ASSUME ReceiveTypeOK, Position
    PROVE  /\ received \in Nat /\ server.ends[done] \in Nat
           /\ BufLen(cbuf) \in Nat
           /\ done < Len(server.recs) =>
                /\ done + 1 \in 0 .. Len(server.recs)
                /\ RecordLen \in 1 .. MaxRecord
                /\ server.ends[done + 1] = server.ends[done] + RecordLen
                /\ server.data[done + 1] - server.data[done] \in 0 .. (RecordLen - 1)
           /\ ~HasRecord => BufLen(cbuf) < MaxRecord
<1> DEFINE N == Len(server.recs)
<1>1. /\ N \in Nat /\ server.ends \in [0 .. N -> Nat] /\ server.data \in [0 .. N -> Nat]
      /\ \A i \in 1 .. N :
            /\ server.ends[i] - server.ends[i-1] \in 1 .. MaxRecord
            /\ server.data[i] - server.data[i-1] \in 0 .. (server.ends[i] - server.ends[i-1] - 1)
      /\ server.limit \in 0 .. server.ends[N]
  BY ServersAssumption DEF ReceiveTypeOK
<1>2. done \in 0 .. N /\ received \in Nat
  BY DEF ReceiveTypeOK
<1>3. server.ends[done] \in Nat /\ BufLen(cbuf) \in Nat
  <2>1. server.ends[done] \in Nat
    BY Zenon, <1>1, <1>2
  <2>2. BufLen(cbuf) \in Nat
    BY DEF ReceiveTypeOK, WellFormed, Buffer, BufLen
  <2> QED BY <2>1, <2>2
<1>4. ASSUME done < N
      PROVE  /\ done + 1 \in 0 .. N
             /\ RecordLen \in 1 .. MaxRecord
             /\ server.ends[done + 1] = server.ends[done] + RecordLen
             /\ server.data[done + 1] - server.data[done] \in 0 .. (RecordLen - 1)
  <2>1. done + 1 \in 1 .. N /\ (done + 1) - 1 = done
    BY <1>1, <1>2, <1>4
  <2>2. server.ends[done + 1] \in Nat
    BY <2>1, <1>1
  <2>3. /\ server.ends[done + 1] - server.ends[done] \in 1 .. MaxRecord
        /\ server.data[done + 1] - server.data[done]
              \in 0 .. (server.ends[done + 1] - server.ends[done] - 1)
    BY <2>1, <1>1
  <2>4. RecordLen = server.ends[done + 1] - server.ends[done]
    BY DEF RecordLen
  <2>5. RecordLen \in 1 .. MaxRecord
    BY <2>3, <2>4
  <2>6. server.ends[done + 1] = server.ends[done] + RecordLen
    BY <2>2, <2>4, <1>3
  <2>7. server.data[done + 1] - server.data[done] \in 0 .. (RecordLen - 1)
    BY <2>3, <2>4
  <2> QED BY <2>1, <2>5, <2>6, <2>7, <1>1
<1>5. ASSUME ~HasRecord PROVE BufLen(cbuf) < MaxRecord
  <2>1. CASE done < N
    BY <2>1, <1>3, <1>4, <1>5, SizesAssumption DEF HasRecord
  <2>2. CASE ~(done < N)
    <3>1. done = N
      BY <2>2, <1>1, <1>2
    <3>2. received <= server.ends[done]
      BY <3>1, <1>1, <1>2, <1>3 DEF Position
    <3> QED BY <3>2, <1>2, <1>3, SizesAssumption DEF Position
  <2> QED BY <2>1, <2>2
<1> QED BY <1>2, <1>3, <1>4, <1>5
-----------------------------------------------------------------------------
(* A step that moves no byte keeps the invariant when it does not enter    *)
(* processing, and waits for the handshake only before its end.            *)
LEMMA QuietStep ==
    ASSUME IInv, UNCHANGED <<server, recvVars>>,
           phase' \in {"connect", "await", "open", "polling"} =>
               phase \in {"connect", "await", "open", "polling"},
           Processing' => Processing,
           phase' = "await" => hs # "complete"
    PROVE  IInv'
<1>1. ReceiveTypeOK' /\ Position' /\ Fits'
  BY DEF IInv, recvVars, ReceiveTypeOK, Position, Fits, BufLen
<1>2. Leftover'
  BY DEF IInv, recvVars, Leftover, BufLen
<1>3. Room'
  BY DEF IInv, recvVars, Room, BufLen
<1>4. Handshaking'
  BY DEF IInv, recvVars, Handshaking, NewBuffer
<1> QED BY <1>1, <1>2, <1>3, <1>4 DEF IInv

(* read_tls into a connection with no plaintext pending.                   *)
LEMMA ReadStep ==
    ASSUME IInv, NEW n \in 1 .. MaxRecord, ReadTls(n), UNCHANGED server,
           phase \in {"await", "polling"}, phase' \in {"feeding", "filling"},
           ~closeNotify, BufLen(pbuf) = 0
    PROVE  IInv'
<1> DEFINE b == IF RemainingCapacity(cbuf) < MaxRecord THEN Compact(cbuf) ELSE cbuf
<1>0. MaxRecord \in Nat \ {0} /\ Capacity = 2 * MaxRecord
  BY SizesAssumption DEF Capacity
<1>1. /\ n <= server.limit - received /\ received' = received + n
      /\ cbuf' = ExtendFromSlice(b, n)
      /\ UNCHANGED <<hs, flight, done, pbuf, readSeq, closeNotify>>
  BY DEF ReadTls, ReadInto
<1>2. /\ WellFormed(cbuf) /\ WellFormed(pbuf) /\ server \in Servers
      /\ done \in 0 .. Len(server.recs) /\ received \in Nat
  BY DEF IInv, ReceiveTypeOK
<1>3. BufLen(cbuf) < MaxRecord /\ BufLen(cbuf) \in Nat
  <2>1. BufLen(cbuf) < MaxRecord
    BY DEF IInv, Leftover
  <2>2. BufLen(cbuf) \in Nat
    BY RecordFacts DEF IInv
  <2> QED BY <2>1, <2>2
<1>4. WellFormed(b) /\ BufLen(b) = BufLen(cbuf) /\ b.end <= MaxRecord
  <2>1. CASE RemainingCapacity(cbuf) < MaxRecord
    <3>1. b = Compact(cbuf)
      BY <2>1
    <3> QED BY <3>1, <1>0, <1>2, <1>3, CompactFacts
  <2>2. CASE ~(RemainingCapacity(cbuf) < MaxRecord)
    <3>1. b = cbuf
      BY <2>2
    <3>2. cbuf.end \in Nat
      BY <1>2 DEF WellFormed, Buffer
    <3>3. cbuf.end <= MaxRecord
      BY <2>2, <3>2, <1>0 DEF RemainingCapacity
    <3> QED BY <3>1, <3>3, <1>2
  <2> QED BY <2>1, <2>2
<1> HIDE DEF b
<1>5. n \in Nat /\ n <= MaxRecord
  BY <1>0
<1>6. /\ WellFormed(cbuf') /\ cbuf'.end = b.end + n
      /\ BufLen(cbuf') = BufLen(cbuf) + n
  BY <1>1, <1>4, <1>5, ExtendFacts
<1>7. pbuf.end = 0
  BY <1>2 DEF WellFormed, Buffer, BufLen
<1>8. ReceiveTypeOK'
  BY <1>1, <1>2, <1>5, <1>6 DEF ReceiveTypeOK
<1>9. Position'
  <2>1. server.limit \in Nat
    BY <1>2, ServersAssumption
  <2>2. server.ends[done] \in Nat /\ BufLen(cbuf) = received - server.ends[done]
    BY RecordFacts DEF IInv, Position
  <2>3. received' <= server.limit
    BY <2>1, <1>1, <1>2, <1>5
  <2>4. BufLen(cbuf') = received' - server.ends[done]
    BY <2>2, <1>1, <1>2, <1>5, <1>6
  <2>5. BufLen(cbuf)' = BufLen(cbuf')
    BY DEF BufLen
  <2> QED BY <2>3, <2>4, <2>5, <1>1 DEF Position
<1>10. Fits'
  <2>1. b.end \in Nat
    BY <1>4 DEF WellFormed, Buffer
  <2> QED BY <2>1, <1>0, <1>1, <1>4, <1>5, <1>6, <1>7 DEF Fits, Capacity
<1>11. Leftover'
  BY DEF Leftover
<1>12. Room'
  <2>1. pbuf'.end + BufLen(cbuf') < Capacity
    BY <1>0, <1>1, <1>3, <1>5, <1>6, <1>7
  <2>2. BufLen(cbuf)' = BufLen(cbuf') /\ Capacity' = Capacity
    BY DEF BufLen, Capacity
  <2> QED BY <2>1, <2>2 DEF Room
<1>13. Handshaking'
  BY <1>1 DEF Handshaking, IInv, NewBuffer
<1> QED BY <1>8, <1>9, <1>10, <1>11, <1>12, <1>13 DEF IInv
-----------------------------------------------------------------------------
(* Consuming a whole record moves the position to the next one.            *)
LEMMA ConsumeRecordStep ==
    ASSUME IInv, HasRecord, ConsumeRecord, UNCHANGED <<server, received>>
    PROVE  /\ done' \in 0 .. Len(server.recs)
           /\ WellFormed(cbuf') /\ cbuf'.end <= Capacity
           /\ BufLen(cbuf') = BufLen(cbuf) - RecordLen
           /\ Position'
<1>1. /\ done < Len(server.recs) /\ BufLen(cbuf) >= RecordLen
      /\ done' = done + 1 /\ cbuf' = Consume(cbuf, RecordLen)
  BY DEF HasRecord, ConsumeRecord
<1>2. /\ received \in Nat /\ server.ends[done] \in Nat /\ BufLen(cbuf) \in Nat
      /\ done + 1 \in 0 .. Len(server.recs) /\ RecordLen \in 1 .. MaxRecord
      /\ server.ends[done + 1] = server.ends[done] + RecordLen
  BY <1>1, RecordFacts DEF IInv
<1>3. RecordLen \in Nat
  BY <1>2, SizesAssumption
<1>4. /\ WellFormed(cbuf') /\ BufLen(cbuf') = BufLen(cbuf) - RecordLen
      /\ cbuf'.end <= cbuf.end
  BY <1>1, <1>2, <1>3, ConsumeFacts DEF IInv, ReceiveTypeOK
<1>5. cbuf'.end <= Capacity
  <2>1. cbuf'.end \in Nat /\ cbuf.end \in Nat /\ cbuf.end <= Capacity /\ Capacity \in Nat
    BY <1>4, SizesAssumption DEF IInv, ReceiveTypeOK, WellFormed, Buffer, Fits, Capacity
  <2> QED BY <2>1, <1>4
<1>6. Position'
  <2>1. received <= server.limit /\ BufLen(cbuf) = received - server.ends[done]
    BY DEF IInv, Position
  <2>2. BufLen(cbuf') = received - server.ends[done + 1]
    BY <2>1, <1>2, <1>3, <1>4
  <2>3. BufLen(cbuf)' = BufLen(cbuf')
    BY DEF BufLen
  <2> QED BY <2>1, <2>2, <2>3, <1>1 DEF Position
<1> QED BY <1>1, <1>2, <1>4, <1>5, <1>6

(* A record that is consumed and adds no plaintext.                        *)
LEMMA SkipRecordStep ==
    ASSUME IInv, Processing, HasRecord, ConsumeRecord,
           UNCHANGED <<server, received, pbuf, closeNotify>>,
           hs = "complete" => hs' = "complete",
           phase' = phase \/ phase' \in {"failed", "panicked"}
    PROVE  IInv'
<1>1. /\ done' \in 0 .. Len(server.recs)
      /\ WellFormed(cbuf') /\ cbuf'.end <= Capacity
      /\ BufLen(cbuf') = BufLen(cbuf) - RecordLen
      /\ Position'
  BY ConsumeRecordStep
<1>2. RecordLen \in 1 .. MaxRecord /\ BufLen(cbuf) \in Nat
  BY RecordFacts DEF IInv, HasRecord
<1>3. MaxRecord \in Nat /\ Capacity \in Nat /\ Capacity' = Capacity
  BY SizesAssumption DEF Capacity
<1>4. ReceiveTypeOK'
  BY <1>1 DEF IInv, ReceiveTypeOK
<1>5. Fits'
  BY <1>1, <1>3 DEF IInv, Fits
<1>6. Leftover'
  BY DEF Leftover, Processing
<1>7. Room'
  <2>1. pbuf.end + BufLen(cbuf) < Capacity /\ pbuf.end \in Nat
    BY DEF IInv, Room, ReceiveTypeOK, WellFormed, Buffer
  <2>2. pbuf.end + BufLen(cbuf') < Capacity
    BY <2>1, <1>1, <1>2, <1>3
  <2>3. BufLen(cbuf)' = BufLen(cbuf')
    BY DEF BufLen
  <2> QED BY <2>2, <2>3, <1>3 DEF Room
<1>8. Handshaking'
  BY DEF IInv, Handshaking, Processing, NewBuffer
<1> QED BY <1>1, <1>4, <1>5, <1>6, <1>7, <1>8 DEF IInv

(* A record of application data: its bytes move from one buffer to the     *)
(* other and shrink on the way.                                            *)
LEMMA DataRecordStep ==
    ASSUME IInv, Processing, HasRecord, ConsumeRecord, hs = "complete",
           pbuf' = ExtendFromSlice(MaybeCompact(pbuf),
                                   server.data[done + 1] - server.data[done]),
           UNCHANGED <<server, received, closeNotify, phase, hs>>
    PROVE  IInv'
<1> DEFINE d == server.data[done + 1] - server.data[done]
<1>1. /\ done' \in 0 .. Len(server.recs)
      /\ WellFormed(cbuf') /\ cbuf'.end <= Capacity
      /\ BufLen(cbuf') = BufLen(cbuf) - RecordLen
      /\ Position'
  BY ConsumeRecordStep
<1>2. /\ RecordLen \in 1 .. MaxRecord /\ BufLen(cbuf) \in Nat
      /\ BufLen(cbuf) >= RecordLen
      /\ d \in 0 .. (RecordLen - 1)
  BY RecordFacts DEF IInv, HasRecord
<1>3. MaxRecord \in Nat /\ Capacity \in Nat /\ Capacity' = Capacity
  BY SizesAssumption DEF Capacity
<1>4. WellFormed(pbuf) /\ pbuf.end \in Nat /\ pbuf.end + BufLen(cbuf) < Capacity
  BY DEF IInv, ReceiveTypeOK, WellFormed, Buffer, Room
<1>5. d \in Nat
  BY <1>2, <1>3
<1> HIDE DEF d
<1>6. WellFormed(MaybeCompact(pbuf)) /\ MaybeCompact(pbuf).end <= pbuf.end
  BY <1>4, MaybeCompactFacts
<1>7. WellFormed(pbuf') /\ pbuf'.end = MaybeCompact(pbuf).end + d
  BY <1>5, <1>6, ExtendFacts DEF d
<1>8. MaybeCompact(pbuf).end \in Nat
  BY <1>6 DEF WellFormed, Buffer
<1>9. pbuf'.end + BufLen(cbuf') < Capacity /\ pbuf'.end <= Capacity
  BY <1>1, <1>2, <1>3, <1>4, <1>5, <1>6, <1>7, <1>8
<1>10. ReceiveTypeOK'
  BY <1>1, <1>7 DEF IInv, ReceiveTypeOK
<1>11. Fits'
  BY <1>1, <1>3, <1>9 DEF Fits
<1>12. Leftover'
  BY DEF Leftover, Processing
<1>13. Room'
  <2>1. BufLen(cbuf)' = BufLen(cbuf')
    BY DEF BufLen
  <2> QED BY <2>1, <1>3, <1>9 DEF Room
<1>14. Handshaking'
  BY DEF Handshaking, Processing
<1> QED BY <1>1, <1>10, <1>11, <1>12, <1>13, <1>14 DEF IInv
(* Processing stops without touching a buffer: nothing whole is left, the  *)
(* peer closed, or the connection failed.                                  *)
LEMMA StopStep ==
    ASSUME IInv, Processing, UNCHANGED <<server, received, done, cbuf, pbuf, hs>>,
           closeNotify' # closeNotify => hs = "complete",
           \/ phase' \in {"failed", "panicked"}
           \/ phase' \in {"connect", "polling"} /\ (closeNotify' \/ BufLen(cbuf) < MaxRecord)
    PROVE  IInv'
<1>1. ReceiveTypeOK' /\ Position' /\ Fits'
  BY DEF IInv, ReceiveTypeOK, Position, Fits, BufLen, Capacity
<1>2. Leftover'
  BY DEF Leftover, BufLen
<1>3. Room'
  BY DEF Room, Processing
<1>4. Handshaking'
  BY DEF IInv, Handshaking, NewBuffer
<1> QED BY <1>1, <1>2, <1>3, <1>4 DEF IInv

LEMMA ProcessStep ==
    ASSUME IInv, ProcessNewPackets
    PROVE  IInv'
<1>0. Processing /\ UNCHANGED server
  BY DEF ProcessNewPackets, Processing
<1>1. CASE ProcessPartial
  <2>1. ~HasRecord /\ phase' \in {"connect", "polling"} /\ UNCHANGED recvVars
    BY <1>1 DEF ProcessPartial, Returned
  <2>2. BufLen(cbuf) < MaxRecord
    BY <2>1, RecordFacts DEF IInv
  <2> QED BY <2>1, <2>2, <1>0, StopStep DEF recvVars
<1>2. CASE HasRecord /\ ProcessServerHello
  <2>1. /\ ConsumeRecord /\ UNCHANGED <<received, pbuf, closeNotify>>
        /\ hs # "complete"
        /\ phase' = phase \/ phase' \in {"failed", "panicked"}
    BY <1>2 DEF ProcessServerHello, ProcessFails
  <2> QED BY <2>1, <1>0, <1>2, SkipRecordStep
<1>3. CASE HasRecord /\ ProcessEncryptedHandshake
  <2>0. hs = "encrypted" /\ UNCHANGED <<received, pbuf, closeNotify>>
    BY <1>3 DEF ProcessEncryptedHandshake
  <2>1. CASE Record.outer = "hello"
    <3>1. ProcessFails /\ UNCHANGED <<done, cbuf, hs, flight, readSeq>>
      BY <2>1, <1>3 DEF ProcessEncryptedHandshake
    <3>2. phase' = "failed"
      BY <3>1 DEF ProcessFails
    <3> QED BY <3>1, <3>2, <2>0, <1>0, StopStep
  <2>2. CASE Record.outer # "hello"
    <3>1. ConsumeRecord
      BY <2>2, <1>3 DEF ProcessEncryptedHandshake
    <3>2. phase' = phase \/ phase' \in {"failed", "panicked"}
      BY <2>2, <1>3 DEF ProcessEncryptedHandshake, FinishHandshake, Finish, ProcessFails
    <3> QED BY <3>1, <3>2, <2>0, <1>0, <1>3, SkipRecordStep
  <2> QED BY <2>1, <2>2
<1>4. CASE HasRecord /\ ProcessApplicationData
  <2>0. hs = "complete" /\ UNCHANGED <<hs, flight, received>>
    BY <1>4 DEF ProcessApplicationData
  <2>1. CASE ~Opens("app", readSeq)
    <3>1. ProcessFails /\ UNCHANGED <<done, cbuf, pbuf, readSeq, closeNotify>>
      BY <2>1, <1>4 DEF ProcessApplicationData
    <3>2. phase' = "failed"
      BY <3>1 DEF ProcessFails
    <3> QED BY <3>1, <3>2, <2>0, <1>0, StopStep
  <2>2. CASE Opens("app", readSeq) /\ Record.inner = "data"
    <3>1. /\ pbuf' = ExtendFromSlice(MaybeCompact(pbuf),
                                     server.data[done + 1] - server.data[done])
          /\ ConsumeRecord /\ UNCHANGED <<phase, closeNotify>>
      BY <2>2, <1>4 DEF ProcessApplicationData
    <3> QED BY <3>1, <2>0, <1>0, <1>4, DataRecordStep
  <2>3. CASE Opens("app", readSeq) /\ Record.inner = "warning"
    <3>1. ConsumeRecord /\ UNCHANGED <<phase, pbuf, closeNotify>>
      BY <2>3, <1>4 DEF ProcessApplicationData
    <3> QED BY <3>1, <2>0, <1>0, <1>4, SkipRecordStep
  <2>4. CASE Opens("app", readSeq) /\ Record.inner = "close"
    <3>1. /\ closeNotify' = TRUE /\ phase' \in {"connect", "polling"}
          /\ UNCHANGED <<done, cbuf, pbuf>>
      BY <2>4, <1>4 DEF ProcessApplicationData, Returned
    <3> QED BY <3>1, <2>0, <1>0, StopStep
  <2>5. CASE Opens("app", readSeq) /\ Record.inner \notin {"data", "warning", "close"}
    <3>1. UNCHANGED <<done, cbuf, pbuf, closeNotify>> /\ phase' \in {"failed", "panicked"}
      BY <2>5, <1>4 DEF ProcessApplicationData, ProcessFails
    <3> QED BY <3>1, <2>0, <1>0, StopStep
  <2> QED BY <2>1, <2>2, <2>3, <2>4, <2>5
<1> QED BY <1>1, <1>2, <1>3, <1>4 DEF ProcessNewPackets

LEMMA ReturnStep ==
    ASSUME IInv, PollReadReturn
    PROVE  IInv'
<1> DEFINE b == MaybeCompact(pbuf)
<1>1. /\ phase = "polling" /\ phase' = "open" /\ ~WantsRead
      /\ UNCHANGED <<server, hs, received, done, cbuf, closeNotify>>
  BY DEF PollReadReturn, ReadReturns
<1>2. WellFormed(pbuf) /\ pbuf.end <= Capacity
  BY DEF IInv, ReceiveTypeOK, Fits
<1>3. WellFormed(b) /\ b.end <= pbuf.end
  BY <1>2, MaybeCompactFacts
<1>4. WellFormed(pbuf') /\ pbuf'.end <= b.end
  <2>1. CASE BufLen(pbuf) > 0
    <3>1. PICK room \in 1 .. BufLen(b) : pbuf' = Consume(b, room)
      BY <2>1 DEF PollReadReturn, ReadReturns
    <3>2. BufLen(b) \in Nat
      BY <1>3 DEF WellFormed, Buffer, BufLen
    <3>3. room \in Nat /\ room <= BufLen(b)
      BY <3>1, <3>2
    <3> HIDE DEF b
    <3> QED BY <3>1, <3>3, <1>3, ConsumeFacts
  <2>2. CASE ~(BufLen(pbuf) > 0)
    <3>1. pbuf' = b
      BY <2>2 DEF PollReadReturn, ReadReturns
    <3>2. b.end \in Nat
      BY <1>3 DEF WellFormed, Buffer
    <3> QED BY <3>1, <3>2, <1>3
  <2> QED BY <2>1, <2>2
<1> HIDE DEF b
<1>5. pbuf'.end <= Capacity
  <2>1. pbuf'.end \in Nat /\ b.end \in Nat /\ pbuf.end \in Nat /\ Capacity \in Nat
    BY <1>2, <1>3, <1>4, SizesAssumption DEF WellFormed, Buffer, Capacity
  <2> QED BY <2>1, <1>2, <1>3, <1>4
<1>6. hs = "complete"
  BY <1>1, NewBufferFacts DEF IInv, Handshaking, WantsRead
<1>7. ReceiveTypeOK' /\ Position'
  BY <1>1, <1>4 DEF IInv, ReceiveTypeOK, Position, BufLen
<1>8. Fits'
  BY <1>1, <1>5 DEF IInv, Fits, Capacity
<1>9. Leftover'
  BY <1>1 DEF IInv, Leftover, BufLen
<1>10. Room' /\ Handshaking'
  BY <1>1, <1>6 DEF Room, Processing, Handshaking
<1> QED BY <1>7, <1>8, <1>9, <1>10 DEF IInv

-----------------------------------------------------------------------------
LEMMA InitHolds == Init => IInv
<1> SUFFICES ASSUME Init PROVE IInv
  OBVIOUS
<1>1. /\ server \in Servers /\ phase = "connect" /\ hs = "hello"
      /\ received = 0 /\ done = 0 /\ cbuf = NewBuffer /\ pbuf = NewBuffer
      /\ closeNotify = FALSE
  BY DEF Init
<1>2. Len(server.recs) \in Nat /\ server.ends[0] = 0 /\ server.limit \in Nat
  BY <1>1, ServersAssumption
<1>3. MaxRecord \in Nat \ {0} /\ Capacity \in Nat
  BY SizesAssumption DEF Capacity
<1>4. ReceiveTypeOK
  BY <1>1, <1>2, NewBufferFacts DEF ReceiveTypeOK
<1>5. Position
  BY <1>1, <1>2, NewBufferFacts DEF Position
<1>6. Leftover /\ Room
  BY <1>1, <1>3, NewBufferFacts DEF Leftover, Room, Processing
<1>7. Handshaking /\ Fits
  BY <1>1, <1>3, NewBufferFacts DEF Handshaking, Fits
<1> QED BY <1>4, <1>5, <1>6, <1>7 DEF IInv

LEMMA NextHolds == IInv /\ [Next]_vars => IInv'
<1> SUFFICES ASSUME IInv, [Next]_vars PROVE IInv'
  OBVIOUS
<1>1. CASE HandshakeRound
  <2>1. /\ phase = "connect" /\ UNCHANGED <<server, recvVars>>
        /\ phase' \in {"failed", "open", "await"}
        /\ phase' = "await" => hs # "complete"
    BY <1>1 DEF HandshakeRound
  <2> QED BY <2>1, QuietStep DEF Processing
<1>2. CASE HandshakeReadSome
  <2>1. PICK n \in 1 .. HandshakeRead : ReadTls(n)
    BY <1>2 DEF HandshakeReadSome
  <2>2. n \in 1 .. MaxRecord
    BY SizesAssumption
  <2>3. phase = "await" /\ phase' = "feeding" /\ UNCHANGED server
    BY <1>2 DEF HandshakeReadSome
  <2>4. ~closeNotify /\ BufLen(pbuf) = 0
    BY <2>3, NewBufferFacts DEF IInv, Handshaking
  <2> QED BY <2>1, <2>2, <2>3, <2>4, ReadStep
<1>3. CASE HandshakeEof
  BY <1>3, QuietStep DEF HandshakeEof, Processing
<1>4. CASE ProcessNewPackets
  BY <1>4, ProcessStep
<1>5. CASE PollRead \/ PollReadPending \/ PollReadEof
  BY <1>5, QuietStep DEF PollRead, PollReadPending, PollReadEof, Processing
<1>6. CASE PollReadMore
  <2>1. PICK n \in 1 .. MaxRecord : ReadTls(n)
    BY <1>6 DEF PollReadMore
  <2>2. /\ phase = "polling" /\ phase' = "filling" /\ UNCHANGED server
        /\ ~closeNotify /\ BufLen(pbuf) = 0
    BY <1>6 DEF PollReadMore, WantsRead
  <2> QED BY <2>1, <2>2, ReadStep
<1>7. CASE PollReadReturn
  BY <1>7, ReturnStep
<1>8. CASE PollWrite \/ PollFlush \/ PollShutdown
  <2>1. UNCHANGED <<server, recvVars, phase>> /\ phase = "open"
    BY Zenon, <1>8 DEF PollWrite, PollFlush, PollShutdown
  <2> QED BY <2>1, QuietStep DEF Processing
<1>9. CASE Over \/ UNCHANGED vars
  <2>1. UNCHANGED <<server, recvVars, phase>>
    BY <1>9 DEF Over, vars
  <2>2. phase' = "await" => hs # "complete"
    BY <2>1 DEF IInv, Handshaking
  <2> QED BY <2>1, <2>2, QuietStep DEF Processing
<1> QED BY <1>1, <1>2, <1>3, <1>4, <1>5, <1>6, <1>7, <1>8, <1>9 DEF Next

(* Neither buffer of a connection is ever filled past its array, for every *)
(* record size, every size of read and every stream of records a server    *)
(* may send.                                                               *)
THEOREM BuffersNeverOverflow == Spec => []BuffersFit
<1>1. IInv => BuffersFit
  BY DEF IInv, ReceiveTypeOK, WellFormed, Fits, BuffersFit
<1> QED BY <1>1, InitHolds, NextHolds, PTL DEF Spec

(* Between polls of an open connection less than one record of ciphertext  *)
(* is left buffered, so the next read_tls always has room for one.         *)
THEOREM LessThanARecordIsLeft ==
    Spec => [](phase = "open" /\ ~closeNotify => BufLen(cbuf) < MaxRecord)
<1>1. IInv => (phase = "open" /\ ~closeNotify => BufLen(cbuf) < MaxRecord)
  BY DEF IInv, Leftover
<1> QED BY <1>1, InitHolds, NextHolds, PTL DEF Spec

-------------------------------------------------------------------------------
(* The race of the upstreams.                                              *)
(*                                                                         *)
(* Both properties are about the end of a race.  What carries them there:  *)
(* a domain that has been denied since the query was taken up is denied    *)
(* when the rule is read, whichever reloads came between, so the rule is   *)
(* set; and under the rule no answer has addresses, so none becomes the    *)
(* candidate.                                                              *)

Addresses == {Fake, "v4", "v6"}
Results == [kind : {"none", "error", "answer", "cut"}, ips : SUBSET Addresses]
Queries ==
    [state : {"idle", "configured", "racing", "done", "failed", "stopped"},
     domain : Domains \union {Unknown}, qtype : {"A", "AAAA", "opaque"},
     enabled : SUBSET Upstreams, rule : BOOLEAN, pending : SUBSET Upstreams,
     channel : Seq(Results), candidate : Results, due : BOOLEAN, result : Results,
     denied : BOOLEAN, hasty : BOOLEAN, told : BOOLEAN]

Sound(r, table) ==
    /\ r \in Queries
    /\ r.state = "configured" => r.candidate = Nothing
    /\ r.state \in {"configured", "racing"} /\ r.denied => r.domain \in table.deny
    /\ r.state = "racing" /\ r.denied /\ r.qtype = "AAAA" => r.rule
    /\ r.state = "racing" /\ r.rule => r.candidate = Nothing
    /\ r.state = "done" /\ r.result = Answer({Fake}) => ~r.hasty
    /\ r.state = "done" /\ r.denied /\ r.qtype = "AAAA" => r.result.ips = {}

DnsInv ==
    /\ routing \in Tables
    /\ res \in [Callers -> Queries]
    /\ \A c \in Callers : Sound(res[c], routing)

LEMMA IdleIsSound ==
    ASSUME NEW table, NEW x \in {"idle", "failed", "stopped"}
    PROVE  Sound([Idle EXCEPT !.state = x], table) /\ Sound(Idle, table)
<1>1. Nothing \in Results /\ <<>> \in Seq(Results)
  BY DEF Nothing, Results
<1>2. Idle \in Queries /\ [Idle EXCEPT !.state = x] \in Queries
  BY Zenon, <1>1 DEF Idle, Queries
<1> QED BY <1>2 DEF Sound, Idle

(* The values of a race.                                                   *)
LEMMA ResultTypes ==
    /\ Nothing \in Results /\ Failed \in Results /\ <<>> \in Seq(Results)
    /\ Failed # Answer({Fake}) /\ Nothing # Answer({Fake})
    /\ Failed.ips = {} /\ Nothing.ips = {}
    /\ \A S \in SUBSET Addresses : Answer(S) \in Results /\ Answer(S).ips = S
<1>1. Failed.kind = "error" /\ Nothing.kind = "none" /\ Answer({Fake}).kind = "answer"
  BY DEF Failed, Nothing, Answer
<1> QED BY <1>1 DEF Nothing, Failed, Answer, Results

LEMMA ReplyTypes == \A q \in {"A", "AAAA", "opaque"} : Replies(q) \subseteq Results
BY ResultTypes DEF Replies, Answer, Failed, Results, Addresses

(* A step of one caller that leaves the routing table alone.               *)
LEMMA CallerStep ==
    ASSUME DnsInv, routing' = routing, NEW c \in Callers, NEW r, Sound(r, routing), Set(c, r)
    PROVE  DnsInv'
<1>1. r \in Queries /\ res' = [res EXCEPT ![c] = r]
  BY DEF Sound, Set
<1>2. res' \in [Callers -> Queries]
  BY <1>1 DEF DnsInv
<1>3. \A d \in Callers : Sound(res'[d], routing)
  BY <1>1 DEF DnsInv
<1> QED BY <1>2, <1>3 DEF DnsInv

(* A query is taken up.                                                    *)
LEMMA BeginHolds ==
    ASSUME DnsInv, routing' = routing, NEW c \in Callers, NEW d \in Domains,
           NEW t \in {"A", "AAAA", "opaque"}, Begin(c, d, t)
    PROVE  DnsInv'
<1> DEFINE b == d \in routing.deny
           r == [Idle EXCEPT !.state = "configured", !.domain = d, !.qtype = t,
                             !.enabled = routing.enabled, !.denied = b]
<1>1. routing.enabled \in SUBSET Upstreams
  BY DnsAssumption DEF DnsInv
<1>b. b \in BOOLEAN /\ (b => d \in routing.deny)
  OBVIOUS
<1>5. Set(c, r)
  BY DEF Begin
<1> HIDE DEF b
<1>2. r \in Queries
  BY Zenon, <1>1, <1>b, ResultTypes DEF Queries, Idle
<1>3. /\ r.state = "configured" /\ r.candidate = Nothing
      /\ r.domain = d /\ r.denied = b
  BY DEF Idle
<1> HIDE DEF r
<1>4. Sound(r, routing)
  BY <1>b, <1>2, <1>3 DEF Sound
<1> QED BY <1>4, <1>5, CallerStep

(* A race ends, with a result that is fit to leave it.                     *)
LEMMA ReturnHolds ==
    ASSUME DnsInv, NEW c \in Callers, NEW r \in Queries, NEW out \in Results,
           Return(c, r, out),
           out = Answer({Fake}) => r.due \/ (r.pending = {} /\ r.channel = <<>>),
           r.denied /\ r.qtype = "AAAA" => out.ips = {}
    PROVE  DnsInv'
<1> DEFINE h == ~r.due /\ (r.pending # {} \/ r.channel # <<>>)
           q == [r EXCEPT !.state = "done", !.result = out,
                          !.enabled = {}, !.pending = {}, !.channel = <<>>,
                          !.candidate = Nothing, !.due = FALSE, !.hasty = h]
<1>1. h \in BOOLEAN /\ (out = Answer({Fake}) => ~h)
  OBVIOUS
<1>2. Set(c, q) /\ routing' = routing
  BY DEF Return
<1> HIDE DEF h
<1>3. q \in Queries
  BY Zenon, <1>1, ResultTypes DEF Queries
<1>4. /\ q.state = "done" /\ q.result = out /\ q.hasty = h
      /\ q.denied = r.denied /\ q.qtype = r.qtype
  BY DEF Queries
<1> HIDE DEF q
<1>5. Sound(q, routing)
  BY <1>1, <1>3, <1>4 DEF Sound
<1> QED BY <1>2, <1>5, CallerStep

(* ReadRule: the second read of the routing table.                         *)
LEMMA ReadRuleHolds ==
    ASSUME DnsInv, NEW c \in Callers, ReadRule(c)
    PROVE  DnsInv'
<1> DEFINE old == res[c]
           rule == old.qtype = "AAAA" /\ old.domain \in routing.deny
           lone == [old EXCEPT !.state = "done", !.result = Failed]
           race == [old EXCEPT !.state = "racing", !.rule = rule, !.pending = old.enabled]
<1>1. /\ old.state = "configured" /\ routing' = routing
      /\ Set(c, IF old.enabled = {} THEN lone ELSE race)
  BY DEF ReadRule, Spawn
<1>2. old \in Queries /\ Sound(old, routing)
  BY DEF DnsInv
<1>3. rule \in BOOLEAN /\ (old.denied /\ old.qtype = "AAAA" => rule)
  BY <1>1, <1>2 DEF Sound
<1>4. old.candidate = Nothing /\ (old.denied => old.domain \in routing.deny)
  BY <1>1, <1>2 DEF Sound
<1> HIDE DEF old, rule
<1>5. /\ lone \in Queries /\ lone.state = "done" /\ lone.result = Failed
  BY Zenon, <1>2, ResultTypes DEF Queries
<1>6. /\ race \in Queries /\ race.state = "racing" /\ race.rule = rule
      /\ race.candidate = old.candidate /\ race.denied = old.denied
      /\ race.qtype = old.qtype /\ race.domain = old.domain
  BY Zenon, <1>2, <1>3 DEF Queries
<1> HIDE DEF lone, race
<1>7. Sound(lone, routing)
  BY <1>5, ResultTypes DEF Sound
<1>8. Sound(race, routing)
  BY <1>3, <1>4, <1>6 DEF Sound
<1> QED BY <1>1, <1>7, <1>8, CallerStep

(* A step inside a race that may only set a candidate when there is no     *)
(* rule.                                                                   *)
LEMMA RaceIsSound ==
    ASSUME NEW table, NEW q, Sound(q, table), q.state = "racing",
           NEW r \in Queries, r.state = "racing",
           r.rule = q.rule, r.denied = q.denied, r.qtype = q.qtype,
           r.domain = q.domain, r.candidate = q.candidate \/ ~r.rule
    PROVE  Sound(r, table)
BY DEF Sound

LEMMA RaceHolds ==
    ASSUME DnsInv, routing' = routing, NEW c \in Callers, res[c].state = "racing",
           NEW r \in Queries, Set(c, r), r.state = "racing",
           r.rule = res[c].rule, r.denied = res[c].denied, r.qtype = res[c].qtype,
           r.domain = res[c].domain, r.candidate = res[c].candidate \/ ~r.rule
    PROVE  DnsInv'
<1>1. Sound(res[c], routing)
  BY Zenon DEF DnsInv
<1>2. Sound(r, routing)
  BY Zenon, <1>1, RaceIsSound
<1> QED BY Zenon, <1>2, CallerStep

(* FallBack, of a race that nothing can come after.                        *)
LEMMA FallBackHolds ==
    ASSUME DnsInv, NEW c \in Callers, res[c].state = "racing", FallBack(c),
           res[c].due \/ (res[c].pending = {} /\ res[c].channel = <<>>)
    PROVE  DnsInv'
<1>1. res[c] \in Queries /\ Sound(res[c], routing)
  BY Zenon DEF DnsInv
<1> DEFINE out == IF res[c].candidate = Nothing THEN Failed ELSE res[c].candidate
<1>2. out \in Results
  BY Zenon, <1>1, ResultTypes DEF Queries
<1>3. res[c].denied /\ res[c].qtype = "AAAA" => out.ips = {}
  BY Zenon, <1>1, ResultTypes DEF Sound
<1>4. Return(c, res[c], out)
  BY DEF FallBack
<1> HIDE DEF out
<1> QED BY Zenon, <1>1, <1>2, <1>3, <1>4, ReturnHolds

(* rx.recv() with a result.                                                *)
LEMMA RecvReplyHolds ==
    ASSUME DnsInv, NEW c \in Callers, RecvReply(c)
    PROVE  DnsInv'
<1> DEFINE old == res[c]
           reply == Head(old.channel)
           r == [old EXCEPT !.channel = Tail(old.channel)]
           ips == IF r.rule THEN {} ELSE reply.ips
           kept == IF r.candidate = Nothing THEN Answer(ips) ELSE r.candidate
           s == [r EXCEPT !.candidate = kept]
<1>1. old \in Queries /\ Sound(old, routing)
  BY DEF DnsInv
<1>2. old.state = "racing" /\ old.channel # <<>> /\ old.channel \in Seq(Results)
  BY <1>1 DEF RecvReply, Received, Queries
<1>3. reply \in Results /\ Tail(old.channel) \in Seq(Results)
  BY <1>2
<1>4. \/ Set(c, r) /\ routing' = routing
      \/ Return(c, r, Failed)
      \/ ips = {Fake} /\ Set(c, s) /\ routing' = routing
      \/ ips # {Fake} /\ Return(c, r, Answer(ips))
  BY DEF RecvReply, Received
<1> HIDE DEF old, reply
<1>5. /\ r \in Queries /\ r.state = "racing" /\ r.rule = old.rule
      /\ r.candidate = old.candidate /\ r.denied = old.denied
      /\ r.qtype = old.qtype /\ r.domain = old.domain
  BY Zenon, <1>1, <1>2, <1>3 DEF Queries
<1>6. r.denied /\ r.qtype = "AAAA" => r.rule
  BY <1>1, <1>2, <1>5 DEF Sound
<1> HIDE DEF r
<1>7. ips \in SUBSET Addresses /\ (r.rule => ips = {})
  BY <1>3 DEF Results
<1> HIDE DEF ips
<1>8. Answer(ips) \in Results /\ Answer(ips).ips = ips
      /\ (ips # {Fake} => Answer(ips) # Answer({Fake}))
  <2>1. Answer(ips).ips = ips /\ Answer({Fake}).ips = {Fake}
    BY DEF Answer
  <2> QED BY Zenon, <1>7, <2>1, ResultTypes
<1>9. kept \in Results
  BY <1>5, <1>8 DEF Queries
<1> HIDE DEF kept
<1>10. /\ s \in Queries /\ s.state = "racing" /\ s.rule = old.rule
       /\ s.denied = old.denied /\ s.qtype = old.qtype /\ s.domain = old.domain
  BY <1>5, <1>9 DEF Queries
<1> HIDE DEF s
<1>11. CASE Set(c, r) /\ routing' = routing
  BY Zenon, <1>2, <1>5, <1>11, RaceHolds DEF old
<1>12. CASE Return(c, r, Failed)
  BY Zenon, <1>5, <1>12, ResultTypes, ReturnHolds
<1>13. CASE ips = {Fake} /\ Set(c, s) /\ routing' = routing
  <2>1. ~s.rule
    BY Zenon, <1>5, <1>7, <1>10, <1>13
  <2> QED BY Zenon, <1>2, <1>10, <1>13, <2>1, RaceHolds DEF old
<1>14. CASE ips # {Fake} /\ Return(c, r, Answer(ips))
  <2>1. r.denied /\ r.qtype = "AAAA" => Answer(ips).ips = {}
    BY <1>6, <1>7, <1>8
  <2> QED BY Zenon, <1>5, <1>8, <1>14, <2>1, ReturnHolds
<1> QED BY Zenon, <1>4, <1>11, <1>12, <1>13, <1>14

(* A task reports, or the deadline passes.                                 *)
LEMMA ReportHolds ==
    ASSUME DnsInv, NEW c \in Callers,
           \/ Expire(c)
           \/ \E u \in Upstreams : \E reply \in Replies(res[c].qtype) : Reply(c, u, reply)
    PROVE  DnsInv'
<1> DEFINE old == res[c]
<1>1. old \in Queries /\ routing' = routing /\ old.state = "racing"
  BY Zenon DEF DnsInv, Expire, Reply
<1>2. CASE Expire(c)
  <2> DEFINE r == [old EXCEPT !.due = TRUE]
  <2>1. Set(c, r)
    BY <1>2 DEF Expire
  <2> HIDE DEF old
  <2>2. /\ r \in Queries /\ r.state = "racing" /\ r.rule = old.rule
        /\ r.candidate = old.candidate /\ r.denied = old.denied
        /\ r.qtype = old.qtype /\ r.domain = old.domain
    BY Zenon, <1>1 DEF Queries
  <2> HIDE DEF r
  <2> QED BY <1>1, <2>1, <2>2, RaceHolds DEF old
<1>3. CASE \E u \in Upstreams : \E reply \in Replies(old.qtype) : Reply(c, u, reply)
  <2>1. PICK u \in Upstreams, reply \in Replies(old.qtype) : Reply(c, u, reply)
    BY <1>3
  <2> DEFINE r == [old EXCEPT !.pending = old.pending \ {u},
                              !.channel = Append(old.channel, reply)]
  <2>2. Set(c, r)
    BY Zenon, <2>1 DEF Reply
  <2>3. old.channel \in Seq(Results) /\ reply \in Results
    BY <1>1, <2>1, ReplyTypes DEF Queries
  <2>4. Append(old.channel, reply) \in Seq(Results)
    BY <2>3
  <2> HIDE DEF old
  <2>5. /\ r \in Queries /\ r.state = "racing" /\ r.rule = old.rule
        /\ r.candidate = old.candidate /\ r.denied = old.denied
        /\ r.qtype = old.qtype /\ r.domain = old.domain
    BY Zenon, <1>1, <2>4 DEF Queries
  <2> HIDE DEF r
  <2> QED BY <1>1, <2>2, <2>5, RaceHolds DEF old
<1> QED BY <1>2, <1>3

(* A reload.  Callers keep everything but the history of the denial.       *)
LEMMA ReloadHolds ==
    ASSUME DnsInv, NEW table \in Tables, Reload(table)
    PROVE  DnsInv'
<1> DEFINE b(c) == res[c].denied /\ res[c].domain \in table.deny
           r(c) == [res[c] EXCEPT !.denied = b(c)]
<1>1. routing' = table /\ res' = [c \in Callers |-> r(c)]
  BY DEF Reload
<1>2. ASSUME NEW c \in Callers PROVE r(c) \in Queries /\ Sound(r(c), table)
  <2> DEFINE old == res[c]
             d == b(c)
             new == [old EXCEPT !.denied = d]
  <2>1. old \in Queries /\ Sound(old, routing)
    BY DEF DnsInv
  <2>2. d \in BOOLEAN /\ (d => old.denied /\ old.domain \in table.deny)
    BY <2>1 DEF Queries
  <2> HIDE DEF old, d
  <2>3. /\ new \in Queries /\ new.denied = d /\ new.state = old.state
        /\ new.candidate = old.candidate /\ new.domain = old.domain
        /\ new.qtype = old.qtype /\ new.rule = old.rule
        /\ new.result = old.result /\ new.hasty = old.hasty
    BY <2>1, <2>2 DEF Queries
  <2> HIDE DEF new
  <2>4. Sound(new, table)
    BY <2>1, <2>2, <2>3 DEF Sound
  <2> QED BY <2>3, <2>4 DEF new, old, d
<1> HIDE DEF r
<1>3. res' \in [Callers -> Queries]
  BY <1>1, <1>2
<1>4. \A c \in Callers : Sound(res'[c], routing')
  BY <1>1, <1>2
<1> QED BY <1>1, <1>3, <1>4 DEF DnsInv

LEMMA DnsInitHolds == DnsInit => DnsInv
<1> SUFFICES ASSUME DnsInit PROVE DnsInv
  OBVIOUS
<1>1. routing \in Tables /\ res = [c \in Callers |-> Idle]
  BY DEF DnsInit
<1>2. Sound(Idle, routing) /\ Idle \in Queries
  BY IdleIsSound DEF Sound
<1> QED BY <1>1, <1>2 DEF DnsInv

LEMMA DnsNextHolds == DnsInv /\ [DnsNext]_dnsVars => DnsInv'
<1> SUFFICES ASSUME DnsInv, [DnsNext]_dnsVars PROVE DnsInv'
  OBVIOUS
<1>1. ASSUME NEW table \in Tables, Reload(table) PROVE DnsInv'
  BY <1>1, ReloadHolds
<1>2. ASSUME NEW c \in TcpSessions, Accept(c) \/ CloseTcp(c) PROVE DnsInv'
  BY <1>2 DEF Accept, CloseTcp, DnsInv
<1>3. ASSUME CancelDns \/ DnsOver \/ UNCHANGED dnsVars PROVE DnsInv'
  BY <1>3 DEF CancelDns, DnsOver, dnsVars, DnsInv
<1>4. ASSUME StopUdp PROVE DnsInv'
  <2>1. routing' = routing /\ "udp" \in Callers /\ Set("udp", [Idle EXCEPT !.state = "stopped"])
    BY <1>4 DEF StopUdp, Callers, Wire
  <2>2. Sound([Idle EXCEPT !.state = "stopped"], routing)
    BY IdleIsSound
  <2> QED BY <2>1, <2>2, CallerStep
<1>5. ASSUME NEW c \in Wire, NEW d \in Domains, NEW t \in {"A", "AAAA", "opaque"},
             Take(c, d, t)
      PROVE  DnsInv'
  <2>1. c \in Callers /\ routing' = routing /\ Begin(c, d, t)
    BY <1>5 DEF Take, Callers
  <2> QED BY <2>1, BeginHolds
<1>6. ASSUME NEW c \in Restorers, NEW a \in {Fake, "v4"}, Restore(c, a) PROVE DnsInv'
  <2>1. c \in Callers /\ routing' = routing
    BY <1>6 DEF Restore, Callers
  <2>2. CASE DomainsFor(a) = {}
    <3> DEFINE b == a \in handed
               r == [Idle EXCEPT !.state = "done", !.told = b]
    <3>1. Set(c, r) /\ b \in BOOLEAN
      BY <1>6, <2>2 DEF Restore
    <3> HIDE DEF b
    <3>2. r \in Queries
      BY Zenon, <3>1, ResultTypes DEF Queries, Idle
    <3>3. r.state = "done" /\ r.result = Nothing
      BY DEF Idle
    <3> HIDE DEF r
    <3>4. Sound(r, routing)
      BY <3>2, <3>3, ResultTypes DEF Sound
    <3> QED BY <2>1, <3>1, <3>4, CallerStep
  <2>3. CASE DomainsFor(a) # {}
    <3> DEFINE d == CHOOSE x \in DomainsFor(a) : TRUE
    <3>1. d \in Domains
      BY <2>3 DEF DomainsFor
    <3>2. Begin(c, d, "A")
      BY <1>6, <2>3 DEF Restore
    <3> HIDE DEF d
    <3> QED BY <2>1, <3>1, <3>2, BeginHolds
  <2> QED BY <2>2, <2>3
<1>7. ASSUME NEW c \in Callers, ReadRule(c) PROVE DnsInv'
  BY <1>7, ReadRuleHolds
<1>8. ASSUME NEW c \in Callers, RecvReply(c) PROVE DnsInv'
  BY <1>8, RecvReplyHolds
<1>9. ASSUME NEW c \in Callers, ChannelEnds(c) \/ Deadline(c) PROVE DnsInv'
  <2>1. /\ res[c].state = "racing" /\ FallBack(c)
        /\ res[c].due \/ (res[c].pending = {} /\ res[c].channel = <<>>)
    BY <1>9 DEF ChannelEnds, Deadline
  <2> QED BY <2>1, FallBackHolds
<1>10. ASSUME NEW c \in Callers, Deliver(c) PROVE DnsInv'
  <2>1. /\ routing' = routing
        /\ \/ Set(c, Idle)
           \/ \E x \in {"idle", "failed"} : Set(c, [Idle EXCEPT !.state = x])
    BY <1>10 DEF Deliver
  <2> QED BY <2>1, IdleIsSound, CallerStep
<1>11. ASSUME NEW c \in Callers,
              \/ Expire(c)
              \/ \E u \in Upstreams : \E reply \in Replies(res[c].qtype) : Reply(c, u, reply)
       PROVE  DnsInv'
  BY <1>11, ReportHolds
<1> QED BY <1>1, <1>2, <1>3, <1>4, <1>5, <1>6, <1>7, <1>8, <1>9, <1>10, <1>11 DEF DnsNext

(* Before the deadline, an answer of fake addresses alone wins only when   *)
(* every upstream has been heard (resolve_dns_wire).                       *)
THEOREM FakeAnswersWait == DnsSpec => []FakeIsLastResort
<1>1. DnsInv => FakeIsLastResort
  BY DEF DnsInv, Sound, FakeIsLastResort
<1> QED BY <1>1, DnsInitHolds, DnsNextHolds, PTL DEF DnsSpec

(* A domain that is denied throughout a query gets no IPv6 address, though *)
(* the configuration and the rule are read apart (dns_ipv6_deny_rule).     *)
THEOREM DeniedStaysDenied == DnsSpec => []DenyHolds
<1>1. DnsInv => DenyHolds
  BY DEF DnsInv, Sound, DenyHolds
<1> QED BY <1>1, DnsInitHolds, DnsNextHolds, PTL DEF DnsSpec
===============================================================================
