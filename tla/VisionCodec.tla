----------------------------- MODULE VisionCodec -----------------------------
(***************************************************************************)
(* The byte-level codecs of the VLESS Vision stream, as operators: the TLS *)
(* record deframer, the fuzzy deframer that finds inner TLS behind an      *)
(* unknown prefix, the pattern filter, and the padding and its unpadder.   *)
(*                                                                         *)
(* Bytes are naturals.  Field widths are scaled down: a record header is   *)
(* three units (content type, minor version, payload length) instead of    *)
(* five bytes, the handshake pattern four units instead of six, a padding  *)
(* length one unit instead of two, the user UUID two units.                *)
(***************************************************************************)
EXTENDS Integers, Sequences

CONSTANTS FilterCount,  \* records VisionFilter analyses (8 in the code)
          MaxPayload    \* MAX_TLS_CIPHERTEXT_LEN

Handshake   == 22
AppData     == 23
ClientHello == 1
ServerHello == 2
Uuid        == <<7, 8>>

Continue == 0
End      == 1
Direct   == 2

HeaderLen  == 3
PatternLen == 4

Take(s, n) == SubSeq(s, 1, n)
Drop(s, n) == SubSeq(s, n + 1, Len(s))
Lesser(a, b) == IF a <= b THEN a ELSE b

-----------------------------------------------------------------------------
(* TlsDeframer.  `payload` is the length ReadingPayload carries, -1 while  *)
(* the header is awaited.                                                  *)

NewDeframer == [buffer |-> <<>>, payload |-> -1]

Feed(d, data) == [d EXCEPT !.buffer = @ \o data]

ValidHeader(b) == b[1] \in 20..24 /\ b[2] \in 1..3 /\ b[3] <= MaxPayload

NextRecord(d) ==
  LET b      == d.buffer
      header == d.payload = -1
      n      == IF header THEN b[3] ELSE d.payload
  IN IF header /\ Len(b) < HeaderLen
       THEN [kind |-> "need", data |-> <<>>, d |-> d]
     ELSE IF header /\ ~ValidHeader(b)
       THEN [kind |-> "error", data |-> <<>>, d |-> d]
     ELSE IF Len(b) < HeaderLen + n
       THEN [kind |-> "need", data |-> <<>>, d |-> [d EXCEPT !.payload = n]]
     ELSE [kind |-> "record", data |-> Take(b, HeaderLen + n),
           d |-> [buffer |-> Drop(b, HeaderLen + n), payload |-> -1]]

(* next_records: every complete record; `ok` is false on a malformed one.  *)
RECURSIVE NextRecords(_)
NextRecords(d) ==
  LET r == NextRecord(d)
  IN CASE r.kind = "error"  -> [ok |-> FALSE, recs |-> <<>>, d |-> d]
       [] r.kind = "need"   -> [ok |-> TRUE, recs |-> <<>>, d |-> r.d]
       [] r.kind = "record" ->
            LET rest == NextRecords(r.d)
            IN [rest EXCEPT !.recs = <<r.data>> \o @]

-----------------------------------------------------------------------------
(* FuzzyTlsDeframer.                                                       *)

NewFuzzy == [state |-> "Searching", search |-> <<>>, inner |-> NewDeframer]

FeedFuzzy(f, data) ==
  IF f.state = "Searching" THEN [f EXCEPT !.search = @ \o data]
  ELSE [f EXCEPT !.inner = Feed(@, data)]

Held(f) == IF f.state = "Searching" THEN f.search ELSE f.inner.buffer

Deallocated(f) == [f EXCEPT !.search = <<>>, !.inner.buffer = <<>>]

(* [0x16, 0x03, 0x01-0x03, ?, ?, 0x01|0x02] at position i of s.            *)
PatternAt(s, i) ==
  /\ i + PatternLen - 1 <= Len(s)
  /\ s[i] = Handshake /\ s[i + 1] \in 1..3
  /\ s[i + 3] \in {ClientHello, ServerHello}

(* find_tls_handshake_start: the first such position, 0 when there is none *)
HandshakeStart(s) ==
  IF \E i \in 1..Len(s) : PatternAt(s, i)
    THEN CHOOSE i \in 1..Len(s) :
           PatternAt(s, i) /\ \A j \in 1..(i - 1) : ~PatternAt(s, j)
    ELSE 0

(* is_valid_tls_handshake_prefix and find_potential_tls_suffix_len.        *)
MayGrow(s) == /\ Len(s) >= 1 => s[1] = Handshake
              /\ Len(s) >= 2 => s[2] \in 1..3

SuffixLen(s) ==
  LET fits == {n \in 0..Lesser(Len(s), PatternLen - 1) : MayGrow(Drop(s, Len(s) - n))}
  IN CHOOSE n \in fits : \A m \in fits : m <= n

Deframe(f) ==
  LET r == NextRecord(f.inner)
  IN [kind |-> r.kind, data |-> r.data, f |-> [f EXCEPT !.inner = r.d]]

FuzzyNext(f) ==
  LET s        == f.search
      at       == HandshakeStart(s)
      cut      == IF at > 0 THEN at - 1 ELSE Len(s) - SuffixLen(s)
      found(n) == [state |-> "Deframing", search |-> <<>>,
                   inner |-> Feed(f.inner, Drop(s, n))]
  IN IF f.state = "Deframing" THEN Deframe(f)
     ELSE IF at = 1 THEN Deframe(found(0))
     ELSE IF cut = 0 THEN [kind |-> "need", data |-> <<>>, f |-> f]
     ELSE [kind |-> "prefix", data |-> Take(s, cut),
           f |-> IF at > 0 THEN found(cut) ELSE [f EXCEPT !.search = Drop(s, cut)]]

-----------------------------------------------------------------------------
(* VisionFilter, shared by the two directions of a stream.  The unit after *)
(* the ServerHello type stands for what parse_server_hello returns: 13 is  *)
(* TLS 1.3 with a cipher XTLS supports, 5 TLS 1.3 with AES_128_CCM_8, 12   *)
(* an earlier version, anything else a malformed hello.                    *)

NewFilter == [count |-> FilterCount, tls |-> FALSE, tls12 |-> FALSE, xtls |-> FALSE]

Filtering(v) == v.count > 0

DecrementFilter(v) == [v EXCEPT !.count = IF @ = 0 THEN 0 ELSE @ - 1]

StopFilter(v) == [v EXCEPT !.count = 0]

IsHello(rec, type) == Len(rec) > HeaderLen /\ rec[1] = Handshake /\ rec[4] = type

HelloVersion(rec) == IF Len(rec) > 4 THEN rec[5] ELSE 0

FilterRecord(v, rec) ==
  LET v1     == DecrementFilter(v)
      client == IsHello(rec, ClientHello)
      server == ~v.tls12 /\ IsHello(rec, ServerHello) /\ rec[2] = 3
      v2     == [v1 EXCEPT !.tls = @ \/ client \/ server, !.tls12 = @ \/ server,
                           !.xtls = @ \/ (server /\ HelloVersion(rec) = 13)]
  IN IF ~Filtering(v) THEN v
     ELSE IF server /\ HelloVersion(rec) # 12 THEN StopFilter(v2)
     ELSE v2

-----------------------------------------------------------------------------
(* vision_pad: an optional UUID, the command, the two lengths, the content *)
(* and `padding` units of padding.                                         *)

PadUnit == 99

Pad(data, uuid, command, padding) ==
  (IF uuid THEN Uuid ELSE <<>>) \o <<command, Len(data), padding>>
    \o data \o [i \in 1..padding |-> PadUnit]

(* VisionUnpadder.  The content of an unfinished block is handed out at    *)
(* the end of every call, so none is kept between calls.                   *)
NewUnpadder == [state |-> "Initial", command |-> Continue, left |-> 0, padding |-> 0]

Unpadded(u, content, command, rest) ==
  [ok |-> TRUE, u |-> u, content |-> content, command |-> command, rest |-> rest]

UnpadError(u) ==
  [ok |-> FALSE, u |-> u, content |-> <<>>, command |-> Continue, rest |-> <<>>]

RECURSIVE UnpadLoop(_, _, _)

OutOfData(u, acc) == Unpadded(u, acc, Continue, <<>>)

UnpadInitial(u, data, acc) ==
  IF Len(data) < Len(Uuid) THEN OutOfData(u, <<>>)
  ELSE IF Take(data, Len(Uuid)) # Uuid THEN Unpadded(u, data, Continue, <<>>)
  ELSE UnpadLoop([u EXCEPT !.state = "Command"], Drop(data, Len(Uuid)), acc)

UnpadCommand(u, data, acc) ==
  IF data = <<>> THEN OutOfData(u, acc)
  ELSE IF data[1] \notin {Continue, End, Direct} THEN UnpadError(u)
  ELSE UnpadLoop([u EXCEPT !.state = "ContentLength", !.command = data[1]], Tail(data), acc)

UnpadLength(u, data, acc) ==
  IF data = <<>> THEN OutOfData(u, acc)
  ELSE UnpadLoop(IF u.state = "ContentLength"
                   THEN [u EXCEPT !.state = "PaddingLength", !.left = data[1]]
                   ELSE [u EXCEPT !.state = "Content", !.padding = data[1]],
                 Tail(data), acc)

UnpadContent(u, data, acc) ==
  LET n == Lesser(u.left, Len(data))
  IN IF u.left > 0 /\ data = <<>> THEN OutOfData(u, acc)
     ELSE UnpadLoop([u EXCEPT !.left = @ - n, !.state = IF n = u.left THEN "Padding" ELSE @],
                    Drop(data, n), acc \o Take(data, n))

UnpadPadding(u, data, acc) ==
  LET n    == Lesser(u.padding, Len(data))
      rest == Drop(data, n)
  IN IF u.padding > 0 /\ data = <<>> THEN OutOfData(u, acc)
     ELSE IF n < u.padding THEN UnpadLoop([u EXCEPT !.padding = @ - n], rest, acc)
     ELSE IF u.command = Continue
       THEN UnpadLoop([u EXCEPT !.state = "Command", !.padding = 0], rest, acc)
     ELSE Unpadded([u EXCEPT !.state = "Done", !.padding = 0], acc \o rest, u.command, rest)

UnpadLoop(u, data, acc) ==
  CASE u.state = "Initial" -> UnpadInitial(u, data, acc)
    [] u.state = "Command" -> UnpadCommand(u, data, acc)
    [] u.state \in {"ContentLength", "PaddingLength"} -> UnpadLength(u, data, acc)
    [] u.state = "Content" -> UnpadContent(u, data, acc)
    [] u.state = "Padding" -> UnpadPadding(u, data, acc)
    [] u.state = "Done" -> UnpadError(u)

Unpad(u, data) == UnpadLoop(u, data, <<>>)
=============================================================================
