----------------------------- MODULE VisionStream -----------------------------
(***************************************************************************)
(* The client side of a VLESS Vision stream: one poll of poll_read,        *)
(* poll_write, poll_flush or poll_shutdown is one action, over a TCP       *)
(* socket that takes and delivers bytes a few at a time.                   *)
(*                                                                         *)
(* A unit sealed by the outer TLS session is Sealed + unit on the wire, a  *)
(* unit written raw is itself: opening a record that is not sealed fails.  *)
(* The server is a script: the bytes it sends and the inner bytes they     *)
(* carry, the positions its bytes may be `cut` at on their way, and the    *)
(* `gate` it passes only once the client has read its response header.     *)
(***************************************************************************)
EXTENDS VisionCodec

CONSTANTS Dialogues,   \* <<stream, script>>: what the local client writes and
                       \* what the server sends, [wire, app, gate, cuts]
          MaxWrite,    \* longest buffer handed to one poll_write
          MaxRead,     \* buffer handed to one poll_read
          Rooms,       \* bytes the socket may take during one poll
          Paddings     \* padding lengths the random generator may return

VARIABLES app,       \* the stream the local client writes
          script,    \* the server's script
          w,         \* the write half of VisionStream
          r,         \* the read half of VisionStream
          filter,    \* the VisionFilter the two halves share
          wire,      \* what the socket has taken
          written,   \* bytes poll_write has reported as written
          arrived,   \* bytes of the script the socket holds or has delivered
          returned   \* bytes poll_read has returned

visionVars == <<app, script, w, r, filter, wire, written, arrived, returned>>

Sealed == 100
Seal(s) == [i \in 1..Len(s) |-> Sealed + s[i]]
OpensRecord(rec) == \A i \in (HeaderLen + 1)..Len(rec) : rec[i] >= Sealed
OpenRecord(rec) == [i \in 1..(Len(rec) - HeaderLen) |-> rec[HeaderLen + i] - Sealed]

NewWriter == [mode |-> "PaddingTls", def |-> NewFuzzy, first |-> TRUE,
              switch |-> "none", out |-> <<>>, closed |-> FALSE]

(* `outer` is outer_read_deframer, and in Tls mode the partial record the  *)
(* session holds; `plain` is the plaintext the session has not handed out. *)
NewReader == [mode |-> "PaddingTls", outer |-> NewDeframer, unpad |-> NewUnpadder,
              def |-> NewFuzzy, pending |-> <<>>, response |-> TRUE, partial |-> <<>>,
              plain |-> <<>>, taken |-> 0, status |-> "open"]

VisionInit ==
  /\ \E d \in Dialogues : app = d[1] /\ script = d[2]
  /\ w = NewWriter /\ r = NewReader /\ filter = NewFilter
  /\ wire = <<>> /\ written = 0 /\ arrived = 0 /\ returned = <<>>

(* post_padding_cleanup, once neither half pads.                           *)
Cleaned(half, other) ==
  IF half.mode # "PaddingTls" /\ other.mode # "PaddingTls"
    THEN [half EXCEPT !.def = Deallocated(@)] ELSE half

-----------------------------------------------------------------------------
(* Writing.  A poll works on W: the write half, the filter, the wire and   *)
(* the room the socket has left during this poll; `n` is what it returns.  *)

DrainAll(W) ==
  LET k == Lesser(W.room, Len(W.w.out))
  IN [W EXCEPT !.wire = @ \o Seal(Take(W.w.out, k)),
               !.w.out = Drop(@, k), !.room = @ - k]

(* Pad one packet, hand it to the session and drain towards the socket.    *)
SendPadded(W, data, command, padding) ==
  DrainAll([W EXCEPT !.w.out = @ \o Pad(data, W.w.first, command, padding),
                     !.w.first = FALSE])

WriteDirect(W, buf) ==
  LET k == Lesser(W.room, Len(buf))
  IN [W EXCEPT !.wire = @ \o Take(buf, k), !.room = @ - k, !.n = k]

(* The session's writer takes all of the buffer, whatever the socket does. *)
WriteTls(W, buf) ==
  DrainAll([W EXCEPT !.w.out = @ \o buf, !.n = Len(buf)])

(* The loop over the inner records of poll_write_padding_tls: `done` is    *)
(* processed_len, `held` existing_inner_len, `len` the buffer's length.    *)
RECURSIVE WriteRecords(_, _, _, _, _)

(* The caller offers the rest of its buffer again: the deframer is cleared *)
(* and the bytes used up, less those it held before, are the result.       *)
Resend(W, count) == [W EXCEPT !.w.def = NewFuzzy, !.n = count]

(* A padded record went towards the socket: the next one only once it left *)
WriteOn(W, done, held, len, padding) ==
  IF W.w.out # <<>> THEN Resend(W, done - held)
                    ELSE WriteRecords(W, done, held, len, padding)

WriteRecord(W, rec, v, done, held, len, padding) ==
  LET isApp == v.tls /\ rec[1] = AppData
  IN IF isApp \/ (~Filtering(v) /\ ~v.tls12)
       THEN Resend(SendPadded([W EXCEPT !.filter = v,
                                        !.w.switch = IF v.xtls THEN "direct" ELSE "tls"],
                              rec, IF v.xtls THEN Direct ELSE End, padding), done - held)
       ELSE WriteOn(SendPadded([W EXCEPT !.filter = v], rec, Continue, padding),
                    done, held, len, padding)

WritePrefix(W, prefix, v, done, held, len, padding) ==
  IF Filtering(v)
    THEN WriteRecords(SendPadded([W EXCEPT !.filter = v], prefix, Continue, padding),
                      done, held, len, padding)
    ELSE Resend(SendPadded([W EXCEPT !.filter = v, !.w.switch = "tls"],
                           prefix, End, padding), done - held)

WriteInvalid(W, len, padding) ==
  Resend(SendPadded([W EXCEPT !.filter = StopFilter(@), !.w.switch = "tls"],
                    Held(W.w.def), End, padding), len)

WriteFound(W, x, done, held, len, padding) ==
  CASE x.kind = "need"   -> [W EXCEPT !.n = len]
    [] x.kind = "record" -> WriteRecord(W, x.data, FilterRecord(W.filter, x.data),
                                        done + Len(x.data), held, len, padding)
    [] x.kind = "prefix" -> WritePrefix(W, x.data, DecrementFilter(W.filter),
                                        done + Len(x.data), held, len, padding)
    [] x.kind = "error"  -> WriteInvalid(W, len, padding)

WriteNext(W, x, done, held, len, padding) ==
  WriteFound([W EXCEPT !.w.def = x.f], x, done, held, len, padding)

WriteRecords(W, done, held, len, padding) ==
  WriteNext(W, FuzzyNext(W.w.def), done, held, len, padding)

SwitchWrite(W, mode) ==
  [W EXCEPT !.w = Cleaned([@ EXCEPT !.mode = mode, !.switch = "none"], r)]

(* Mutant: the mode is switched before the session has been drained.       *)
PollWriteUndrained(W, buf, padding) ==
  IF W.w.switch = "direct" THEN WriteDirect(SwitchWrite(W, "Direct"), buf)
  ELSE IF W.w.out # <<>> THEN W
  ELSE IF W.w.switch = "tls" THEN WriteTls(SwitchWrite(W, "Tls"), buf)
  ELSE WriteRecords([W EXCEPT !.w.def = FeedFuzzy(@, buf)], 0, Len(Held(W.w.def)),
                    Len(buf), padding)

(* poll_write_padding_tls, after the session was drained as far as it goes *)
PollWritePadding(W, buf, padding) ==
  IF W.w.out # <<>> THEN W
  ELSE IF W.w.switch = "direct" THEN WriteDirect(SwitchWrite(W, "Direct"), buf)
  ELSE IF W.w.switch = "tls" THEN WriteTls(SwitchWrite(W, "Tls"), buf)
  ELSE WriteRecords([W EXCEPT !.w.def = FeedFuzzy(@, buf)], 0, Len(Held(W.w.def)),
                    Len(buf), padding)

Written(W, buf, padding) ==
  CASE w.mode = "PaddingTls" -> PollWritePadding(DrainAll(W), buf, padding)
    [] w.mode = "Tls"        -> WriteTls(W, buf)
    [] w.mode = "Direct"     -> WriteDirect(W, buf)

Writing(room) == [w |-> w, filter |-> filter, wire |-> wire, room |-> room, n |-> 0]

VisionWrite(size, room, padding) ==
  /\ ~w.closed /\ written + size <= Len(app)
  /\ \E W \in {Written(Writing(room), SubSeq(app, written + 1, written + size), padding)} :
       /\ w' = W.w /\ filter' = W.filter /\ wire' = W.wire
       /\ written' = written + W.n
       /\ r' = IF W.w.mode # w.mode THEN Cleaned(r, W.w) ELSE r
  /\ UNCHANGED <<app, script, arrived, returned>>

(* poll_flush drains the session; what the deframer holds stays there.     *)
Flushed(room) == DrainAll(Writing(room))

VisionFlush(room) ==
  /\ ~w.closed /\ w.out # <<>>
  /\ w' = Flushed(room).w /\ wire' = Flushed(room).wire
  /\ UNCHANGED <<app, script, r, filter, written, arrived, returned>>

(* The relay shuts the stream down at the end of its input, after a flush  *)
(* that has returned Ready.                                                *)
VisionShutdown ==
  /\ ~w.closed /\ written = Len(app) /\ w.out = <<>>
  /\ w' = [w EXCEPT !.closed = TRUE]
  /\ UNCHANGED <<app, script, r, filter, wire, written, arrived, returned>>

-----------------------------------------------------------------------------
(* Reading.  A poll works on R: the read half, the filter and the bytes it *)
(* returns.                                                                *)

Fail(R) == [R EXCEPT !.r.status = "failed"]

Return(R) ==
  LET k == Lesser(MaxRead, Len(R.r.pending))
  IN [R EXCEPT !.got = Take(R.r.pending, k), !.r.pending = Drop(@, k)]

(* The records of the content go through the filter while it looks at any. *)
RECURSIVE FilterContent(_)

FilterOn(R) == IF Filtering(R.filter) THEN FilterContent(R) ELSE R

FilterFound(R, x) ==
  CASE x.kind = "need"   -> R
    [] x.kind = "error"  -> [R EXCEPT !.filter = StopFilter(@)]
    [] x.kind = "prefix" -> FilterContent([R EXCEPT !.filter = DecrementFilter(@)])
    [] x.kind = "record" -> FilterOn([R EXCEPT !.filter = FilterRecord(@, x.data)])

FilterNext(R, x) == FilterFound([R EXCEPT !.r.def = x.f], x)

FilterContent(R) == FilterNext(R, FuzzyNext(R.r.def))

AllOpen(x) == x.ok /\ \A i \in DOMAIN x.recs : OpensRecord(x.recs[i])

RECURSIVE OpenAll(_)
OpenAll(recs) == IF recs = <<>> THEN <<>> ELSE OpenRecord(Head(recs)) \o OpenAll(Tail(recs))

SwitchRead(R, mode) == [R EXCEPT !.r = Cleaned([@ EXCEPT !.mode = mode], w)]

(* END: the records that are buffered behind the block are plain TLS.      *)
EndPadding(R, x) ==
  IF ~AllOpen(x) THEN Fail(R)
  ELSE SwitchRead([R EXCEPT !.r.pending = @ \o OpenAll(x.recs), !.r.outer = x.d], "Tls")

HandleCommand(R, command) ==
  CASE command = Direct ->
         SwitchRead([R EXCEPT !.r.pending = @ \o R.r.outer.buffer,
                              !.r.outer = NewDeframer], "Direct")
    [] command = End -> EndPadding(R, NextRecords(R.r.outer))
    [] OTHER -> R

Inspected(R, content) ==
  IF content # <<>> /\ Filtering(R.filter)
    THEN FilterContent([R EXCEPT !.r.def = FeedFuzzy(@, content)]) ELSE R

HandleUnpadded(R, p) ==
  IF ~p.ok THEN Fail(R)
  ELSE HandleCommand([Inspected([R EXCEPT !.r.unpad = p.u], p.content)
                        EXCEPT !.r.pending = @ \o p.content], p.command)

HandlePadded(R, data) == HandleUnpadded(R, Unpad(R.r.unpad, data))

(* poll_read_vless_response, then the rest of that poll of poll_read.      *)
SkipResponse(R, got) ==
  LET R1 == [R EXCEPT !.r.response = FALSE, !.r.partial = <<>>]
  IN IF Len(got) < 2 THEN R
     ELSE IF got[1] # 0 THEN Fail(R)
     ELSE IF Len(got) < 2 + got[2] THEN R
     ELSE IF Len(got) = 2 + got[2] THEN R1
     ELSE Return(HandlePadded(R1, Drop(got, 2 + got[2])))

OpenResponse(R, x, got) ==
  IF ~AllOpen(x) THEN Fail(R)
  ELSE SkipResponse([R EXCEPT !.r.outer = x.d, !.r.partial = got], got)

ReadResponse(R, x) == OpenResponse(R, x, R.r.partial \o OpenAll(x.recs))

(* poll_read_padding_tls: one outer record at a time.                      *)
RECURSIVE ReadRecords(_)

ReadOn(R) ==
  IF R.r.mode # "PaddingTls" \/ R.r.status = "failed" THEN R ELSE ReadRecords(R)

ReadRecord(R, rec) ==
  IF ~OpensRecord(rec) THEN Fail(R)
  ELSE IF Len(rec) = HeaderLen THEN ReadRecords(R)
  ELSE ReadOn(HandlePadded(R, OpenRecord(rec)))

ReadNext(R, x) ==
  CASE x.kind = "error"  -> Fail(R)
    [] x.kind = "need"   -> [R EXCEPT !.r.outer = x.d]
    [] x.kind = "record" -> ReadRecord([R EXCEPT !.r.outer = x.d], x.data)

ReadRecords(R) == ReadNext(R, NextRecord(R.r.outer))

(* Mutant: what the caller's buffer has no room for is dropped.            *)
ReadTlsTruncating(R, x) ==
  LET plain == OpenAll(x.recs)
  IN IF ~AllOpen(x) THEN Fail(R)
     ELSE [R EXCEPT !.r.outer = x.d, !.got = Take(plain, Lesser(MaxRead, Len(plain)))]

(* poll_read_tls: the session opens whole records, keeps the rest.         *)
ReadTlsRecords(R, x) ==
  LET plain == OpenAll(x.recs)
      k     == Lesser(MaxRead, Len(plain))
  IN IF ~AllOpen(x) THEN Fail(R)
     ELSE [R EXCEPT !.r.outer = x.d, !.r.plain = Drop(plain, k), !.got = Take(plain, k)]

ReadDirect(R, bytes) ==
  LET k == Lesser(MaxRead, Len(bytes))
  IN [R EXCEPT !.r.taken = r.taken + k, !.got = Take(bytes, k)]

(* End of file: clean in every state but the wait for the response header. *)
ReadEof(R) == [R EXCEPT !.r.status = IF r.mode = "PaddingTls" /\ r.response
                                       THEN "failed" ELSE "eof"]

Closed == arrived = Len(script.wire)

Unread == SubSeq(script.wire, r.taken + 1, arrived)

ReadPlain(R) ==
  LET k == Lesser(MaxRead, Len(r.plain))
  IN [R EXCEPT !.got = Take(r.plain, k), !.r.plain = Drop(@, k)]

(* A read takes all there is, except in direct mode.                       *)
ReadSocket(R, fed) ==
  CASE r.mode = "Direct" -> ReadDirect(R, Unread)
    [] r.mode = "Tls" -> ReadTlsRecords([R EXCEPT !.r.taken = arrived], NextRecords(fed))
    [] r.mode = "PaddingTls" /\ r.response ->
         ReadResponse([R EXCEPT !.r.taken = arrived], NextRecords(fed))
    [] r.mode = "PaddingTls" /\ ~r.response ->
         Return(ReadRecords([R EXCEPT !.r.taken = arrived, !.r.outer = fed]))

ReadHalf(R) ==
  IF r.pending # <<>> THEN Return(R)
  ELSE IF r.plain # <<>> THEN ReadPlain(R)
  ELSE IF Unread = <<>> THEN ReadEof(R)
  ELSE ReadSocket(R, Feed(r.outer, Unread))

VisionRead ==
  /\ r.status = "open"
  /\ r.pending # <<>> \/ r.plain # <<>> \/ Unread # <<>> \/ Closed
  /\ \E R \in {ReadHalf([r |-> r, filter |-> filter, got |-> <<>>])} :
       /\ r' = R.r /\ filter' = R.filter /\ returned' = returned \o R.got
       /\ w' = IF R.r.mode # r.mode THEN Cleaned(w, R.r) ELSE w
  /\ UNCHANGED <<app, script, wire, written, arrived>>

(* The server's bytes reach the socket; those past the gate only once the  *)
(* client has read the response header.                                    *)
Arrive == /\ arrived < (IF r.response THEN script.gate ELSE Len(script.wire))
          /\ arrived' \in script.cuts
          /\ arrived' > arrived /\ \A c \in script.cuts : c > arrived => c >= arrived'
          /\ UNCHANGED <<app, script, w, r, filter, wire, written, returned>>

(* Both halves are over: the relay drops the stream.                       *)
Dropped == w.closed /\ r.status # "open" /\ UNCHANGED visionVars

VisionNext ==
  \/ \E size \in 1..MaxWrite, room \in Rooms, p \in Paddings : VisionWrite(size, room, p)
  \/ \E room \in Rooms : VisionFlush(room)
  \/ VisionShutdown
  \/ VisionRead
  \/ Arrive
  \/ Dropped

VisionSpec == VisionInit /\ [][VisionNext]_visionVars

-----------------------------------------------------------------------------
(* What a Vision server makes of a byte stream: it unpads the sealed part, *)
(* and reads raw from the end of the record that carries DIRECT.           *)
PeerReads(s) ==
  LET k == CHOOSE n \in 0..Len(s) : /\ \A i \in 1..n : s[i] >= Sealed
                                    /\ n = Len(s) \/ s[n + 1] < Sealed
      p == Unpad(NewUnpadder, [i \in 1..k |-> s[i] - Sealed])
  IN [ok |-> /\ p.ok
             /\ p.command = Direct => p.rest = <<>>
             /\ k < Len(s) => p.command = Direct,
      bytes |-> p.content \o Drop(s, k)]

(* Nothing written is lost, repeated or reordered, and every byte travels  *)
(* on the layer the server expects it on: what a server decodes of the     *)
(* wire and of the session's backlog, followed by the bytes the inner      *)
(* deframer holds back, is exactly what poll_write has reported written.   *)
(* The switch to DIRECT or to plain TLS waits for the next write, and for  *)
(* the packet announcing it to be drained, for this reason.                *)
WriteLossless ==
  LET p == PeerReads(wire \o Seal(w.out))
  IN p.ok /\ p.bytes \o Held(w.def) = Take(app, written)

(* Reading returns the inner bytes the server sent, in order, across the   *)
(* response header, the padding and the change of layer, however the       *)
(* socket cuts them; it never refuses a well-formed stream, and the end of *)
(* the file comes after the last byte.                                     *)
ReadFaithful ==
  /\ r.status # "failed"
  /\ LET got == returned \o r.pending \o r.plain
     IN got = Take(script.app, Len(got))
  /\ r.status = "eof" => returned = script.app
===============================================================================
