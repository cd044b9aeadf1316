------------------------------ MODULE TcpRelay ------------------------------
(***************************************************************************)
(* One TCP session inside an egress node, from the dial to its outcome:    *)
(* the bytes the client sends go "up", the bytes of the upstream go        *)
(* "down".  The relay loops differ by protocol:                            *)
(*   direct       with an idle timeout copy_bidirectional_until_idle, one  *)
(*                task that reads one side and writes the other inside a   *)
(*                branch of its select;                                    *)
(*   vless, trojan, and direct without a timeout                           *)
(*                tokio's copy_bidirectional;                              *)
(*   shadowsocks, vmess                                                    *)
(*                two joined halves, each a read-then-write loop.          *)
(* All but direct run under await_relay_idle, which looks at the plaintext *)
(* byte counters each time idle_timeout has passed.                        *)
(*                                                                         *)
(* A byte is only counted.  A peer that stops reading is a Write that is   *)
(* never taken.  Tick is the passing of time; a timer that is due fires    *)
(* before time goes on.                                                    *)
(***************************************************************************)
EXTENDS Naturals

CONSTANTS
    Kinds,       \* the protocols of the nodes
    IdleTicks,   \* idle_timeout, in ticks
    ChunkLimit,  \* the size of a read buffer
    MaxBytes,    \* bound: bytes a peer sends
    MaxQuiet     \* bound: where the count of quiet ticks stops

Protocols == {"direct", "vless", "trojan", "shadowsocks", "vmess"}
Ways == {"up", "down"}

ASSUME KindsAssumption == Kinds \subseteq Protocols
ASSUME IdleAssumption == IdleTicks \in Nat \ {0}
ASSUME BoundsAssumption == /\ ChunkLimit \in Nat \ {0}
                           /\ MaxBytes \in Nat
                           /\ MaxQuiet \in Nat
                           /\ MaxQuiet > 2 * IdleTicks

VARIABLES
    kind, idle,      \* the node's protocol; whether session.idle_timeout is set
    phase,           \* "dial", "relay"
    greeted,         \* the response salt or header has been read
    sent, fin,       \* the peers: bytes sent, and whether the stream has ended
    read, wrote,     \* bytes the relay has read and has written, each way
    eof, done,       \* the end has been read; and passed on
    elapsed,         \* the running sleep(idle_timeout)
    last,            \* await_relay_idle: the counters at its last look
    quiet,           \* ticks since a plaintext byte was counted
    reason, report   \* close_reason and the reported byte counts

peerVars == <<sent, fin>>
vars == <<kind, idle, phase, greeted, sent, fin, read, wrote, eof, done,
          elapsed, last, quiet, reason, report>>

Single == kind = "direct" /\ idle
Chunked == kind \in {"shadowsocks", "vmess"}
Copying == ~Single /\ ~Chunked

Zero == [d \in Ways |-> 0]
Never == [d \in Ways |-> FALSE]

Init ==
    /\ kind \in Kinds /\ idle \in BOOLEAN
    /\ phase = "dial"
    /\ greeted = ~Chunked
    /\ sent = Zero /\ read = Zero /\ wrote = Zero
    /\ fin = Never /\ eof = Never /\ done = Never
    /\ elapsed = 0 /\ last = Zero /\ quiet = 0
    /\ reason = "open" /\ report = Zero

Open == reason = "open"
Relaying == phase = "relay" /\ Open

(* PlaintextByteCounts: what was read from and written to the client.      *)
Counts == [d \in Ways |-> IF d = "up" THEN read[d] ELSE wrote[d]]

Pending(d) == wrote[d] < read[d]

(* The single task of copy_bidirectional_until_idle is inside a branch: it *)
(* reads nothing else and no timer runs.                                   *)
Busy == Single /\ \E d \in Ways : Pending(d) \/ eof[d] # done[d]

(* with_plaintext_bytes, and the counters an outcome carries               *)
Close(why, counts) == reason' = why /\ report' = counts

-----------------------------------------------------------------------------
(* The two peers *)

Send(d) ==
    /\ Relaying
    /\ ~fin[d] /\ sent[d] < MaxBytes
    /\ sent' = [sent EXCEPT ![d] = @ + 1]
    /\ UNCHANGED <<kind, idle, phase, greeted, fin, read, wrote, eof, done,
                   elapsed, last, quiet, reason, report>>

End(d) ==
    /\ Relaying
    /\ ~fin[d]
    /\ fin' = [fin EXCEPT ![d] = TRUE]
    /\ UNCHANGED <<kind, idle, phase, greeted, sent, read, wrote, eof, done,
                   elapsed, last, quiet, reason, report>>

-----------------------------------------------------------------------------
(* dial_tcp, and for VLESS the Reality handshake and the request, before   *)
(* any timer is started: the counters are zero and await_relay_idle takes  *)
(* them as the first look.                                                 *)
Dial ==
    /\ phase = "dial" /\ Open
    /\ \/ phase' = "relay" /\ quiet' = 0 /\ UNCHANGED <<reason, report>>
       \/ UNCHANGED <<phase, quiet>> /\ Close("error", Zero)
    /\ UNCHANGED <<kind, idle, greeted, sent, fin, read, wrote, eof, done,
                   elapsed, last>>

(* The response salt of Shadowsocks, the response header of VMess *)
ReadHeader ==
    /\ Relaying /\ ~greeted /\ ~eof["down"]
    /\ greeted' = TRUE
    /\ UNCHANGED <<kind, idle, phase, sent, fin, read, wrote, eof, done,
                   elapsed, last, quiet, reason, report>>

(* Whether a loop may read from side d: the halves and the single task     *)
(* have written what they read before; copy_bidirectional refills a buffer *)
(* that has room.                                                          *)
MayRead(d) ==
    /\ Relaying /\ ~Busy /\ ~eof[d]
    /\ d = "down" => greeted
    /\ Copying \/ ~Pending(d)

Read(d) ==
    /\ MayRead(d)
    /\ \E n \in 1 .. ChunkLimit :
          /\ read[d] + n <= sent[d]
          /\ read[d] + n - wrote[d] <= ChunkLimit
          /\ read' = [read EXCEPT ![d] = @ + n]
    /\ elapsed' = IF Single THEN 0 ELSE elapsed
    /\ quiet' = IF d = "up" THEN 0 ELSE quiet
    /\ UNCHANGED <<kind, idle, phase, greeted, sent, fin, wrote, eof, done,
                   last, reason, report>>

Write(d) ==
    /\ Relaying /\ Pending(d)
    /\ wrote' = [wrote EXCEPT ![d] = @ + 1]
    /\ quiet' = IF d = "down" THEN 0 ELSE quiet
    /\ UNCHANGED <<kind, idle, phase, greeted, sent, fin, read, eof, done,
                   elapsed, last, reason, report>>

(* The end of side d is read.  Before the salt or the header that is the   *)
(* read error "response-salt-eof" / "response-eof".                        *)
ReadEof(d) ==
    /\ Relaying /\ ~Busy /\ ~eof[d]
    /\ Copying \/ ~Pending(d)
    /\ fin[d] /\ read[d] = sent[d]
    /\ IF d = "down" /\ ~greeted
       THEN Close("error", Counts) /\ UNCHANGED <<eof, elapsed>>
       ELSE /\ eof' = [eof EXCEPT ![d] = TRUE]
            /\ elapsed' = IF Single THEN 0 ELSE elapsed
            /\ UNCHANGED <<reason, report>>
    /\ UNCHANGED <<kind, idle, phase, greeted, sent, fin, read, wrote, done,
                   last, quiet>>

(* The half is over: the writer is shut down where the code does so.  The  *)
(* direct relay is at the head of its loop, the other relays end when both *)
(* directions are over.                                                    *)
Passes(d, least) ==
    /\ Relaying /\ eof[d] /\ ~done[d] /\ ~Pending(d)
    /\ done' = [done EXCEPT ![d] = TRUE]
    /\ IF \/ \A e \in Ways : done'[e]
          \/ Single /\ done'["down"] /\ wrote["down"] >= least
       THEN Close("normal", wrote)
       ELSE UNCHANGED <<reason, report>>
    /\ UNCHANGED <<kind, idle, phase, greeted, sent, fin, read, wrote, eof,
                   elapsed, last, quiet>>

FinishEarly(d) == Passes(d, 0)
Finish(d) == Passes(d, 1)

(* A reset, a failed write or a frame that does not decode.                *)
Break ==
    /\ Relaying
    /\ Close("error", Counts)
    /\ UNCHANGED <<kind, idle, phase, greeted, sent, fin, read, wrote, eof,
                   done, elapsed, last, quiet>>

-----------------------------------------------------------------------------
(* Time *)

TimerRuns == Relaying /\ idle /\ ~Busy

Tick ==
    /\ Open
    /\ TimerRuns => elapsed < IdleTicks
    /\ elapsed' = IF TimerRuns THEN elapsed + 1 ELSE elapsed
    /\ quiet' = IF quiet < MaxQuiet THEN quiet + 1 ELSE quiet
    /\ UNCHANGED <<kind, idle, phase, greeted, sent, fin, read, wrote, eof,
                   done, last, reason, report>>

(* The idle arm of the select: the direct relay ends; await_relay_idle     *)
(* ends when neither counter moved since its last look and sleeps again    *)
(* otherwise.                                                              *)
TimerFires(look) ==
    /\ TimerRuns /\ elapsed = IdleTicks
    /\ IF Single \/ Counts = last
       THEN /\ Close("idle-timeout", Counts)
            /\ UNCHANGED <<elapsed, last>>
       ELSE /\ elapsed' = 0 /\ last' = look
            /\ UNCHANGED <<reason, report>>
    /\ UNCHANGED <<kind, idle, phase, greeted, sent, fin, read, wrote, eof,
                   done, quiet>>

IdleStale == TimerFires(last)
IdleLooks == TimerFires(Counts)

Over == ~Open /\ UNCHANGED vars

Next ==
    \/ \E d \in Ways :
          Send(d) \/ End(d) \/ Read(d) \/ Write(d) \/ ReadEof(d) \/ Finish(d)
    \/ Dial \/ ReadHeader \/ Break
    \/ Tick \/ IdleLooks \/ Over

Spec == Init /\ [][Next]_vars

-----------------------------------------------------------------------------
(* What tcp-close reports is what happened.  A session closed as "normal"  *)
(* has lost nothing the upstream sent; what the client sent was written to *)
(* the upstream too, unless the direct relay ended on an answer that was   *)
(* complete before the client was (its second return).  The byte counts    *)
(* are then exactly what was passed on, and otherwise never more than was  *)
(* read from the client, never less than reached the upstream, and exactly *)
(* what the client was given.                                              *)
ReportIsTrue ==
    /\ reason = "normal" =>
          /\ fin["down"] /\ wrote["down"] = sent["down"]
          /\ \/ fin["up"] /\ wrote["up"] = sent["up"]
             \/ Single /\ wrote["down"] > 0
          /\ report = wrote
    /\ reason # "open" =>
          /\ report["up"] \in wrote["up"] .. read["up"]
          /\ report["down"] = wrote["down"]

(* await_relay_idle closes a session only after a whole idle_timeout       *)
(* without a plaintext byte, and never leaves one open for more than two:  *)
(* a byte just after a look costs one more sleep, and no more.             *)
IdleWindow ==
    /\ reason = "idle-timeout" /\ ~Single => quiet >= IdleTicks
    /\ Relaying /\ idle /\ ~Single => quiet <= 2 * IdleTicks
=============================================================================
