---------------------------- MODULE Relays_proofs ----------------------------
(***************************************************************************)
(* Proofs about the relays of the egress nodes.                            *)
(*                                                                         *)
(* TcpRelay, for every idle timeout and however many bytes move: the two   *)
(* bounds of await_relay_idle (Spec => []IdleWindow) and the report of the *)
(* outcome (Spec => []ReportIsTrue).                                       *)
(*                                                                         *)
(* UdpAssociation, for every width of the replay window, every number of   *)
(* packets and every way the network doubles, loses and reorders them:     *)
(* UdpSpec => []NoReplay.                                                  *)
(***************************************************************************)
EXTENDS TcpRelay, UdpAssociation, TLAPS

-----------------------------------------------------------------------------
(* The idle timer.                                                         *)
(*                                                                         *)
(* IdleWindow says nothing of the running sleep, on which it depends.  The *)
(* inductive invariant relates three things: the ticks of the running      *)
(* sleep, the ticks since the last counted byte, and whether a byte was    *)
(* counted since the last look.  If none was, the quiet began before the   *)
(* sleep did, and less than one timeout before it; if one was, the quiet   *)
(* is no longer than the sleep.                                            *)

TimeTypeOK ==
    /\ idle \in BOOLEAN
    /\ elapsed \in Nat /\ elapsed <= IdleTicks
    /\ quiet \in Nat /\ quiet <= MaxQuiet
    /\ read \in [Ways -> Nat] /\ wrote \in [Ways -> Nat] /\ last \in [Ways -> Nat]

Timed == idle /\ ~Single

(* The counters only grow: the last look saw no more than there is.        *)
Behind == last["up"] <= read["up"] /\ last["down"] <= wrote["down"]

Unmoved == last["up"] = read["up"] /\ last["down"] = wrote["down"]

Fresh ==
    Timed /\ phase = "dial" => elapsed = 0 /\ last = Zero /\ read = Zero /\ wrote = Zero

Sleeping ==
    Timed /\ Relaying =>
        IF Unmoved THEN elapsed <= quiet /\ quiet <= elapsed + IdleTicks
                   ELSE quiet <= elapsed

ClosedIdle == reason = "idle-timeout" /\ ~Single => quiet >= IdleTicks

IdleInv == TimeTypeOK /\ Behind /\ Fresh /\ Sleeping /\ ClosedIdle

-----------------------------------------------------------------------------
(* The comparison of await_relay_idle, on functions, is Unmoved.           *)
LEMMA CountsFacts ==
    ASSUME TimeTypeOK
    PROVE  /\ Counts \in [Ways -> Nat]
           /\ Counts["up"] = read["up"] /\ Counts["down"] = wrote["down"]
           /\ (Counts = last) <=> Unmoved
<1>1. /\ Counts \in [Ways -> Nat]
      /\ Counts["up"] = read["up"] /\ Counts["down"] = wrote["down"]
  BY DEF TimeTypeOK, Counts, Ways
<1>2. ASSUME Unmoved PROVE Counts = last
  <2>1. \A d \in Ways : Counts[d] = last[d]
    BY <1>1, <1>2 DEF Unmoved, Ways
  <2> QED BY <1>1, <2>1 DEF TimeTypeOK
<1>3. ASSUME Counts = last PROVE Unmoved
  BY <1>1, <1>3 DEF Unmoved
<1> QED BY <1>1, <1>2, <1>3

LEMMA IdleInit == Init => IdleInv
<1> SUFFICES ASSUME Init PROVE IdleInv
  OBVIOUS
<1>1. TimeTypeOK
  BY IdleAssumption, BoundsAssumption DEF Init, TimeTypeOK, Zero
<1>2. Behind
  BY DEF Init, Behind, Zero, Ways
<1>3. Fresh /\ Sleeping /\ ClosedIdle
  BY DEF Init, Fresh, Sleeping, ClosedIdle, Relaying, Open
<1> QED BY <1>1, <1>2, <1>3 DEF IdleInv

(* A step that moves no counter, no clock and no look.                     *)
LEMMA QuietStep ==
    ASSUME IdleInv,
           UNCHANGED <<kind, idle, phase, last, elapsed, quiet>>,
           read' \in [Ways -> Nat], wrote' \in [Ways -> Nat],
           read'["up"] = read["up"], wrote'["down"] = wrote["down"],
           phase = "dial" => read' = read /\ wrote' = wrote,
           reason' = reason \/ (Open /\ reason' \in {"normal", "error"})
    PROVE  IdleInv'
<1>1. TimeTypeOK'
  BY DEF IdleInv, TimeTypeOK
<1>2. Behind' /\ (Unmoved' <=> Unmoved)
  BY DEF IdleInv, Behind, Unmoved
<1>3. (Timed' <=> Timed) /\ (Single' <=> Single)
  BY DEF Timed, Single
<1>4. Fresh'
  BY <1>3 DEF IdleInv, Fresh, Zero
<1>5. Relaying' => Relaying
  BY DEF Relaying, Open
<1>6. Sleeping'
  BY <1>2, <1>3, <1>5 DEF IdleInv, Sleeping
<1>7. ClosedIdle'
  BY <1>3 DEF IdleInv, ClosedIdle, Open
<1> QED BY <1>1, <1>2, <1>4, <1>6, <1>7 DEF IdleInv

(* A plaintext byte is counted: the quiet starts again.                    *)
LEMMA MoveStep ==
    ASSUME IdleInv, Relaying,
           UNCHANGED <<kind, idle, phase, last, reason>>,
           elapsed' \in {0, elapsed}, Timed => elapsed' = elapsed, quiet' = 0,
           read' \in [Ways -> Nat], wrote' \in [Ways -> Nat],
           read["up"] <= read'["up"], wrote["down"] <= wrote'["down"],
           read'["up"] # read["up"] \/ wrote'["down"] # wrote["down"]
    PROVE  IdleInv'
<1>1. TimeTypeOK'
  BY IdleAssumption, BoundsAssumption DEF IdleInv, TimeTypeOK
<1>t. /\ last["up"] \in Nat /\ last["down"] \in Nat
      /\ read["up"] \in Nat /\ wrote["down"] \in Nat
      /\ read'["up"] \in Nat /\ wrote'["down"] \in Nat
  BY DEF IdleInv, TimeTypeOK, Ways
<1>2. Behind' /\ ~Unmoved'
  BY <1>t DEF IdleInv, Behind, Unmoved
<1>3. phase' = "relay" /\ reason' = "open"
  BY DEF Relaying, Open
<1>4. Fresh' /\ ClosedIdle'
  BY <1>3 DEF Fresh, ClosedIdle
<1>5. Sleeping'
  BY <1>1, <1>2 DEF Sleeping, TimeTypeOK
<1> QED BY <1>1, <1>2, <1>4, <1>5 DEF IdleInv

LEMMA IdleNext == IdleInv /\ [Next]_vars => IdleInv'
<1> SUFFICES ASSUME IdleInv, [Next]_vars PROVE IdleInv'
  OBVIOUS
<1>t. /\ TimeTypeOK /\ Behind
      /\ read["up"] \in Nat /\ wrote["down"] \in Nat
      /\ IdleTicks \in Nat /\ IdleTicks > 0 /\ MaxQuiet \in Nat
      /\ MaxQuiet > 2 * IdleTicks
  BY IdleAssumption, BoundsAssumption DEF IdleInv, TimeTypeOK, Ways
<1>1. ASSUME NEW d \in Ways, Send(d) PROVE IdleInv'
  BY <1>1, <1>t, QuietStep DEF Send, TimeTypeOK
<1>2. ASSUME NEW d \in Ways, End(d) PROVE IdleInv'
  BY <1>2, <1>t, QuietStep DEF End, TimeTypeOK
<1>3. ASSUME NEW d \in Ways, Read(d) PROVE IdleInv'
  <2>1. Relaying /\ phase = "relay"
    BY <1>3 DEF Read, MayRead, Relaying
  <2>2. PICK n \in 1 .. ChunkLimit : read' = [read EXCEPT ![d] = @ + n]
    BY Zenon, <1>3 DEF Read
  <2>3. n \in Nat /\ n > 0
    BY <2>2, BoundsAssumption
  <2>4. read' \in [Ways -> Nat] /\ wrote' = wrote /\ wrote' \in [Ways -> Nat]
    BY <1>3, <1>t, <2>2, <2>3 DEF Read, TimeTypeOK
  <2>5. UNCHANGED <<kind, idle, phase, last, reason>>
    BY <1>3 DEF Read
  <2>6. CASE d = "up"
    <3>1. quiet' = 0 /\ elapsed' \in {0, elapsed} /\ (Timed => elapsed' = elapsed)
      BY <1>3, <2>6 DEF Read, Timed
    <3>2. read'["up"] = read["up"] + n
      BY <1>t, <2>2, <2>6 DEF TimeTypeOK
    <3>3. read["up"] <= read'["up"] /\ read'["up"] # read["up"]
      BY <3>2, <2>3, <1>t
    <3>4. wrote["down"] <= wrote'["down"]
      BY <2>4, <1>t
    <3> QED BY <2>1, <2>4, <2>5, <3>1, <3>3, <3>4, MoveStep
  <2>7. CASE d = "down"
    <3>1. read'["up"] = read["up"]
      BY <1>t, <2>2, <2>7 DEF TimeTypeOK, Ways
    <3>2. CASE Single
      <4>1. elapsed' = 0 /\ quiet' = quiet
        BY <1>3, <2>7, <3>2 DEF Read
      <4>2. TimeTypeOK'
        BY <4>1, <2>4, <2>5, <1>t DEF TimeTypeOK
      <4>3. Single' /\ phase' = "relay" /\ reason' = "open" /\ ~Timed'
        BY <3>2, <2>1, <2>5 DEF Single, Timed, Relaying, Open
      <4>4. Behind'
        BY <1>t, <2>4, <2>5, <3>1 DEF Behind
      <4> QED BY <4>2, <4>3, <4>4 DEF IdleInv, Fresh, Sleeping, ClosedIdle
    <3>3. CASE ~Single
      <4>1. elapsed' = elapsed /\ quiet' = quiet
        BY <1>3, <2>7, <3>3 DEF Read
      <4> QED BY <4>1, <2>1, <2>4, <2>5, <3>1, QuietStep
    <3> QED BY <3>2, <3>3
  <2> QED BY <2>6, <2>7 DEF Ways
<1>4. ASSUME NEW d \in Ways, Write(d) PROVE IdleInv'
  <2>1. Relaying /\ phase = "relay"
    BY <1>4 DEF Write, Relaying
  <2>2. /\ wrote' = [wrote EXCEPT ![d] = @ + 1] /\ wrote' \in [Ways -> Nat]
        /\ read' = read /\ read' \in [Ways -> Nat]
        /\ UNCHANGED <<kind, idle, phase, last, reason, elapsed>>
    BY <1>4, <1>t DEF Write, TimeTypeOK
  <2>3. CASE d = "down"
    <3>1. quiet' = 0
      BY <1>4, <2>3 DEF Write
    <3>2. wrote'["down"] = wrote["down"] + 1
      BY <1>t, <2>2, <2>3 DEF TimeTypeOK
    <3>3. wrote["down"] <= wrote'["down"] /\ wrote'["down"] # wrote["down"]
      BY <3>2, <1>t
    <3>4. read["up"] <= read'["up"]
      BY <2>2, <1>t
    <3> QED BY <2>1, <2>2, <3>1, <3>3, <3>4, MoveStep
  <2>4. CASE d = "up"
    <3>1. quiet' = quiet
      BY <1>4, <2>4 DEF Write
    <3>2. wrote'["down"] = wrote["down"]
      BY <1>t, <2>2, <2>4 DEF TimeTypeOK, Ways
    <3> QED BY <2>1, <2>2, <3>1, <3>2, QuietStep
  <2> QED BY <2>3, <2>4 DEF Ways
<1>5. ASSUME NEW d \in Ways, ReadEof(d) PROVE IdleInv'
  <2>1. Relaying /\ phase = "relay" /\ Open
    BY <1>5 DEF ReadEof, Relaying
  <2>2. UNCHANGED <<kind, idle, phase, last, read, wrote, quiet>>
    BY <1>5 DEF ReadEof
  <2>3. /\ reason' = reason \/ reason' = "error"
        /\ elapsed' = elapsed \/ (Single /\ elapsed' = 0)
    BY <1>5 DEF ReadEof, Close
  <2>4. CASE elapsed' = elapsed
    BY <2>1, <2>2, <2>3, <2>4, <1>t, QuietStep DEF TimeTypeOK
  <2>5. CASE Single /\ elapsed' = 0
    <3>1. TimeTypeOK'
      BY <2>2, <2>5, <1>t DEF TimeTypeOK
    <3>2. Single' /\ ~Timed' /\ Behind'
      BY <2>2, <2>5, <1>t DEF Single, Timed, Behind
    <3> QED BY <3>1, <3>2 DEF IdleInv, Fresh, Sleeping, ClosedIdle
  <2> QED BY <2>3, <2>4, <2>5
<1>6. ASSUME NEW d \in Ways, Finish(d) PROVE IdleInv'
  <2>1. /\ Open /\ (reason' = reason \/ reason' = "normal")
        /\ UNCHANGED <<kind, idle, phase, last, read, wrote, quiet, elapsed>>
    BY <1>6 DEF Finish, Passes, Close, Relaying
  <2> QED BY <2>1, <1>t, QuietStep DEF TimeTypeOK
<1>7. ASSUME Dial PROVE IdleInv'
  <2>1. /\ phase = "dial" /\ Open
        /\ UNCHANGED <<kind, idle, read, wrote, elapsed, last>>
    BY <1>7 DEF Dial
  <2>2. CASE phase' = "relay" /\ quiet' = 0 /\ UNCHANGED <<reason, report>>
    <3>1. TimeTypeOK' /\ Behind'
      BY <2>1, <2>2, <1>t DEF TimeTypeOK, Behind
    <3>2. (Timed' <=> Timed) /\ (Unmoved' <=> Unmoved)
      BY <2>1 DEF Timed, Single, Unmoved
    <3>3. Timed => elapsed = 0 /\ Unmoved
      BY <2>1 DEF IdleInv, Fresh, Unmoved, Zero, Ways
    <3>4. Sleeping'
      BY <2>1, <2>2, <3>2, <3>3, <1>t DEF Sleeping
    <3> QED BY <2>1, <2>2, <3>1, <3>4 DEF IdleInv, Fresh, ClosedIdle, Open
  <2>3. CASE UNCHANGED <<phase, quiet>> /\ Close("error", Zero)
    BY <2>1, <2>3, <1>t, QuietStep DEF Close, TimeTypeOK
  <2> QED BY <1>7, <2>2, <2>3 DEF Dial
<1>8. ASSUME ReadHeader \/ Break PROVE IdleInv'
  <2>1. /\ Open /\ (reason' = reason \/ reason' = "error")
        /\ UNCHANGED <<kind, idle, phase, last, read, wrote, quiet, elapsed>>
    BY <1>8 DEF ReadHeader, Break, Close, Relaying
  <2> QED BY <2>1, <1>t, QuietStep DEF TimeTypeOK
<1>9. ASSUME Tick PROVE IdleInv'
  <2>1. /\ Open /\ UNCHANGED <<kind, idle, phase, last, read, wrote, reason>>
        /\ elapsed' = IF TimerRuns THEN elapsed + 1 ELSE elapsed
        /\ quiet' = IF quiet < MaxQuiet THEN quiet + 1 ELSE quiet
        /\ TimerRuns => elapsed < IdleTicks
    BY <1>9 DEF Tick
  <2>2. TimeTypeOK' /\ Behind'
    BY <2>1, <1>t DEF TimeTypeOK, Behind
  <2>3. /\ Timed' <=> Timed
        /\ Unmoved' <=> Unmoved
        /\ Relaying' <=> Relaying
    BY <2>1 DEF Timed, Single, Unmoved, Relaying, Open
  <2>4. Timed /\ Relaying => TimerRuns
    BY DEF Timed, TimerRuns, Busy
  <2>5. Sleeping'
    BY <2>1, <2>3, <2>4, <1>t DEF IdleInv, Sleeping, TimeTypeOK
  <2>6. Fresh'
    BY <2>1, <2>3 DEF IdleInv, Fresh, TimerRuns, Relaying, Zero
  <2>7. ClosedIdle'
    BY <2>1 DEF ClosedIdle, Open
  <2> QED BY <2>2, <2>5, <2>6, <2>7 DEF IdleInv
<1>10. ASSUME IdleLooks PROVE IdleInv'
  <2>1. /\ Relaying /\ idle /\ phase = "relay" /\ elapsed = IdleTicks
        /\ UNCHANGED <<kind, idle, phase, read, wrote, quiet>>
    BY <1>10 DEF IdleLooks, TimerFires, TimerRuns, Relaying
  <2>2. Single' <=> Single
    BY <2>1 DEF Single
  <2>3. CASE Single \/ Counts = last
    <3>1. reason' = "idle-timeout" /\ UNCHANGED <<elapsed, last>>
      BY <1>10, <2>3 DEF IdleLooks, TimerFires, Close
    <3>2. TimeTypeOK' /\ Behind'
      BY <2>1, <3>1, <1>t DEF TimeTypeOK, Behind
    <3>3. ~Single => Unmoved
      BY <2>3, <1>t, CountsFacts
    <3>4. ~Single => quiet >= IdleTicks
      BY <2>1, <3>3 DEF IdleInv, Sleeping, Timed
    <3> QED BY <2>1, <2>2, <3>1, <3>2, <3>4
            DEF IdleInv, Fresh, Sleeping, ClosedIdle, Relaying, Open
  <2>4. CASE ~Single /\ Counts # last
    <3>1. reason' = reason /\ elapsed' = 0 /\ last' = Counts
      BY <1>10, <2>4 DEF IdleLooks, TimerFires
    <3>2. TimeTypeOK' /\ Behind' /\ Unmoved'
      BY <2>1, <3>1, <1>t, CountsFacts DEF TimeTypeOK, Behind, Unmoved
    <3>3. quiet <= IdleTicks
      BY <2>1, <2>4, <1>t, CountsFacts DEF IdleInv, Sleeping, Timed
    <3>4. Sleeping'
      BY <2>1, <3>1, <3>2, <3>3, <1>t DEF Sleeping, TimeTypeOK
    <3> QED BY <2>1, <3>1, <3>2, <3>4 DEF IdleInv, Fresh, ClosedIdle, Relaying, Open
  <2> QED BY <2>3, <2>4
<1>11. ASSUME Over \/ UNCHANGED vars PROVE IdleInv'
  <2>1. UNCHANGED vars
    BY <1>11 DEF Over
  <2> QED BY <2>1, <1>t, QuietStep DEF vars, TimeTypeOK
<1> QED
  BY <1>1, <1>2, <1>3, <1>4, <1>5, <1>6, <1>7, <1>8, <1>9, <1>10, <1>11 DEF Next

(* Under await_relay_idle a session is closed as idle only after a whole   *)
(* idle_timeout without a plaintext byte, and none stays open for more     *)
(* than two, for every timeout and every traffic.                          *)
THEOREM IdleWindowHolds == Spec => []IdleWindow
<1>1. IdleInv => IdleWindow
  BY IdleAssumption DEF IdleInv, IdleWindow, Sleeping, ClosedIdle, Timed, TimeTypeOK
<1> QED BY <1>1, IdleInit, IdleNext, PTL DEF Spec

-----------------------------------------------------------------------------
(* The report.                                                             *)
(*                                                                         *)
(* ReportIsTrue speaks of closed sessions only.  The inductive invariant   *)
(* says what holds on the way there: nothing is written before it is read  *)
(* and nothing read before it is sent, an end that was read is the end of  *)
(* what was sent, and a direction is over only when all of it was passed   *)
(* on.                                                                     *)

ByteTypeOK ==
    /\ sent \in [Ways -> Nat] /\ read \in [Ways -> Nat] /\ wrote \in [Ways -> Nat]
    /\ fin \in [Ways -> BOOLEAN] /\ eof \in [Ways -> BOOLEAN] /\ done \in [Ways -> BOOLEAN]

Flow(d) ==
    /\ wrote[d] <= read[d] /\ read[d] <= sent[d]
    /\ eof[d] => fin[d] /\ read[d] = sent[d]
    /\ done[d] => eof[d] /\ wrote[d] = read[d]

Undialled == phase = "dial" => read = Zero /\ wrote = Zero

BytesInv == ByteTypeOK /\ (\A d \in Ways : Flow(d)) /\ Undialled /\ ReportIsTrue

LEMMA BytesInit == Init => BytesInv
<1> SUFFICES ASSUME Init PROVE BytesInv
  OBVIOUS
<1>1. /\ sent = Zero /\ read = Zero /\ wrote = Zero
      /\ fin = Never /\ eof = Never /\ done = Never /\ reason = "open"
  BY DEF Init
<1>2. ByteTypeOK
  BY <1>1 DEF ByteTypeOK, Zero, Never
<1>3. \A d \in Ways : Flow(d)
  BY <1>1 DEF Flow, Zero, Never
<1> QED BY <1>1, <1>2, <1>3 DEF BytesInv, Undialled, ReportIsTrue

(* with_plaintext_bytes reports what the counters say.                     *)
LEMMA CountsAreTrue ==
    ASSUME BytesInv, UNCHANGED <<read, wrote>>,
           reason' # "normal", report' = Counts
    PROVE  ReportIsTrue'
<1>1. Counts["up"] = read["up"] /\ Counts["down"] = wrote["down"]
  BY DEF Counts, Ways
<1>2. read["up"] \in Nat /\ wrote["up"] \in Nat /\ wrote["up"] <= read["up"]
  BY DEF BytesInv, ByteTypeOK, Flow, Ways
<1>3. report'["up"] \in wrote'["up"] .. read'["up"] /\ report'["down"] = wrote'["down"]
  BY <1>1, <1>2
<1> QED BY <1>3 DEF ReportIsTrue

(* A step that only ends the session, or moves no byte and no end.         *)
LEMMA ByteFrame ==
    ASSUME BytesInv, UNCHANGED <<sent, fin, read, wrote, eof, done>>,
           phase' = phase \/ phase' = "relay", ReportIsTrue'
    PROVE  BytesInv'
<1>1. ByteTypeOK' /\ Undialled'
  BY DEF BytesInv, ByteTypeOK, Undialled, Zero
<1>2. \A d \in Ways : Flow(d)'
  BY DEF BytesInv, Flow
<1> QED BY <1>1, <1>2 DEF BytesInv

(* A step of one direction that leaves the session open.                   *)
LEMMA ByteStep ==
    ASSUME BytesInv, NEW d \in Ways, Relaying, UNCHANGED <<phase, reason>>,
           ByteTypeOK', Flow(d)',
           \A e \in Ways \ {d} :
              /\ sent'[e] = sent[e] /\ read'[e] = read[e] /\ wrote'[e] = wrote[e]
              /\ fin'[e] = fin[e] /\ eof'[e] = eof[e] /\ done'[e] = done[e]
    PROVE  BytesInv'
<1>1. ASSUME NEW e \in Ways, e # d PROVE Flow(e)'
  BY <1>1 DEF BytesInv, Flow
<1>2. \A e \in Ways : Flow(e)'
  BY Zenon, <1>1
<1>3. Undialled' /\ ReportIsTrue'
  BY DEF Undialled, ReportIsTrue, Relaying, Open
<1> QED BY <1>2, <1>3 DEF BytesInv

LEMMA BytesNext == BytesInv /\ [Next]_vars => BytesInv'
<1> SUFFICES ASSUME BytesInv, [Next]_vars PROVE BytesInv'
  OBVIOUS
<1>t. ByteTypeOK
  BY DEF BytesInv
<1>1. ASSUME NEW d \in Ways, Send(d) PROVE BytesInv'
  <2>1. /\ Relaying /\ ~fin[d] /\ sent' = [sent EXCEPT ![d] = @ + 1]
        /\ UNCHANGED <<phase, reason, fin, read, wrote, eof, done>>
    BY <1>1 DEF Send
  <2>2. ByteTypeOK' /\ sent'[d] = sent[d] + 1
    BY <1>t, <2>1 DEF ByteTypeOK
  <2>3. Flow(d)'
    BY <1>t, <2>1, <2>2 DEF BytesInv, Flow, ByteTypeOK
  <2>4. \A e \in Ways \ {d} : sent'[e] = sent[e]
    BY <1>t, <2>1 DEF ByteTypeOK
  <2> QED BY <2>1, <2>2, <2>3, <2>4, ByteStep
<1>2. ASSUME NEW d \in Ways, End(d) PROVE BytesInv'
  <2>1. /\ Relaying /\ fin' = [fin EXCEPT ![d] = TRUE]
        /\ UNCHANGED <<phase, reason, sent, read, wrote, eof, done>>
    BY <1>2 DEF End
  <2>2. ByteTypeOK' /\ fin'[d] = TRUE
    BY <1>t, <2>1 DEF ByteTypeOK
  <2>3. Flow(d)'
    BY <2>1, <2>2 DEF BytesInv, Flow
  <2>4. \A e \in Ways \ {d} : fin'[e] = fin[e]
    BY <1>t, <2>1 DEF ByteTypeOK
  <2> QED BY Zenon, <2>1, <2>2, <2>3, <2>4, ByteStep
<1>3. ASSUME NEW d \in Ways, Read(d) PROVE BytesInv'
  <2>1. PICK n \in 1 .. ChunkLimit :
          read[d] + n <= sent[d] /\ read' = [read EXCEPT ![d] = @ + n]
    BY Zenon, <1>3 DEF Read
  <2>2. /\ Relaying /\ ~eof[d] /\ n \in Nat
        /\ UNCHANGED <<phase, reason, sent, fin, wrote, eof, done>>
    BY <1>3, <2>1, BoundsAssumption DEF Read, MayRead
  <2>3. ByteTypeOK' /\ read'[d] = read[d] + n
    BY <1>t, <2>1, <2>2 DEF ByteTypeOK
  <2>4. Flow(d)'
    BY <1>t, <2>1, <2>2, <2>3 DEF BytesInv, Flow, ByteTypeOK
  <2>5. \A e \in Ways \ {d} : read'[e] = read[e]
    BY <1>t, <2>1 DEF ByteTypeOK
  <2> QED BY <2>2, <2>3, <2>4, <2>5, ByteStep
<1>4. ASSUME NEW d \in Ways, Write(d) PROVE BytesInv'
  <2>1. /\ Relaying /\ wrote[d] < read[d] /\ wrote' = [wrote EXCEPT ![d] = @ + 1]
        /\ UNCHANGED <<phase, reason, sent, fin, read, eof, done>>
    BY <1>4 DEF Write, Pending
  <2>2. ByteTypeOK' /\ wrote'[d] = wrote[d] + 1
    BY <1>t, <2>1 DEF ByteTypeOK
  <2>3. Flow(d)'
    BY <1>t, <2>1, <2>2 DEF BytesInv, Flow, ByteTypeOK
  <2>4. \A e \in Ways \ {d} : wrote'[e] = wrote[e]
    BY <1>t, <2>1 DEF ByteTypeOK
  <2> QED BY <2>1, <2>2, <2>3, <2>4, ByteStep
<1>5. ASSUME NEW d \in Ways, ReadEof(d) PROVE BytesInv'
  <2>1. /\ Relaying /\ fin[d] /\ read[d] = sent[d]
        /\ UNCHANGED <<phase, sent, fin, read, wrote, done>>
    BY <1>5 DEF ReadEof
  <2>2. CASE d = "down" /\ ~greeted
    <3>1. UNCHANGED eof /\ reason' = "error" /\ report' = Counts
      BY <1>5, <2>2 DEF ReadEof, Close
    <3> QED BY <2>1, <3>1, CountsAreTrue, ByteFrame
  <2>3. CASE ~(d = "down" /\ ~greeted)
    <3>1. eof' = [eof EXCEPT ![d] = TRUE] /\ UNCHANGED reason
      BY <1>5, <2>3 DEF ReadEof
    <3>2. ByteTypeOK' /\ eof'[d] = TRUE
      BY <1>t, <2>1, <3>1 DEF ByteTypeOK
    <3>3. Flow(d)'
      BY <2>1, <3>2 DEF BytesInv, Flow
    <3>4. \A e \in Ways \ {d} : eof'[e] = eof[e]
      BY <1>t, <3>1 DEF ByteTypeOK
    <3> QED BY Zenon, <2>1, <3>1, <3>2, <3>3, <3>4, ByteStep
  <2> QED BY <2>2, <2>3
<1>6. ASSUME NEW d \in Ways, Finish(d) PROVE BytesInv'
  <2>1. /\ Relaying /\ eof[d] /\ ~Pending(d) /\ done' = [done EXCEPT ![d] = TRUE]
        /\ UNCHANGED <<kind, idle, phase, sent, fin, read, wrote, eof>>
    BY <1>6 DEF Finish, Passes
  <2>2. ByteTypeOK' /\ done'[d] = TRUE
    BY <1>t, <2>1 DEF ByteTypeOK
  <2>3. Flow(d)'
    BY <1>t, <2>1, <2>2 DEF BytesInv, Flow, Pending, ByteTypeOK
  <2>4. \A e \in Ways \ {d} : done'[e] = done[e]
    BY <1>t, <2>1 DEF ByteTypeOK
  <2>5. CASE reason' = reason
    BY Zenon, <2>1, <2>2, <2>3, <2>4, <2>5, ByteStep
  <2>6. CASE /\ reason' = "normal" /\ report' = wrote
             /\ \/ \A e \in Ways : done'[e]
                \/ Single /\ done'["down"] /\ wrote["down"] >= 1
    <3>1. \A e \in Ways : Flow(e)'
      <4> SUFFICES ASSUME NEW e \in Ways, e # d PROVE Flow(e)'
        BY <2>3
      <4> QED BY <2>1, <2>4 DEF BytesInv, Flow
    <3>2. \A e \in Ways : done'[e] => fin[e] /\ wrote[e] = sent[e]
      BY <2>1, <3>1 DEF Flow
    <3>3. /\ fin["down"] /\ wrote["down"] = sent["down"]
          /\ \/ fin["up"] /\ wrote["up"] = sent["up"]
             \/ Single /\ wrote["down"] > 0
      BY <1>t, <2>6, <3>2 DEF Ways, ByteTypeOK
    <3>4. wrote["up"] \in wrote["up"] .. read["up"]
      BY <1>t DEF BytesInv, Flow, ByteTypeOK, Ways
    <3>5. ReportIsTrue'
      BY <2>1, <2>6, <3>3, <3>4 DEF ReportIsTrue, Single
    <3>6. Undialled'
      BY <2>1 DEF Undialled, Relaying
    <3> QED BY <2>2, <3>1, <3>5, <3>6 DEF BytesInv
  <2> QED BY <1>6, <2>5, <2>6 DEF Finish, Passes, Close
<1>7. ASSUME Dial PROVE BytesInv'
  <2>1. /\ phase = "dial" /\ Open /\ (phase' = phase \/ phase' = "relay")
        /\ UNCHANGED <<sent, fin, read, wrote, eof, done>>
        /\ reason' = reason \/ (reason' = "error" /\ report' = Zero)
    BY <1>7 DEF Dial, Close
  <2>2. read = Zero /\ wrote = Zero
    BY <2>1 DEF BytesInv, Undialled
  <2>3. ReportIsTrue'
    BY <2>1, <2>2 DEF ReportIsTrue, Open, Zero, Ways
  <2> QED BY <2>1, <2>3, ByteFrame
<1>8. ASSUME ReadHeader \/ Tick PROVE BytesInv'
  <2>1. Open /\ UNCHANGED <<phase, reason, sent, fin, read, wrote, eof, done>>
    BY <1>8 DEF ReadHeader, Tick, Relaying
  <2>2. ReportIsTrue'
    BY <2>1 DEF ReportIsTrue, Open
  <2> QED BY <2>1, <2>2, ByteFrame
<1>9. ASSUME Break \/ IdleLooks PROVE BytesInv'
  <2>1. /\ Open /\ UNCHANGED <<phase, sent, fin, read, wrote, eof, done>>
        /\ reason' = reason \/ (reason' # "normal" /\ report' = Counts)
    BY <1>9 DEF Break, IdleLooks, TimerFires, TimerRuns, Close, Relaying
  <2>2. CASE reason' = reason
    BY <2>1, <2>2, ByteFrame DEF ReportIsTrue, Open
  <2>3. CASE reason' # "normal" /\ report' = Counts
    BY <2>1, <2>3, CountsAreTrue, ByteFrame
  <2> QED BY <2>1, <2>2, <2>3
<1>10. ASSUME Over \/ UNCHANGED vars PROVE BytesInv'
  <2>1. UNCHANGED vars
    BY <1>10 DEF Over
  <2>2. ReportIsTrue'
    BY <2>1 DEF BytesInv, ReportIsTrue, Single, vars
  <2> QED BY <2>1, <2>2, ByteFrame DEF vars
<1> QED
  BY <1>1, <1>2, <1>3, <1>4, <1>5, <1>6, <1>7, <1>8, <1>9, <1>10 DEF Next

(* For every protocol and every traffic, what tcp-close reports is what    *)
(* happened: "normal" only when nothing of the upstream was lost, with     *)
(* exactly the bytes that were passed on.                                  *)
THEOREM ReportsAreTrue == Spec => []ReportIsTrue
<1>1. BytesInv => ReportIsTrue
  BY DEF BytesInv
<1> QED BY <1>1, BytesInit, BytesNext, PTL DEF Spec

-----------------------------------------------------------------------------
(* The replay window.                                                      *)
(*                                                                         *)
(* NoReplay is about what the client was given, the window about what it   *)
(* remembers.  The inductive invariant ties them: the window knows every   *)
(* id that was given, as a bit of its word or by being too old for it.     *)
(* The lemmas say that a window refuses what it knows, knows what it       *)
(* accepts, and forgets nothing when it moves.                             *)

Known(w, id) ==
    /\ w.latest # NoId /\ id <= w.latest
    /\ w.latest - id < WindowBits => w.latest - id \in w.seen

LEMMA KnownIsRefused ==
    ASSUME NEW w \in Windows, NEW id \in Nat, Known(w, id)
    PROVE  ~Accepts(w, id)
BY DEF Windows, Known, Accepts, NoId

LEMMA UpdateType ==
    ASSUME NEW w \in Windows, NEW id \in Nat, Accepts(w, id)
    PROVE  Update(w, id) \in Windows
<1>1. 0 \in 0 .. WindowBits - 1 /\ WindowBits \in Nat
  BY WindowBitsAssumption
<1>2. CASE w.latest = NoId
  BY <1>1, <1>2 DEF Windows, Update
<1>3. CASE w.latest # NoId /\ id > w.latest
  BY <1>1, <1>3 DEF Windows, Update, Shifted
<1>4. CASE w.latest # NoId /\ ~(id > w.latest)
  <2>1. w.latest - id \in 0 .. WindowBits - 1
    BY <1>1, <1>4 DEF Windows, Accepts, NoId
  <2> QED BY <2>1, <1>4 DEF Windows, Update
<1> QED BY <1>2, <1>3, <1>4

LEMMA AcceptedIsKnown ==
    ASSUME NEW w \in Windows, NEW id \in Nat, Accepts(w, id)
    PROVE  Known(Update(w, id), id)
<1>1. CASE w.latest = NoId \/ id > w.latest
  <2>1. Update(w, id).latest = id /\ 0 \in Update(w, id).seen
    BY <1>1 DEF Update
  <2> QED BY <2>1 DEF Known, NoId
<1>2. CASE w.latest # NoId /\ ~(id > w.latest)
  <2>1. Update(w, id) = [w EXCEPT !.seen = @ \union {w.latest - id}]
    BY <1>2 DEF Update
  <2>2. Update(w, id).latest = w.latest /\ w.latest - id \in Update(w, id).seen
    BY <2>1 DEF Windows
  <2> QED BY <1>2, <2>2 DEF Known, Windows, NoId
<1> QED BY <1>1, <1>2

LEMMA KnownStaysKnown ==
    ASSUME NEW w \in Windows, NEW a \in Nat, NEW id \in Nat,
           Known(w, a), Accepts(w, id)
    PROVE  Known(Update(w, id), a)
<1>1. w.latest \in Nat /\ WindowBits \in Nat
  BY WindowBitsAssumption DEF Known, Windows, NoId
<1>2. CASE id > w.latest
  <2>1. /\ Update(w, id).latest = id
        /\ Update(w, id).seen = Shifted(w.seen, id - w.latest) \union {0}
    BY <1>1, <1>2 DEF Update, NoId
  <2>2. a <= id
    BY <1>1, <1>2 DEF Known
  <2>3. ASSUME id - a < WindowBits PROVE id - a \in Shifted(w.seen, id - w.latest)
    <3>1. (id - a) - (id - w.latest) = w.latest - a
      BY <1>1
    <3>2. w.latest - a \in w.seen
      BY <1>1, <1>2, <2>3 DEF Known
    <3>3. id - a \in 0 .. WindowBits - 1
      BY <1>1, <2>2, <2>3
    <3> QED BY <3>1, <3>2, <3>3 DEF Shifted
  <2> QED BY <1>1, <2>1, <2>2, <2>3 DEF Known, NoId
<1>3. CASE ~(id > w.latest)
  <2>1. Update(w, id) = [w EXCEPT !.seen = @ \union {w.latest - id}]
    BY <1>1, <1>3 DEF Update, NoId
  <2>2. Update(w, id).latest = w.latest /\ w.seen \subseteq Update(w, id).seen
    BY <2>1 DEF Windows
  <2> QED BY <2>2 DEF Known
<1> QED BY <1>2, <1>3

-----------------------------------------------------------------------------
(* The window that checks the ids the client's datagrams are named by.     *)
Guard == IF Chained THEN inner ELSE outer

ReplayTypeOK ==
    /\ outer \in Windows /\ inner \in Windows
    /\ sizes \in Seq(Nat)
    /\ network \subseteq Nat \X Nat
    /\ Guarded => given \in Seq(Nat)

OneLeg == node = "ss2022" => \A p \in network : p[1] = p[2]

Remembered == Guarded => \A i \in DOMAIN given : Known(Guard, given[i])

ReplayInv == ReplayTypeOK /\ OneLeg /\ Remembered /\ NoReplay

LEMMA ReplayInit == UdpInit => ReplayInv
<1> SUFFICES ASSUME UdpInit PROVE ReplayInv
  OBVIOUS
<1>1. NewWindow \in Windows
  BY DEF NewWindow, Windows, NoId
<1>2. given = <<>> /\ sizes = <<>> /\ network = {} /\ outer = NewWindow /\ inner = NewWindow
  BY DEF UdpInit
<1>3. <<>> \in Seq(Nat) /\ DOMAIN given = {}
  BY <1>2
<1> QED BY <1>1, <1>2, <1>3 DEF ReplayInv, ReplayTypeOK, OneLeg, Remembered, NoReplay

(* A step that gives the client nothing and moves no window; packets may   *)
(* go.                                                                     *)
LEMMA NothingGiven ==
    ASSUME ReplayInv, UNCHANGED <<node, given, outer, inner>>,
           network' \subseteq network, sizes' \in Seq(Nat)
    PROVE  ReplayInv'
<1>1. (Guarded' <=> Guarded) /\ Guard' = Guard
  BY DEF Guarded, Guard, Chained
<1>2. ReplayTypeOK' /\ OneLeg'
  BY <1>1 DEF ReplayInv, ReplayTypeOK, OneLeg
<1>3. Remembered' /\ NoReplay'
  BY <1>1 DEF ReplayInv, Remembered, NoReplay
<1> QED BY <1>2, <1>3 DEF ReplayInv

LEMMA RecvPacketHolds == ReplayInv /\ RecvPacket => ReplayInv'
<1> SUFFICES ASSUME ReplayInv, RecvPacket PROVE ReplayInv'
  OBVIOUS
<1>1. PICK p \in network :
        /\ network' \in {network \ {p}} \union
                        (IF Len(given) < MaxPackets THEN {network} ELSE {})
        /\ outer' = IF Guarded /\ Accepts(outer, p[1]) THEN Update(outer, p[1])
                                                       ELSE outer
        /\ inner' = IF Chained /\ Accepts(outer, p[1]) /\ Accepts(inner, p[2])
                    THEN Update(inner, p[2]) ELSE inner
        /\ IF /\ Guarded => Accepts(outer, p[1])
              /\ Chained => Accepts(inner, p[2])
           THEN Respond(p[2])
           ELSE outcome' = "error" /\ UNCHANGED given
  BY DEF RecvPacket
<1>2. UNCHANGED <<node, sizes>> /\ network' \subseteq network
  BY <1>1 DEF RecvPacket
<1>3. p[1] \in Nat /\ p[2] \in Nat
  BY <1>1 DEF ReplayInv, ReplayTypeOK
<1>4. outer \in Windows /\ inner \in Windows
  BY DEF ReplayInv, ReplayTypeOK
<1>5. outer' \in Windows /\ inner' \in Windows
  BY <1>1, <1>3, <1>4, UpdateType
<1>6. OneLeg'
  BY <1>2 DEF ReplayInv, OneLeg
<1>7. (Guarded' <=> Guarded) /\ (Chained' <=> Chained) /\ (Chained => Guarded)
  BY <1>2 DEF Guarded, Chained
<1>8. CASE ~Guarded
  BY <1>2, <1>5, <1>6, <1>7, <1>8 DEF ReplayInv, ReplayTypeOK, Remembered, NoReplay
<1>9. CASE Guarded
  <2>1. p[1] = p[2] \/ Chained
    BY <1>1, <1>9 DEF ReplayInv, OneLeg, Guarded, Chained
  <2>2. ASSUME NEW a \in Nat, Known(Guard, a) PROVE Known(Guard', a)
    BY <1>1, <1>3, <1>4, <1>7, <1>9, <2>2, KnownStaysKnown DEF Guard
  <2>3. given \in Seq(Nat) /\ \A i \in DOMAIN given : given[i] \in Nat
    BY <1>9 DEF ReplayInv, ReplayTypeOK
  <2>4. \A i \in DOMAIN given : Known(Guard', given[i])
    BY <1>9, <2>2, <2>3 DEF ReplayInv, Remembered
  <2>5. CASE UNCHANGED given
    <3>1. Remembered' /\ NoReplay'
      BY <1>7, <1>9, <2>4, <2>5 DEF ReplayInv, Remembered, NoReplay
    <3>2. ReplayTypeOK'
      BY <1>2, <1>5, <2>3, <2>5 DEF ReplayInv, ReplayTypeOK
    <3> QED BY <1>6, <3>1, <3>2 DEF ReplayInv
  <2>6. CASE /\ Accepts(outer, p[1]) /\ (Chained => Accepts(inner, p[2]))
             /\ given' = Append(given, p[2])
    <3>1. Known(Guard', p[2])
      BY <1>1, <1>3, <1>4, <1>7, <1>9, <2>1, <2>6, AcceptedIsKnown DEF Guard
    <3>2. ~Known(Guard, p[2])
      BY <1>3, <1>4, <2>1, <2>6, KnownIsRefused DEF Guard
    <3>3. \A i \in DOMAIN given : given[i] # p[2]
      BY <1>9, <3>2 DEF ReplayInv, Remembered
    <3>4. /\ given' \in Seq(Nat) /\ Len(given') = Len(given) + 1
          /\ DOMAIN given' = 1 .. Len(given) + 1 /\ DOMAIN given = 1 .. Len(given)
          /\ \A i \in DOMAIN given : given'[i] = given[i]
          /\ given'[Len(given) + 1] = p[2] /\ Len(given) \in Nat
      BY <1>3, <2>3, <2>6
    <3>5. \A i \in DOMAIN given' : i \in DOMAIN given \/ i = Len(given) + 1
      BY <3>4
    <3>6. Remembered'
      BY <2>4, <3>1, <3>4, <3>5 DEF Remembered
    <3>7. NoReplay'
      BY <1>9, <3>3, <3>4, <3>5 DEF ReplayInv, NoReplay
    <3>8. ReplayTypeOK'
      BY <1>2, <1>5, <3>4 DEF ReplayInv, ReplayTypeOK
    <3> QED BY <1>6, <3>6, <3>7, <3>8 DEF ReplayInv
  <2> QED BY <1>1, <1>9, <2>5, <2>6 DEF Respond
<1> QED BY <1>8, <1>9

LEMMA ReplayNext == ReplayInv /\ [UdpNext]_udpVars => ReplayInv'
<1> SUFFICES ASSUME ReplayInv, [UdpNext]_udpVars PROVE ReplayInv'
  OBVIOUS
<1>t. sizes \in Seq(Nat)
  BY DEF ReplayInv, ReplayTypeOK
<1>1. ASSUME NEW class \in {"plain", "large"}, Offer(class) PROVE ReplayInv'
  BY <1>1, <1>t, NothingGiven DEF Offer, upstreamVars, readVars
<1>2. ASSUME NEW size \in Sizes, SendFrame(size) PROVE ReplayInv'
  <2>1. sizes' \in Seq(Nat)
    BY <1>2, <1>t, UdpAssumption DEF SendFrame
  <2> QED BY <1>2, <2>1, NothingGiven DEF SendFrame, readVars
<1>3. ASSUME SendPacket PROVE ReplayInv'
  <2>1. PICK id \in 0 .. Len(sizes) :
          /\ node = "ss2022-chain" \/ id = Len(sizes)
          /\ network' = network \union {<<Len(sizes), id>>}
    BY <1>3 DEF SendPacket
  <2>2. UNCHANGED <<node, given, outer, inner>> /\ sizes' = Append(sizes, 0)
    BY <1>3 DEF SendPacket, readVars
  <2>3. Len(sizes) \in Nat /\ id \in Nat /\ sizes' \in Seq(Nat)
    BY <2>2, <1>t
  <2>4. (Guarded' <=> Guarded) /\ Guard' = Guard
    BY <2>2 DEF Guarded, Guard, Chained
  <2>5. ReplayTypeOK'
    BY <2>1, <2>2, <2>3, <2>4 DEF ReplayInv, ReplayTypeOK
  <2>6. OneLeg'
    BY <2>1, <2>2 DEF ReplayInv, OneLeg
  <2>7. Remembered' /\ NoReplay'
    BY <2>2, <2>4 DEF ReplayInv, Remembered, NoReplay
  <2> QED BY <2>5, <2>6, <2>7 DEF ReplayInv
<1>4. ASSUME PollReader PROVE ReplayInv'
  <2>1. node \in Streams /\ UNCHANGED <<node, sizes, network, outer, inner>>
    BY <1>4 DEF PollReader, Polled, upstreamVars
  <2>2. ~Guarded' /\ node' # "ss2022"
    BY <2>1 DEF Guarded, Streams
  <2> QED BY <2>1, <2>2 DEF ReplayInv, ReplayTypeOK, OneLeg, Remembered, NoReplay
<1>5. ASSUME RecvPacket PROVE ReplayInv'
  BY <1>5, RecvPacketHolds
<1>6. ASSUME CloseInbound \/ Arrive \/ Lose \/ EndStream PROVE ReplayInv'
  <2>1. UNCHANGED <<node, given, outer, inner, sizes>> /\ network' \subseteq network
    BY <1>6 DEF CloseInbound, Arrive, Lose, EndStream, upstreamVars, readVars
  <2> QED BY <2>1, <1>t, NothingGiven
<1>7. ASSUME TakeDownstream \/ Written \/ InboundClosed PROVE ReplayInv'
  <2>1. UNCHANGED <<node, given, outer, inner, sizes, network>>
    BY <1>7 DEF TakeDownstream, Written, InboundClosed, Gone, upstreamVars, readVars
  <2> QED BY <2>1, <1>t, NothingGiven
<1>8. ASSUME StreamFails \/ RecvFails \/ IdleTimeout \/ Dissociated \/ UNCHANGED udpVars
      PROVE  ReplayInv'
  <2>1. UNCHANGED <<node, given, outer, inner, sizes, network>>
    BY <1>8 DEF StreamFails, RecvFails, IdleTimeout, Dissociated, udpVars, upstreamVars,
                readVars
  <2> QED BY <2>1, <1>t, NothingGiven
<1> QED BY <1>1, <1>2, <1>3, <1>4, <1>5, <1>6, <1>7, <1>8 DEF UdpNext

(* Whatever the network doubles, loses or reorders, and whatever the width *)
(* of the window, no packet of a Shadowsocks 2022 session, direct or       *)
(* behind another, reaches the client twice.                               *)
THEOREM NeverReplayed == UdpSpec => []NoReplay
<1>1. ReplayInv => NoReplay
  BY DEF ReplayInv
<1> QED BY <1>1, ReplayInit, ReplayNext, PTL DEF UdpSpec
=============================================================================
