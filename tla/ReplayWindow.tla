---------------------------- MODULE ReplayWindow ----------------------------
(***************************************************************************)
(* The replay window of a Shadowsocks 2022 UDP session: the newest packet  *)
(* id and, in the bits of a word, which of the WindowBits ids up to it     *)
(* have been seen.  Bit b of `seen` stands for the id latest - b; the      *)
(* shift of the word drops the bits that leave it.                         *)
(***************************************************************************)
EXTENDS Integers

CONSTANT WindowBits

ASSUME WindowBitsAssumption == WindowBits \in Nat \ {0}

NoId == -1

NewWindow == [latest |-> NoId, seen |-> {}]

Windows == [latest : Nat \union {NoId}, seen : SUBSET (0 .. WindowBits - 1)]

(* check_and_update: whether packet_id is accepted ...                     *)
Accepts(w, id) ==
    \/ w.latest = NoId
    \/ id > w.latest
    \/ w.latest - id < WindowBits /\ w.latest - id \notin w.seen

(* ... and the window after it was.                                        *)
Shifted(seen, shift) == {b \in 0 .. WindowBits - 1 : b - shift \in seen}

UpdateForgetting(w, id) ==
    IF w.latest = NoId \/ id > w.latest THEN [latest |-> id, seen |-> {0}]
    ELSE [w EXCEPT !.seen = @ \union {w.latest - id}]

Update(w, id) ==
    IF w.latest = NoId THEN [latest |-> id, seen |-> {0}]
    ELSE IF id > w.latest
    THEN [latest |-> id, seen |-> Shifted(w.seen, id - w.latest) \union {0}]
    ELSE [w EXCEPT !.seen = @ \union {w.latest - id}]
=============================================================================
