---------------------------- MODULE MCVisionStream ----------------------------
(* A small instance of VisionStream: a TLS 1.3 and a non-TLS inner stream, *)
(* and servers that go raw, that end the padding, and that never pad.      *)
EXTENDS VisionStream

Client      == <<Handshake, 3, 2, ClientHello, 0>>
Server13    == <<Handshake, 3, 2, ServerHello, 13>>
Server12    == <<Handshake, 3, 2, ServerHello, 12>>
Data(x)     == <<AppData, 3, 1, x>>
Outer(s)    == <<AppData, 3, Len(s)>> \o Seal(s)
Plain       == <<50, Handshake, 3, 51, 52, 53>>

Everywhere(s) == 1..Len(s)

(* TLS 1.3: raw from the second record on.                                 *)
GoesDirect(anywhere) ==
  LET first  == Outer(<<0, 0>> \o Pad(Server13, TRUE, Continue, 1))
      second == Outer(Pad(Data(70), FALSE, Direct, 1))
      s      == first \o second \o Data(71)
  IN [wire |-> s, app |-> Server13 \o Data(70) \o Data(71), gate |-> Len(first),
      cuts |-> IF anywhere THEN Everywhere(s) ELSE {Len(first), Len(s)}]

(* TLS 1.2: the padding ends, the outer TLS stays; the response header has *)
(* an addon and is cut by a record boundary.                               *)
EndsPadding(anywhere) ==
  LET first == Outer(<<0>>) \o Outer(<<1, 9>> \o Pad(Server12, TRUE, Continue, 0))
      s == first \o Outer(Pad(Data(70), FALSE, End, 1) \o <<72>>) \o Outer(<<>>)
             \o Outer(Data(71))
  IN [wire |-> s, app |-> Server12 \o Data(70) \o <<72>> \o Data(71), gate |-> Len(s),
      cuts |-> IF anywhere THEN Everywhere(s) ELSE {Len(first), Len(s)}]

(* A block cut by a record boundary, padding until the end of the stream.  *)
KeepsPadding ==
  LET block == Pad(Plain, TRUE, Continue, 1) \o Pad(<<74>>, FALSE, Continue, 0)
      s == Outer(<<0, 0>>) \o Outer(Take(block, 6)) \o Outer(Drop(block, 6))
  IN [wire |-> s, app |-> Plain \o <<74>>, gate |-> Len(s), cuts |-> Everywhere(s)]

NeverPads(anywhere) ==
  LET s == Outer(<<0, 0>> \o <<50, 51>>) \o Outer(<<52, 53>>)
  IN [wire |-> s, app |-> <<50, 51, 52, 53>>, gate |-> Len(s),
      cuts |-> IF anywhere THEN Everywhere(s) ELSE {Len(s)}]

(* Either direction in full detail, the other one coarse.                  *)
MCDialogues ==
  {<<Client \o Data(60) \o Data(61), GoesDirect(FALSE)>>,
   <<Client \o Data(60), EndsPadding(FALSE)>>,
   <<Plain, NeverPads(FALSE)>>,
   <<<<54>> \o Client \o <<55, 56, 57>>, NeverPads(FALSE)>>}
  \cup {<<<<54>>, s>> : s \in {GoesDirect(TRUE), EndsPadding(TRUE), KeepsPadding,
                              NeverPads(TRUE)}}

MCRooms    == {0, 3, 40}
MCPaddings == {0, 1}
=============================================================================
