-------------------------- MODULE MCRealitySession --------------------------
(***************************************************************************)
(* Small server streams for RealitySession.  A record is two units of      *)
(* overhead and its content.                                               *)
(***************************************************************************)
EXTENDS RealitySession, SequencesExt

Hello == [outer |-> "hello", key |-> "none", seq |-> 0, inner |-> "none",
          body |-> <<>>, data |-> 0]
Ccs == [Hello EXCEPT !.outer = "ccs"]
Flight(n, b) == [outer |-> "app", key |-> "hs", seq |-> n, inner |-> "handshake",
                 body |-> b, data |-> 0]
App(n, kind, d) == [outer |-> "app", key |-> "app", seq |-> n, inner |-> kind,
                    body |-> <<>>, data |-> d]

(* EncryptedExtensions, Certificate, CertificateVerify, Finished.          *)
Messages(cert, sig) ==
    <<EncryptedExtensions, 0, Certificate, 1, cert, CertificateVerify, 1, sig,
      Finished, 0>>
HonestFlight == Messages(1, 5)

Size(r) == 2 + Len(r.body) + r.data

(* A server that sends recs and closes after all but cut units of them.    *)
Server(recs, cut) ==
    LET ends[i \in 0 .. Len(recs)] == IF i = 0 THEN 0 ELSE ends[i-1] + Size(recs[i])
        data[i \in 0 .. Len(recs)] == IF i = 0 THEN 0 ELSE data[i-1] + recs[i].data
        plain == FoldLeft(LAMBDA acc, r : acc \o r.body, <<>>, recs)
    IN  [recs |-> recs, ends |-> ends, data |-> data, limit |-> ends[Len(recs)] - cut,
         honest |-> plain = HonestFlight, flight |-> HonestFlight]

Combined == <<Hello, Flight(0, HonestFlight)>>
Separate == <<Hello, Ccs, Flight(0, SubSeq(HonestFlight, 1, 5)),
              Flight(1, SubSeq(HonestFlight, 6, 10))>>

MCServers ==
    { Server(Combined \o <<App(0, "data", 10), App(1, "data", 9), App(2, "data", 1),
                           App(3, "warning", 0), App(4, "data", 4),
                           App(5, "close", 0), App(6, "data", 2)>>, 0),
      Server(Separate \o <<App(0, "data", 3), App(1, "data", 10), App(2, "data", 5)>>, 1),
      Server(Separate \o <<App(0, "data", 2), App(1, "fatal", 0)>>, 0),
      Server(Combined \o <<App(0, "data", 1), App(1, "zeros", 3)>>, 0),
      Server(Combined \o <<App(0, "data", 1), App(1, "handshake", 2)>>, 0),
      Server(<<Hello, Hello>>, 0),
      Server(<<Ccs, Hello>>, 0),
      Server(<<Hello, App(0, "data", 3)>>, 0),
      Server(<<Hello, Flight(0, Messages(0, 5))>>, 0),
      Server(<<Hello, Flight(0, Messages(1, 3))>>, 0),
      Server(<<Hello, Flight(0, SubSeq(HonestFlight, 1, 5)),
               Flight(1, <<Finished, 0, Finished, 0>>)>>, 0),
      Server(<<Hello, Flight(0, SubSeq(HonestFlight, 1, 4)),
               Flight(1, SubSeq(HonestFlight, 5, 10))>>, 0) }
=============================================================================
