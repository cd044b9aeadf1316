----------------------------- MODULE MCUdpIngress -----------------------------
(* Small instances of UdpIngress for TLC.                                    *)
EXTENDS UdpIngress

CONSTANTS p1, p2
===============================================================================
