---------------------------- MODULE MCTrafficSession ----------------------------
(* Small instances of TrafficSession.                                        *)
EXTENDS TrafficSession
===============================================================================
