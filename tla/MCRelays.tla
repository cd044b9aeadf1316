------------------------------ MODULE MCRelays ------------------------------
(***************************************************************************)
(* The relays of the egress nodes: a behaviour is one TCP session or one   *)
(* UDP association over one node, and the other one stays as it began.     *)
(* Every protocol takes part.                                              *)
(***************************************************************************)
EXTENDS TcpRelay, UdpAssociation

VARIABLE focus

allVars == <<vars, focus, udpVars>>

RelaysInit ==
    /\ focus \in {"tcp", "udp"}
    /\ Init /\ (focus # "tcp" => kind = "direct" /\ idle)
    /\ UdpInit /\ (focus # "udp" => node = "direct")

RelaysNext ==
    \/ focus = "tcp" /\ Next /\ UNCHANGED <<focus, udpVars>>
    \/ focus = "udp" /\ UdpNext /\ UNCHANGED <<vars, focus>>

RelaysSpec == RelaysInit /\ [][RelaysNext]_allVars /\ UdpFairness
=============================================================================
