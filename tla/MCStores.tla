------------------------------- MODULE MCStores -------------------------------
(* The stores behind the events: a behaviour is the ids of all tables across *)
(* restarts, or the two copies of one traffic session, and the other one     *)
(* stays as it began.                                                        *)
EXTENDS RuntimeRecovery

CONSTANTS TrafficTime, MaxDatagrams

VARIABLES
  focus,
  clock, protocol, association, sent, received, recording, pending, memory, row,
  recovered

Traffic == INSTANCE TrafficSession
             WITH MaxTime <- TrafficTime, now <- clock, queue <- pending

trafficVars ==
  <<clock, protocol, association, sent, received, recording, pending, memory, row,
    recovered>>
allVars == <<vars, focus, trafficVars>>

StoresInit ==
  /\ focus \in {"ids", "traffic"}
  /\ Init /\ Traffic!Init /\ (focus # "traffic" => protocol = "tcp")

StoresNext ==
  \/ focus = "ids" /\ Next /\ UNCHANGED <<focus, trafficVars>>
  \/ focus = "traffic" /\ Traffic!Next /\ UNCHANGED <<vars, focus>>

StoresSpec == StoresInit /\ [][StoresNext]_allVars /\ Traffic!Fairness

(* The properties of the traffic session, under their own names              *)
CopiesAgree == Traffic!CopiesAgree
CompletedRecovered == Traffic!CompletedRecovered
===============================================================================
