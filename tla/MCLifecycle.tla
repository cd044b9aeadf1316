---------------------------- MODULE MCLifecycle ----------------------------
(* The end of a service: a behaviour is the shutdown of one process, or the  *)
(* commands that install and clean up the capture hooks around it, and the   *)
(* other one stays as it began.                                              *)
EXTENDS MCCaptureHooks, RuntimeShutdown

VARIABLE focus

allVars == <<vars, focus, processVars>>

LifecycleInit ==
  /\ focus \in {"process", "hooks"}
  /\ Init /\ (focus # "hooks" => art = Nothing)
  /\ ProcessInit /\ (focus # "process" => ~reloading)

LifecycleNext ==
  \/ focus = "hooks" /\ Next /\ UNCHANGED <<focus, processVars>>
  \/ focus = "process" /\ ProcessNext /\ UNCHANGED <<vars, focus>>

LifecycleSpec == LifecycleInit /\ [][LifecycleNext]_allVars /\ ProcessFairness
=============================================================================
