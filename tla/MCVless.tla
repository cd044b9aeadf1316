------------------------------- MODULE MCVless -------------------------------
(***************************************************************************)
(* The two layers of a VLESS connection: a behaviour is one Reality        *)
(* session or one Vision stream, and the other one stays as it began.      *)
(***************************************************************************)
EXTENDS MCRealitySession, MCVisionStream

VARIABLE focus

allVars == <<vars, focus, visionVars>>

VlessInit ==
    /\ focus \in {"reality", "vision"}
    /\ Init /\ (focus # "reality" => server = CHOOSE s \in Servers : TRUE)
    /\ VisionInit
    /\ focus # "vision" => <<app, script>> = CHOOSE d \in Dialogues : TRUE

VlessNext ==
    \/ focus = "reality" /\ Next /\ UNCHANGED <<focus, visionVars>>
    \/ focus = "vision" /\ VisionNext /\ UNCHANGED <<vars, focus>>

VlessSpec == VlessInit /\ [][VlessNext]_allVars
=============================================================================
