------------------------------- MODULE MCSelection -------------------------------
(***************************************************************************)
(* Selection: a behaviour is either one seed from its validation to a       *)
(* relayed session, with a matrix that may choose any candidate, or the     *)
(* sessions of one rollout group and the matrix that they feed.             *)
(***************************************************************************)
EXTENDS MCSelectionGraph

CONSTANTS MemberCount, Tasks, Upstreams, MinSuccess, MinSamples, MaxActive, Limit

VARIABLES focus, task, store, moved

Matrix == INSTANCE ActiveMatrix WITH Targets <- Upstreams

matrixVars == <<task, store, moved>>
graphVars ==
  <<seed, pc, starts, start, current, seen, target, trace, reason, path>>
allVars == <<focus, graphVars, matrixVars>>

AnySeed == CHOOSE s \in Seeds : TRUE

SelectionInit ==
  /\ focus \in {"graph", "matrix"}
  /\ Init /\ (focus # "graph" => seed = AnySeed)
  /\ Matrix!Init

SelectionNext ==
  \/ focus = "graph" /\ Next /\ UNCHANGED <<focus, matrixVars>>
  \/ focus = "matrix" /\ Matrix!Next /\ UNCHANGED <<focus, graphVars>>

(* The fairness of the part that a behaviour is about.                       *)
OfGraph(A) == focus = "graph" /\ A /\ UNCHANGED <<focus, matrixVars>>
OfMatrix(A) == focus = "matrix" /\ A /\ UNCHANGED <<focus, graphVars>>
SelectionFairness ==
  /\ WF_allVars(OfGraph(Proceeds))
  /\ \A t \in Tasks :
       /\ WF_allVars(OfMatrix(Matrix!Starts(t)))
       /\ WF_allVars(OfMatrix(Matrix!RecordShadowSelection(t)))
       /\ WF_allVars(OfMatrix(Matrix!Accept(t)))
       /\ WF_allVars(OfMatrix(Matrix!Ends(t)))

SelectionSpec == SelectionInit /\ [][SelectionNext]_allVars /\ SelectionFairness

(* The properties of each part, under their own names.                       *)
SeedWalksEnd == focus = "graph" => WalksEnd
OverloadExplained == Matrix!OverloadExplained
ShadowExplained == Matrix!ShadowExplained
EveryNodeRetried == focus = "matrix" => Matrix!EveryNodeRetried
===============================================================================
