--------------------------- MODULE ReloadableEgress ---------------------------
(***************************************************************************)
(* The map of compiled egress graphs that ReloadableEgress keeps behind    *)
(* one read-write lock: a function from a configuration generation to the  *)
(* graph compiled for it.  Every operation below runs under that lock, so  *)
(* each one maps one value of the map to the next.                         *)
(***************************************************************************)
EXTENDS Integers, FiniteSets

CONSTANT Retained    \* RETAINED_GENERATIONS, 8 in the code

ASSUME RetainedAssumption == Retained \in Nat /\ Retained >= 2

(* What the eviction loop leaves of the generations `gens`: it removes the  *)
(* smallest key while more than Retained keys are left.                     *)
Newest(gens) == {g \in gens : Cardinality({h \in gens : h > g}) < Retained}

(* ReloadableEgress::new: one generation.                                   *)
NewEgress(gen, graph) == [g \in {gen} |-> graph]

(* ReloadableEgress::install, once the graph has compiled.                  *)
Install(map, gen, graph) ==
  [g \in Newest(DOMAIN map \cup {gen}) |-> IF g = gen THEN graph ELSE map[g]]

(* ReloadableEgress::remove.                                                *)
Remove(map, gen) == [g \in DOMAIN map \ {gen} |-> map[g]]
===============================================================================
