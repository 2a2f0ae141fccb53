-------------------------- MODULE MCDecisionCycle --------------------------
(* Two units and two replicas; the second revision of the catalog shrinks a *)
(* unit.  The allocation is checked for every pair of units listed here:    *)
(* with and without an envelope, one that forbids a direction, one with a   *)
(* least setpoint.                                                          *)
EXTENDS DecisionCycle, TLC

Unit(energy, charge, discharge, lo, hi) ==
    [energy |-> energy, maxCharge |-> charge, maxDischarge |-> discharge, lo |-> lo, hi |-> hi]

MCUnits == {Unit(e, c, 4, {}, {}) : e \in {1, 3}, c \in {0, 2}}
           \cup {Unit(2, 5, 5, lo, hi) : lo \in {{}, {0 - 1}, {2}}, hi \in {{}, {3}, {0 - 1}}}
MCCatalogs == <<[ok |-> TRUE, unit |-> [u \in CUs |-> Unit(3, 0, 4, {}, {})]],
                [ok |-> FALSE, unit |-> [u \in CUs |-> Unit(2, 5, 5, {2}, {0 - 1})]]>>
MCRules == {[min |-> 20, max |-> 80, charge |-> 4, discharge |-> 7]}
MCSymmetry == Permutations(Replicas)
=============================================================================
