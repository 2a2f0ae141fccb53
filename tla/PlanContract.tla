---------------------------- MODULE PlanContract ----------------------------
(***************************************************************************)
(* What the execution of stored plans promises, whoever executes them and  *)
(* however often: Dispatch gets at most one task for a plan, a plan is     *)
(* settled once, and it is settled as submitted only if its task exists.   *)
(***************************************************************************)
EXTENDS Naturals

CONSTANT Plans

VARIABLES
    outcome,     \* outcome[p]: "open" until plan p is settled
    tasks        \* tasks[p]: how many Dispatch tasks were created for p

vars == <<outcome, tasks>>

Init == outcome = [p \in Plans |-> "open"] /\ tasks = [p \in Plans |-> 0]

Create(p) ==
    /\ tasks[p] = 0
    /\ tasks' = [tasks EXCEPT ![p] = 1]
    /\ UNCHANGED outcome

Settle(p, o) ==
    /\ outcome[p] = "open"
    /\ o = "submitted" => tasks[p] = 1
    /\ outcome' = [outcome EXCEPT ![p] = o]
    /\ UNCHANGED tasks

Next == \E p \in Plans :
            Create(p) \/ \E o \in {"submitted", "stale", "failed"} : Settle(p, o)

Spec == Init /\ [][Next]_vars
=============================================================================
