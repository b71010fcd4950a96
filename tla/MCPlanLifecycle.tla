-------------------------- MODULE MCPlanLifecycle --------------------------
(* A call whose agent loop may run twice, or may ask but never run, and one *)
(* without loop, of the same query, whose caller may give up.               *)
EXTENDS PlanLifecycle

CONSTANTS c1, c2

MCConfigs ==
    [c \in Calls |->
        IF c = c1 THEN {[replay |-> TRUE, loop |-> TRUE, max |-> 2],
                        [replay |-> FALSE, loop |-> TRUE, max |-> 0]}
        ELSE {[replay |-> TRUE, loop |-> FALSE, max |-> 0]}]

MCFlawed == {ContextRefine, SourcePlan}
=============================================================================
