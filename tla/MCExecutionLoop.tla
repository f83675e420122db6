-------------------------- MODULE MCExecutionLoop --------------------------
(***************************************************************************)
(* Instances of the execution loop for TLC.                                *)
(***************************************************************************)
EXTENDS ExecutionLoop

(* Two steps and, because nothing validates ids, a plan that repeats one.   *)
MCSteps == {"s1", "s2"}
MCPlans == {<<"s1", "s2">>, <<"s1", "s1">>}

(* A new plan may keep the old ids (the planner numbers its steps from one),*)
(* be shorter than what is already done, even empty, or longer.             *)
MCReplans == {<<>>, <<"s2">>, <<"s2", "s1", "s2">>}

MCTwoPlans == {<<"s1", "s2">>}
MCTwoReplans == {<<"s2">>, <<"s2", "s1">>, <<>>}
=============================================================================
