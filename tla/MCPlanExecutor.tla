--------------------------- MODULE MCPlanExecutor ---------------------------
(***************************************************************************)
(* Instances of PlanExecutor for TLC.  Plans of up to three agents: every  *)
(* pattern of repeated ids, each agent with no, one or two dependencies    *)
(* out of the plan's ids, one of them possibly twice, or with an unknown   *)
(* one.                                                                    *)
(***************************************************************************)
EXTENDS PlanExecutor

IdLists == {<<"a">>, <<"a", "b">>, <<"a", "a">>, <<"a", "b", "c">>, <<"a", "a", "b">>,
            <<"a", "b", "a">>, <<"a", "b", "b">>}
DependencyLists == {<<>>, <<"a">>, <<"b">>, <<"c">>, <<"a", "b">>, <<"b", "c">>,
                    <<"c", "a">>, <<"b", "b">>, <<"x">>}

PlansOf(ids) ==
    {[i \in DOMAIN ids |-> [id |-> ids[i], depends_on |-> d[i]]] :
        d \in [DOMAIN ids -> DependencyLists]}

AllPlans == UNION {PlansOf(ids) : ids \in IdLists}
=============================================================================
