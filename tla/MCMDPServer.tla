------------------------------ MODULE MCMDPServer ------------------------------
(* A problem of three states, in which one action may fail and each is       *)
(* disabled somewhere; one client with two problems.                         *)
EXTENDS MDPClient, TLC

MCStates == {"s0", "s1", "s2"}
MCActions == {"a", "b"}
MCEnabled(a, s) == <<a, s>> \in {<<"a", "s0">>, <<"b", "s1">>, <<"b", "s2">>}
MCSucc(s, a) == CASE a = "a" -> {"s0", "s1"} [] a = "b" -> {"s2"}
MCGoal(s) == s = "s2"

MCProblemsOf == ("c1" :> <<"p">>) @@ ("c2" :> <<"p">>)
MCWithBadProblem == ("c1" :> <<"p">>) @@ ("c2" :> <<"q", "p">>)
=============================================================================
