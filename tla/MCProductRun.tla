---------------------------- MODULE MCProductRun ----------------------------
(* An instance of ProductRun: two scenarios, no retries, no finalizers.    *)
EXTENDS ProductRun

MCWork    == {"requests"}
MCBytes   == {}
MCTokens  == {"tokens"}
MCHard    == [f \in MCWork |-> 3]
MCToken   == [f \in MCTokens |-> 3]
MCCleanup == [f \in MCWork |-> 1]
MCAmounts == 0..3

U(requests, tokens) ==
    [f \in MCWork \union MCTokens |-> IF f = "requests" THEN requests ELSE tokens]

MCCleanups  == {U(1, 0)}
MCEstimates == {U(1, 1), U(0, 1)}
MCEvidence  == {"e1", "e2"}

PlanOf(d1, d2, deps) == [disposition |-> <<d1, d2>>, dependsOn |-> <<{}, deps>>]

MCPlans == {PlanOf("execute", "execute", {}), PlanOf("execute", "execute", {1}),
            PlanOf("skip", "execute", {}), PlanOf("execute", "not_applicable", {})}

Outcome(verdict, usage, unknown) ==
    [kind |-> "outcome", verdict |-> verdict, evidence |-> {"e1"},
     usage |-> usage, unknown |-> unknown]

Failed(class, cause, evidence, known, malformed) ==
    [kind |-> "error", class |-> class, cause |-> cause, evidence |-> evidence,
     usageKnown |-> known, usage |-> U(1, 3), unknown |-> {},
     malformed |-> malformed]

MCReplies ==
    {Outcome("pass", U(1, 1), {}), Outcome("fail", U(1, 0), {"tokens"}),
     Outcome("warn", U(1, 3), {}),
     [kind |-> "invalid", evidence |-> {"e2"}],
     Failed("transient", "none", {"e2"}, FALSE, "nothing"),
     Failed("transient", "deadline", {"e2"}, TRUE, "nothing"),
     Failed("transient", "none", {"e2"}, TRUE, "unknown"),
     Failed("authentication", "none", {}, TRUE, "evidence"),
     Failed("untyped", "canceled", {}, FALSE, "nothing")}

=============================================================================
