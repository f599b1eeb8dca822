------------------------- MODULE MCHarnessDecision -------------------------
(* Instance of HarnessDecision for TLC: the installations of               *)
(* MCV2Evaluation, and one with a registry that takes kinds over from the  *)
(* built-in ones and with harness policies of every scheme.                *)
EXTENDS HarnessDecision, MCV2Evaluation

MCPolicies ==
    {Policy(1, "permit", 3, Anyone, Dst("mcp", <<"gh">>), Nothing, Nothing),
     Policy(2, "deny", 1, From("harness", "codex"), Dst("mcp", <<"gh", "merge">>), Nothing, Nothing),
     Policy(3, "deny", 2, From("user", "bob"), AnyTarget, Nothing, "codex"),
     Policy(4, "permit", 3, From("agent", "main"), Dst("shell", <<"git">>), "main", Nothing),
     Policy(5, "deny", 1, From("harness", "h1"), Dst("path", <<"~", "**", "key*">>), Nothing, Nothing),
     Policy(6, "permit", 2, From("group", "ops"), Dst("path", <<"", "home", "*">>), Nothing, Nothing),
     Policy(7, "permit", 1, From("harness", "*"), Dst("skill", <<"review">>), Nothing, "codex"),
     Policy(8, "permit", 3, Anyone, AnyTarget, Nothing, Nothing),
     Policy(9, "deny", 2, From("harness", "pi"), Dst("shell", <<"git", "push">>), Nothing, Nothing),
     [Policy(10, "deny", 3, Anyone, Dst("mcp", <<"gh", "list">>), Nothing, Nothing)
        EXCEPT !.elsewhere = TRUE]}

Call(kind) == HarnessCall(kind, "main")
MCShells ==
    {[Call(k) EXCEPT !.argv = argv] : k \in {"codex", "pi", "acme"},
                                      argv \in {<<"git", "log">>, <<"git", "push">>}}
MCNativeCalls ==
    {[Call("codex") EXCEPT !.path = <<"", "home", "keyring">>, !.home = h, !.clean = c,
                           !.harness = "h1"] : h \in {<< >>, <<"", "home">>}, c \in BOOLEAN}
    \cup {[Call("codex") EXCEPT !.skill = "review"], [Call("codex") EXCEPT !.tool = "codex.edit"]}
MCMCPCalls == {[Call(k) EXCEPT !.server = "gh", !.mcpTool = t] :
                  k \in {"codex", "acme"}, t \in {"list", "merge", Nothing}}

Kind(kind, via, shell, prefixed) ==
    [kind |-> kind, via |-> via, shell |-> shell, prefixed |-> prefixed]
MCKinds == {Kind("codex", "native", "codex.bash", TRUE), Kind("codex", "pdp", "codex.bash", TRUE),
            Kind("pi", Nothing, "pi.sh", TRUE), Kind("acme", Nothing, "acme.sh", TRUE),
            Kind("acme", "pdp", "acme.sh", FALSE)}
MCHarnesses == {[agent |-> "a1", kind |-> "codex"]}
MCShellTools == {"pi.bash", "codex.bash", "pi.sh", "acme.sh"}
MCStarFits == {<<"key*", "keyring">>, <<"key*", "key*">>, <<"*", "keyring">>, <<"**", "keyring">>,
               <<"*", "home">>}

\* The registry and the harness policies come and go.
HarnessEstate ==
    [ChecksEstate EXCEPT
        !.checkPool = {}, !.maxChecks = 0, !.toolPolicyPool = {}, !.maxToolPolicies = 0,
        !.harnessPolicyPool = MCPolicies, !.maxHarnessPolicies = 2, !.tools = MCGoodTools,
        !.harnessCalls = {}, !.plans = {}, !.modelCalls = {},
        !.shells = MCShells, !.mcpCalls = MCMCPCalls,
        !.kindPool = MCKinds, !.maxKinds = 2, !.nativeCalls = MCNativeCalls]

MCEstates == {SubjectEstate, ChecksEstate, HarnessEstate}
=============================================================================
