-------------------------- MODULE MCV2Evaluation --------------------------
(* Installations of V2Evaluation for TLC: one whose identity rows vary, one *)
(* whose checks of connector tools do.                                      *)
EXTENDS V2Evaluation

Person(name) == [name |-> name, scheme |-> "", domain |-> ""]
Alice == Person("alice")
Bob == Person("bob")

Row(key, user, status, expire, groups, roles) ==
    [key |-> key, user |-> user, status |-> status, expire |-> expire,
     groups |-> groups, roles |-> roles]

MCRows ==
    {Row("slack-bob", Bob, "linked", Nothing, {"ops"}, {}),
     Row("slack-bob", Bob, "linked", 1, {}, {"admin"}),
     Row("slack-bob", Bob, "revoked", 1, {}, {}),
     Row("cli-bob", Bob, "linked", 1, {"ext"}, {}),
     Row("cli-bob", Bob, "pending", Nothing, {"ops"}, {"admin"}),
     Row("slack-alice", Alice, "cross_workspace", Nothing, {}, {})}
MCOneRow == {Row("slack-bob", Bob, "linked", Nothing, {"ops"}, {})}

Subject(key, user, status) ==
    [key |-> key, user |-> user, email |-> NoOne, status |-> status, groups |-> {}]

MCSubjects ==
    {Nothing, Subject("slack-bob", Bob, "linked"), Subject("slack-bob", Alice, "linked"),
     Subject("cli", Bob, "linked"), Subject("cli", NoOne, "linked"),
     Subject("installation_owner", Alice, "linked"), Subject("cli", Bob, "pending")}
MCBobOrOwner == {Subject("slack-bob", Bob, "linked"), Subject("installation_owner", Alice, "linked")}

Tool(name, harness, connector, planned, planOK, capabilities) ==
    [name |-> name, source |-> "catalog", harness |-> harness, bound |-> ~harness,
     connector |-> connector,
     planned |-> planned, planOK |-> planOK, capabilities |-> capabilities,
     resourceTypes |-> {<<"repo", Nothing>>, <<"issue", "repo">>}]

MCTools == << Tool("note", TRUE, Nothing, FALSE, TRUE, {}),
              Tool("mail", FALSE, "gm", TRUE, TRUE, {"read", "send"}),
              Tool("hub", FALSE, "gh", TRUE, FALSE, {"read"}),
              Tool("stub", FALSE, Nothing, TRUE, TRUE, {"read"}) >>
MCGoodTools == SubSeq(MCTools, 1, 2)
MCBindings == << [agent |-> "main", connector |-> "gm", capabilities |-> {"read", "send"}],
                 [agent |-> "other", connector |-> "gm", capabilities |-> {"read"}],
                 [agent |-> "main", connector |-> "gh", capabilities |-> {"read"}] >>
MCProfiles == << [agent |-> "main", profile |-> "p", status |-> "active"],
                 [agent |-> "other", profile |-> "p", status |-> "retired"] >>

From(scheme, value) == [scheme |-> scheme, value |-> value]
Anyone == From("any", "*")

Check(id, effect, priority, agent, src, selector) ==
    [id |-> id, effect |-> effect, priority |-> priority, agent |-> agent, src |-> src,
     selector |-> selector, elsewhere |-> FALSE]

MCToolPolicies ==
    {Check(1, "permit", 1, Nothing, From("group", "ops"), [tool |-> "note"]),
     Check(2, "permit", 1, Nothing, From("org", "admin"), [tool |-> "*"])}
MCToolGrant == {Check(1, "permit", 1, Nothing, Anyone, [tool |-> "*"])}

MCChecks ==
    {Check(1, "permit", 1, Nothing, Anyone, [tool |-> "*"]),
     Check(2, "permit", 2, Nothing, From("group", "ops"), [tool |-> "mail", capability |-> "send"]),
     Check(3, "deny", 1, Nothing, From("user", "bob"), [capability |-> "send"]),
     Check(4, "deny", 2, "main", Anyone, [tool |-> "mail", resource_id |-> "r1"]),
     Check(5, "permit", 3, Nothing, Anyone, [capability |-> "read"]),
     Check(6, "permit", 3, Nothing, Anyone, [tool |-> "mail", resource_type |-> "repo"])}

Op(connector, capability, type, id, parent, parentType) ==
    [connector |-> connector, capability |-> capability, action |-> "run", type |-> type,
     id |-> id, parent |-> parent, parentType |-> parentType]
Read == Op("gm", "read", Nothing, Nothing, Nothing, Nothing)
ReadRepo == Op("gm", "read", "repo", "r1", Nothing, Nothing)
SendRepo == Op("gm", "send", "repo", "r2", Nothing, Nothing)
SendIssue == Op("gm", "send", "issue", "i1", "r1", "repo")
Orphan == Op("gm", "send", "issue", "i1", Nothing, "repo")

MCPlans ==
    {[tool |-> "mail", agent |-> "main", ops |-> ops] :
        ops \in {<<Read, SendRepo>>, <<SendIssue, ReadRepo>>, <<Read, SendRepo, SendIssue>>,
                 <<Read, Orphan>>, <<Read>>, << >>}}
    \cup {[tool |-> "hub", agent |-> "main", ops |-> <<[Read EXCEPT !.connector = "gh"]>>],
          [tool |-> "mail", agent |-> "other", ops |-> <<Read, SendRepo>>],
          [tool |-> "stub", agent |-> "main", ops |-> <<Read>>],
          [tool |-> "mail", agent |-> Nothing, ops |-> <<Read, SendRepo>>]}
MCOnePlan == {[tool |-> "mail", agent |-> "main", ops |-> <<Read, SendRepo>>]}

MCHarnessCalls == {[tool |-> "note", agent |-> "main"], [tool |-> "mail", agent |-> "main"]}

Policy(id, effect, priority, src, dst, agent, when) ==
    [id |-> id, effect |-> effect, priority |-> priority, agent |-> agent, src |-> src,
     dst |-> dst, when |-> when, elsewhere |-> FALSE]
Dst(scheme, toks) == [scheme |-> scheme, toks |-> toks]

MCAllowAny == {Policy(1, "permit", 1, Anyone, Dst("mcp", <<"*">>), Nothing, Nothing),
               Policy(2, "permit", 1, From("group", "ext"), Dst("shell", <<"git">>), Nothing, Nothing)}

\* A harness call with nothing in it but its kind and agent.
HarnessCall(kind, agent) ==
    [kind |-> kind, agent |-> agent, harness |-> Nothing, tool |-> Nothing, argv |-> << >>,
     skill |-> Nothing, path |-> << >>, home |-> << >>, clean |-> TRUE,
     server |-> Nothing, mcpTool |-> Nothing]
Shell(kind, agent, argv) == [HarnessCall(kind, agent) EXCEPT !.argv = argv]
MCP(kind, server, tool) == [HarnessCall(kind, "main") EXCEPT !.server = server, !.mcpTool = tool]

MCOneShell == {Shell("pi", "main", <<"git">>)}
MCOneMCP == {MCP("pi", "gh", "list")}
MCModelCalls == {[agent |-> a, profile |-> "p"] : a \in {"main", "other", Nothing}}

\* Rows come, go and run out under a few grants; every subject signs in.
SubjectEstate ==
    [rowPool |-> MCRows, maxRows |-> 2, checkPool |-> MCToolGrant, maxChecks |-> 1,
     toolPolicyPool |-> MCToolPolicies, maxToolPolicies |-> 1,
     harnessPolicyPool |-> MCAllowAny, maxHarnessPolicies |-> 1,
     tools |-> MCGoodTools, subjects |-> MCSubjects, harnessCalls |-> MCHarnessCalls,
     plans |-> MCOnePlan, shells |-> MCOneShell, mcpCalls |-> MCOneMCP,
     modelCalls |-> MCModelCalls, kindPool |-> {}, maxKinds |-> 0, nativeCalls |-> {}]

\* Checks come and go over operation plans.
ChecksEstate ==
    [SubjectEstate EXCEPT
        !.rowPool = MCOneRow, !.maxRows = 1, !.checkPool = MCChecks, !.maxChecks = 3,
        !.toolPolicyPool = MCToolGrant, !.harnessPolicyPool = {}, !.maxHarnessPolicies = 0,
        !.tools = MCTools, !.subjects = MCBobOrOwner, !.plans = MCPlans,
        !.shells = {}, !.mcpCalls = {}]
=============================================================================
