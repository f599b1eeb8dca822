---------------------------- MODULE MCPolicyRules ----------------------------
(* Instances of RuleRendering for TLC.  One has two catalogs: rules that tie *)
(* on the identifier, overlap on the target or carry a condition, for one    *)
(* caller on two harnesses with grants that run out; and patterns whose      *)
(* overlap the code computes on both sides (any, wildcard, shell, path),     *)
(* switched off or for someone else.  One looks at what the code leaves out. *)
EXTENDS RuleRendering

Alice == [name |-> "alice", scheme |-> "", domain |-> ""]
AliceMail == [name |-> "alice@a", scheme |-> "", domain |-> "a"]

Target(scheme, toks) == [scheme |-> scheme, toks |-> toks]
Shell(toks) == Target("shell", toks)
Connector(toks) == Target("connector", toks)
Git == Shell(<<"git">>)
GitPush == Shell(<<"git", "push">>)
PathStar == Target("path", <<"a", "*">>)
PathB == Target("path", <<"a", "b">>)
PathDeep == Target("path", <<"**", "b">>)
PathA == Target("path", <<"a">>)
PathBelow == Target("path", <<"a", "**">>)
GitT == Shell(<<"git", "/t/">>)
GitTX == Shell(<<"git", "/t/x">>)
ConnectorGh == Connector(<<"gh", "*">>)
ConnectorIssues == Connector(<<"gh", "issues">>)
Mcp(toks) == Target("mcp", toks)

Ops == [scheme |-> "group", value |-> "ops"]
AtA == [scheme |-> "domain", value |-> "a"]
Bob == [scheme |-> "user", value |-> "bob"]

Rule(id, principal, target, effect, when) ==
    {[id |-> id, principal |-> principal, target |-> target, effect |-> effect,
      when |-> when, enabled |-> b] : b \in BOOLEAN}

DecisionRules ==
    Rule(1, Ops, Git, "permit", AnyHarness)
        \cup Rule(2, AtA, GitPush, "deny", AnyHarness)
        \cup Rule(2, AnyPrincipal, GitT, "permit", "codex")
        \cup Rule(1, AnyPrincipal, ConnectorGh, "deny", "codex")
        \cup Rule(3, Bob, AnyTarget, "deny", AnyHarness)

Rules(patterns, principals, whens) ==
    [id : {1}, principal : principals, target : patterns, effect : Effects,
     when : whens, enabled : BOOLEAN]

Patterns == {AnyTarget, Git, GitPush, Shell(<<"*">>), PathStar, PathB, PathDeep, PathBelow, ConnectorGh,
             ConnectorIssues, GitT, Mcp(<<"gh">>), Mcp(<<"gh", "issues">>)}
RenderRules == Rules(Patterns, {AnyPrincipal, Bob}, {AnyHarness})

ConnectorPool == Rules({ConnectorGh, ConnectorIssues}, {AnyPrincipal}, {AnyHarness})

Held(pool, most) == [rules |-> pool, most |-> most]
MCCatalogs == {Held(DecisionRules, 3), Held(RenderRules, 2)}
ConnectorCatalog == {Held(ConnectorPool, 2)}

MCGrantPool ==
    {[principal |-> AnyPrincipal, target |-> Shell(<<"*">>), expire |-> 1],
     [principal |-> Ops, target |-> ConnectorIssues, expire |-> 2]}

Request(target, harness) ==
    [user |-> Alice, email |-> AliceMail, groups |-> {"ops"},
     target |-> target, harness |-> harness]

MCRequests ==
    {Request(GitPush, "codex"),
     Request(GitTX, "codex"),
     Request(GitTX, AnyHarness),
     Request(ConnectorIssues, "codex"),
     Request(ConnectorIssues, "pi")}
OneRequest == {Request(Git, AnyHarness)}

MCTargets == {Git, GitPush, GitTX, PathA, PathB, Target("path", <<"b">>), Target("path", <<"a", "c">>),
              ConnectorIssues, Mcp(<<"gh", "issues">>)}

MCSlashPrefixes == {<<"/t/", "/t/">>, <<"/t/", "/t/x">>}
MCStarFits == {"*"} \X {"a", "b", "c", "*"}
=============================================================================
