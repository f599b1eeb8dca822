------------------------ MODULE MCSessionEvaluation ------------------------
(* Instance of SessionEvaluation for TLC: one local tool, one connector tool, *)
(* two people, and policies whose sources and destinations cross.             *)
EXTENDS SessionEvaluation

Person(name) == [name |-> name, scheme |-> "", domain |-> ""]
Alice == Person("alice")
Bob == Person("bob")

MCTools ==
    << [name |-> "note", action |-> "note.write", connector |-> Nothing, capability |-> Nothing],
       [name |-> "mail", action |-> "mail.send", connector |-> "gm", capability |-> "send"] >>

Policy(id, scheme, value, dst, action, agent) ==
    [id |-> id, src |-> [scheme |-> scheme, value |-> value], dst |-> dst,
     action |-> action, agent |-> agent]

MCPolicyPool ==
    {Policy(1, "any", "*", Target("tool", "note"), "permit", Nothing),
     Policy(2, "user", "bob", AnyTarget, "deny", Nothing),
     Policy(3, "group", "ops", Target("connector", "*"), "permit", Nothing),
     Policy(4, "bare", "ext", Target("bare", "send"), "deny", Nothing),
     Policy(5, "agent", "*", Target("capability", "send"), "permit", "main"),
     Policy(6, "org", "admin", AnyTarget, "permit", Nothing),
     Policy(7, "any", "*", [scheme |-> "model", toks |-> <<"invoke", "m">>], "permit", Nothing)}

Row(user, status, expire, groups, roles) ==
    [user |-> user, status |-> status, expire |-> expire, groups |-> groups, roles |-> roles]

MCRowPool ==
    {Row(Bob, "linked", 1, {"ext"}, {}),
     Row(Bob, "linked", Nothing, {"ops"}, {"admin"}),
     Row(Alice, "revoked", 1, {}, {}),
     Row(Alice, "linked", Nothing, {}, {})}

MCSessions ==
    {[user |-> u, email |-> NoOne, status |-> "linked"] : u \in {Alice, Bob, NoOne}}
        \cup {[user |-> Bob, email |-> NoOne, status |-> "pending"]}

MCOnlineSubjects ==
    {[user |-> u, status |-> "linked_approved", groups |-> g, roles |-> r] :
        u \in {Alice, Bob}, g \in {{}, {"ops", "ext"}}, r \in {{}, {"admin"}}}
        \cup {[user |-> Bob, status |-> status, groups |-> {"ops"}, roles |-> {}] :
                  status \in {"linked_pending", "revoked"}}

Call(tool, action, agent, connector, capability, via) ==
    [tool |-> tool, action |-> action, resource |-> Nothing, agent |-> agent,
     connector |-> connector, capability |-> capability, user |-> NoOne, email |-> NoOne,
     viaConnector |-> via]

MCCalls ==
    {Call("note", Nothing, Nothing, Nothing, Nothing, FALSE),
     Call("note", "mail.send", "main", Nothing, Nothing, FALSE),
     Call("mail", "mail.send", "main", Nothing, Nothing, FALSE),
     Call(Nothing, Nothing, Nothing, "gm", "send", TRUE),
     Call(Nothing, Nothing, "other", "gm", "send", TRUE),
     Call("note", Nothing, "main", "gm", "send", TRUE)}

Route(action, resource, agent) ==
    [Call(Nothing, action, agent, Nothing, Nothing, FALSE) EXCEPT !.resource = resource]

MCRoutes ==
    {Route("model:invoke", "m", Nothing), Route("model:invoke", Nothing, "main"),
     Route("model:invoke", "m", "stray"), Route("mail.send", "m", "main")}

MCAgents == {"main", "other"}
MCBindings == {<<"main", "gm", "send">>}
=============================================================================
