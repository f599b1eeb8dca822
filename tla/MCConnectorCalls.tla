-------------------------- MODULE MCConnectorCalls --------------------------
(* Instance of ConnectorCalls for TLC: a Linear connector and an HTTP one,  *)
(* each in configurations that allow, that refuse, and that declare what    *)
(* the runtime does not have; requests that repeat a key, share it between  *)
(* people and payloads, or do not fit.                                      *)
EXTENDS ConnectorCalls

Resource(kind, id) == [kind |-> kind, id |-> id, climbs |-> FALSE]

-----------------------------------------------------------------------------
Linear ==
    [sound |-> TRUE, place |-> "here", provider |-> "linear", status |-> "active",
     source |-> "oauth", model |-> "per_user", subject |-> Nothing,
     scopes |-> {"read", "issues:create", "comments:create"},
     capabilities |-> << <<"issue.create", "create">>, <<"comment.create", "create">>,
                         <<"team.read", "read">> >>,
     http |-> Nothing]

\* Suspended; writes declared as reads, before or beside the good ones; of
\* too small a grant; bound to one subject.
LinearMetas ==
    {Linear,
     [Linear EXCEPT !.status = "suspended"],
     [Linear EXCEPT !.capabilities = << <<"issue.create", "read">>, <<"issue.create", "create">> >>],
     [Linear EXCEPT !.scopes = {"read"}],
     [Linear EXCEPT !.model = Nothing, !.subject = "alice"]}

Issue(subject, key, team) ==
    [in |-> [place |-> "here", subject |-> subject, capability |-> "issue.create",
             action |-> "create", resource |-> Resource("team", team), key |-> key,
             trace |-> "t", http |-> Nothing],
     payload |-> [capability |-> "issue.create", parent |-> team, sound |-> TRUE]]
Comment(subject, key, issue) ==
    [in |-> [Issue(subject, key, issue).in EXCEPT
                !.capability = "comment.create", !.resource = Resource("issue", issue)],
     payload |-> [capability |-> "comment.create", parent |-> issue, sound |-> TRUE]]

First == Issue("alice", "k", "uuid")

LinearRequests ==
    {First,
     Issue("alice", "k", "ENG"),          \* the key again, for another team
     Issue("bob", "k", "uuid"),           \* another person's
     Comment("alice", "k", "ENG-1"),
     [First EXCEPT !.in.action = "read"],
     [First EXCEPT !.in.key = Nothing],
     [First EXCEPT !.in.capability = "team.read", !.in.action = "read",
                   !.payload.capability = "team.read"]}

-----------------------------------------------------------------------------
HTTP ==
    [Linear EXCEPT !.provider = "http_api", !.source = "opaque_ref", !.model = Nothing,
        !.scopes = {"session"},
        !.capabilities = << <<"http.get", "read">>, <<"http.post", "create">> >>,
        !.http = [sound |-> TRUE, methods |-> {"GET", "POST"}, paths |-> {"/a*"}, query |-> {"q"}]]

HTTPMetas ==
    {HTTP,
     [HTTP EXCEPT !.source = "token"],
     [HTTP EXCEPT !.http.methods = {"GET"}],
     [HTTP EXCEPT !.http.paths = {"/b"}],
     [HTTP EXCEPT !.capabilities = << <<"http.get", "read">>, <<"http.post", "read">> >>],
     [HTTP EXCEPT !.capabilities = << <<"http.delete", "read">>, <<"http.Post", "create">> >>]}

HTTPRequest(method, path, body) ==
    [method |-> method, path |-> Resource("path", path), query |-> {}, body |-> body]
HTTPCall(capability, action, path, http) ==
    [in |-> [First.in EXCEPT !.capability = capability, !.action = action,
                !.resource = Resource("path", path), !.key = Nothing, !.http = http],
     payload |-> Nothing]

HTTPRequests ==
    {HTTPCall("http.get", "read", "/a1", Nothing),
     HTTPCall("http.get", "read", "/a1", HTTPRequest("GET", "/a1", Nothing)),
     HTTPCall("http.get", "read", "/b", HTTPRequest("GET", "/b", Nothing)),
     HTTPCall("http.get", "read", "/a1", HTTPRequest("POST", "/a1", "object")),
     HTTPCall("http.post", "create", "/a1", Nothing),
     HTTPCall("http.post", "create", "/a1", HTTPRequest("POST", "/a1", "object")),
     HTTPCall("http.post", "create", "/a1", HTTPRequest("POST", "/a1", "other")),
     HTTPCall("http.post", "read", "/a1", Nothing),
     HTTPCall("http.Post", "create", "/a1", Nothing),
     HTTPCall("http.delete", "read", "/a1", Nothing)}

AnyCall == Permutations(Calls)

MCMetas == LinearMetas \cup HTTPMetas
MCRequests == [linear |-> LinearRequests, http_api |-> HTTPRequests]
MCPathFits == {<<"/a*", "/a1">>, <<"/b", "/b">>}
=============================================================================
