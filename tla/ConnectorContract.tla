------------------------- MODULE ConnectorContract -------------------------
(***************************************************************************)
(* The checks on a connector call (contract/), as operators: of the        *)
(* metadata, of the call by the runtime that executes it, of the call by   *)
(* the control plane that allows it, and the decision of governance/.      *)
(*                                                                         *)
(* Metadata is a record.  "sound" stands for the checks that only read     *)
(* one field of their own (identifiers, the credential reference, secret   *)
(* material, the provider's settings); "place" for tenant, workspace and   *)
(* connector, which are always compared together.                          *)
(***************************************************************************)
EXTENDS Naturals, SequencesExt

CONSTANTS
    Nothing,     \* an optional field that is not set
    Malformed,   \* the values that are no identifier
    PathFits     \* pathMatches: <<pattern, path>>

Reads(names) == {<<name, "read">> : name \in names}

\* Four of the providers: the one whose writes are here, one whose scope map
\* has gaps, the one without a scope map or a fixed table, one read-only.
Definitions ==
    [linear |-> Reads({"team.read", "project.read", "cycle.read", "issue.read"})
                    \cup {<<"issue.create", "create">>, <<"issue.update", "update">>,
                          <<"comment.create", "create">>},
     google_drive |-> Reads({"drive.search", "drive.metadata.read", "docs.read"})
                    \cup {<<"drive.doc.create", "create">>, <<"drive.doc.update", "update">>},
     http_api |-> {<<"http.get", "read">>, <<"http.head", "read">>,
                   <<"http.post", "create">>, <<"http.patch", "update">>},
     tito |-> Reads({"event.list", "event.get", "release.list", "ticket.summary"})]

Providers == DOMAIN Definitions
Statuses == {"pending", "active", "suspended", "revoked", "failed"}
Actions == {"read", "create", "update", "delete", "comment"}

AccountModels ==
    [linear |-> {"per_user", "shared"},
     google_drive |-> {"per_user", "shared", "domain_delegation"},
     http_api |-> {}, tito |-> {}]
OpaqueRefOnly == {"tito", "discord", "grafana"}

WellFormed(value) == value \notin Malformed

SharedSubject(place) == <<"connector", place>>

\* Whose account the connector acts as.
CredentialBinding(m) ==
    /\ m.source \in {"oauth", "opaque_ref"}
    /\ m.subject # Nothing => WellFormed(m.subject)
    /\ m.provider \in OpaqueRefOnly => m.source = "opaque_ref"
    /\ IF m.model = Nothing THEN m.source = "oauth" => m.subject # Nothing
       ELSE /\ m.model \in AccountModels[m.provider]
            /\ m.source = (IF m.model = "domain_delegation" THEN "opaque_ref" ELSE "oauth")
            /\ m.subject = (IF m.model = "shared" THEN SharedSubject(m.place) ELSE Nothing)

CredentialSubject(m, in) ==
    CASE m.model = "per_user" -> in.subject
      [] m.model = Nothing /\ m.source = "oauth" -> m.subject
      [] OTHER -> SharedSubject(m.place)

-----------------------------------------------------------------------------
(* HTTP.                                                                   *)

HTTPMethodAction == [GET |-> "read", HEAD |-> "read", POST |-> "create", PATCH |-> "update"]
HTTPMethods == DOMAIN HTTPMethodAction
MethodHasBody(method) == method \in {"POST", "PATCH"}

\* The method that a capability names, in any case; none for other names.
HTTPCapabilityMethod(capability) ==
    {pair[2] : pair \in {named \in
        {<<"http.get", "GET">>, <<"http.GET", "GET">>, <<"http.head", "HEAD">>,
         <<"http.post", "POST">>, <<"http.Post", "POST">>, <<"http.patch", "PATCH">>,
         <<"http.delete", "DELETE">>} : named[1] = capability}}

HTTPAPIValid(h) ==
    h.sound /\ h.methods # {} /\ h.methods \subseteq HTTPMethods /\ h.paths # {}

RelativePath(path) == path.kind = "path" /\ ~path.climbs

ValidateTarget(h, method, path, query) ==
    /\ method \in HTTPMethods \cap h.methods
    /\ RelativePath(path)
    /\ \E pattern \in h.paths : <<pattern, path.id>> \in PathFits
    /\ query \subseteq h.query

\* Mutant: the body is looked at, the target is not.
BodyOnly(h, request) == request.body = (IF MethodHasBody(request.method) THEN "object" ELSE Nothing)
\* A body is a JSON object within the limit, sent as JSON, or it is some
\* other; a read has none.
ValidateHTTPInvocation(h, request) ==
    /\ ValidateTarget(h, request.method, request.path, request.query)
    /\ request.body = (IF MethodHasBody(request.method) THEN "object" ELSE Nothing)

-----------------------------------------------------------------------------
(* The metadata.                                                           *)

\* Mutant: any action may be declared for a method.
AnyMethodAction(c) == TRUE
HTTPCapabilityAction(c) ==
    \A method \in HTTPCapabilityMethod(c[1]) \cap HTTPMethods : c[2] = HTTPMethodAction[method]

Validate(m) ==
    /\ m.sound
    /\ m.provider \in Providers
    /\ m.status \in Statuses
    /\ CredentialBinding(m)
    /\ IF m.provider = "http_api" THEN m.http # Nothing /\ HTTPAPIValid(m.http)
       ELSE m.http = Nothing
    /\ m.scopes # {}
    /\ m.capabilities # << >>
    /\ \A c \in Range(m.capabilities) :
           /\ WellFormed(c[1]) /\ c[2] \in Actions
           /\ m.provider = "http_api" => HTTPCapabilityAction(c)

\* Mutant: the name is looked up, whatever the action.
ExecutableByName(m) ==
    \A c \in Range(m.capabilities) : \E d \in Definitions[m.provider] : c[1] = d[1]
ValidateExecutable(m) == Range(m.capabilities) \subseteq Definitions[m.provider]

-----------------------------------------------------------------------------
(* The call.                                                               *)

\* The agent is checked like the trace, and nothing else depends on it.
CallScope(m, in) ==
    /\ WellFormed(in.subject) /\ WellFormed(in.place)
    /\ WellFormed(in.capability) /\ WellFormed(in.trace)
    /\ m.status = "active"
    /\ in.place = m.place
    /\ in.resource # Nothing
    /\ m.model = Nothing /\ m.source = "oauth" => in.subject = m.subject

\* The action that the first capability of the name declares.
Declares(m, in) ==
    \E i \in DOMAIN m.capabilities :
        /\ m.capabilities[i] = <<in.capability, in.action>>
        /\ \A j \in 1..(i - 1) : m.capabilities[j][1] # in.capability

CallBoundary(m, in) ==
    /\ CallScope(m, in)
    /\ m.provider = "http_api" /\ in.http # Nothing =>
           /\ in.http.method \in HTTPCapabilityMethod(in.capability)
           /\ ValidateHTTPInvocation(m.http, in.http)
    /\ Declares(m, in)

\* What the runtime checks before it executes.
ValidateCall(m, in) ==
    /\ Validate(m) /\ ValidateExecutable(m)
    /\ m.provider = "http_api" => in.http # Nothing
    /\ CallBoundary(m, in)

\* What the control plane checks before it allows.  The HTTP request stays in
\* the runtime: without it, the method that the capability names and the
\* resource are checked as the target.
AuthorizeCall(m, in) ==
    /\ Validate(m)
    /\ m.provider = "http_api" /\ in.http = Nothing =>
         /\ CallScope(m, in)
         /\ \E method \in HTTPCapabilityMethod(in.capability) :
               ValidateTarget(m.http, method, in.resource, {})
    /\ CallBoundary(m, in)

ValidateInvocation(in) ==
    /\ WellFormed(in.subject) /\ WellFormed(in.place)
    /\ WellFormed(in.capability) /\ WellFormed(in.trace)
    /\ in.action \in Actions
    /\ in.resource # Nothing
    /\ WellFormed(in.key)

Decide(m, in) ==
    IF /\ Validate(m) /\ ValidateInvocation(in)
       /\ m.status = "active" /\ in.place = m.place
       /\ AuthorizeCall(m, in)
    THEN "allow" ELSE "deny"

\* The span of a call is its key, or else its trace.
BuildAuditRecord(in, decision) ==
    [span |-> IF in.key = Nothing THEN in.trace ELSE in.key,
     subject |-> in.subject, place |-> in.place, tool |-> in.capability,
     resource |-> in.resource, decision |-> decision]

-----------------------------------------------------------------------------
(* What every provider client checks.                                      *)

CapabilityOAuthScopes ==
    [linear |-> {"team.read", "project.read", "cycle.read", "issue.read"} \X {"read"}
                    \cup {<<"issue.create", "issues:create">>, <<"issue.update", "write">>,
                          <<"comment.create", "comments:create">>},
     google_drive |-> {"drive.search", "drive.metadata.read", "docs.read"} \X {"drive.readonly"}]

DeclaresOAuthScopes(m) ==
    /\ m.provider \in DOMAIN CapabilityOAuthScopes
    /\ \E mapped \in CapabilityOAuthScopes[m.provider] : mapped[2] \in m.scopes

\* A capability without a mapping is refused like one whose scope is missing.
ValidateGrantedOAuthScopes(m) ==
    \A c \in Range(m.capabilities) :
        \E mapped \in CapabilityOAuthScopes[m.provider] : mapped[1] = c[1] /\ mapped[2] \in m.scopes

Guard(m, in) ==
    /\ ValidateCall(m, in)
    /\ m.source = "oauth" /\ DeclaresOAuthScopes(m) => ValidateGrantedOAuthScopes(m)
    /\ ~in.resource.climbs
=============================================================================
