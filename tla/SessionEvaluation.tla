------------------------- MODULE SessionEvaluation -------------------------
(***************************************************************************)
(* Decisions under a kei.policy-bundle/v1 bundle: with a subject resolved  *)
(* online for the call (bundle/evaluate.go), and with the subject of the   *)
(* worker session held in memory and the memberships of the bundle         *)
(* (bundle/session.go).  Between two calls the bundle may be refreshed,    *)
(* its identity rows may run out, and the session may be any.              *)
(*                                                                         *)
(* A policy's action is "permit" or "deny"; the code passes over any other.*)
(***************************************************************************)
EXTENDS SubjectMatching, SequencesExt

CONSTANTS
    PolicyPool,    \* the policies a bundle may carry
    RowPool,       \* the identity rows a bundle may carry
    Sessions,      \* the session subjects there can be
    OnlineSubjects,  \* what the online resolution may answer
    Calls,         \* the calls asked about
    Routes,        \* the calls of the runtime's own, as of a model
    Tools,         \* the tool registry, a sequence
    Agents,        \* the agents assigned to the installation
    DefaultAgent,  \* the default one, or Nothing
    Bindings,      \* agent, connector and capability triples
    MaxPolicies,   \* bound on the policies
    MaxRows,       \* bound on the identity rows
    MaxTime        \* bound on the clock

ASSUME CallsAssumption ==
    /\ \A c \in Calls \cup Routes :
           c = [tool |-> c.tool, action |-> c.action, resource |-> c.resource,
                agent |-> c.agent, connector |-> c.connector, capability |-> c.capability,
                user |-> c.user, email |-> c.email, viaConnector |-> c.viaConnector]
    /\ \A route \in Routes : Inputs(route) = {}
ASSUME RowsAssumption == \A row \in RowPool : row.expire = Nothing \/ row.expire \in Nat
ASSUME SomeoneAssumption ==
    /\ Nothing \notin Sessions \cup OnlineSubjects
    /\ \A s \in Sessions, row \in RowPool :
           Nothing # [user |-> s.user, groups |-> row.groups, roles |-> row.roles,
                      status |-> "linked_approved"]
ASSUME BoundsAssumption == MaxTime \in Nat

VARIABLES
    policies,   \* the catalog-ordered policy array of the bundle held
    order,      \* its evaluation.order
    rows,       \* its identities, empty when it carries none
    now

vars == <<policies, order, rows, now>>

Orders == {"array_order_first_match", "deny_overrides"}

Deny(code) == [outcome |-> "deny", code |-> code]
By(p) == IF p.action = "deny" THEN [outcome |-> "deny", code |-> "policy_deny", policy |-> p.id]
         ELSE [outcome |-> "allow", policy |-> p.id]

-----------------------------------------------------------------------------
(* What a policy matches.                                                  *)

RequiresSubject(p) == p.scheme \notin {"any", "agent"}

NeedsMemberships(p) == p.scheme \in {"group", "org", "bare"}

Target(scheme, tok) == [scheme |-> scheme, toks |-> IF tok = Nothing THEN << >> ELSE <<tok>>]
Bare(tok) == IF tok = Nothing THEN {} ELSE {Target("bare", tok)}

\* An action, and an action on a resource: a colon makes a scheme of its head.
Named(action) == IF action = "model:invoke" THEN {Target("model", "invoke")} ELSE Bare(action)
OnResource(action, resource) ==
    IF action = "model:invoke" THEN [scheme |-> "model", toks |-> <<"invoke", resource>>]
    ELSE Target(action, resource)

Candidates(call, tool) ==
    LET on == {Target("resource", call.resource), OnResource(call.action, call.resource)}
        at == {Target("connector", call.connector)}
        doing == {Target("capability", call.capability)} \cup Bare(call.capability)
    IN IF call.viaConnector THEN on \cup at \cup doing \cup Bare(call.resource)
       ELSE {Target("tool", tool.name)} \cup Named(tool.action) \cup Named(call.action)
            \cup (IF call.resource = Nothing THEN {} ELSE on)
            \cup (IF call.connector = Nothing THEN {} ELSE at)
            \cup (IF call.capability = Nothing THEN {} ELSE doing)

\* The positions of the policies in scope whose destination matches.
Reached(call, tool) ==
    {i \in DOMAIN policies :
        /\ policies[i].agent \in {Nothing, call.agent}
        /\ \E c \in Candidates(call, tool) : TargetMatches(policies[i].dst, c)}

-----------------------------------------------------------------------------
(* The walk with a subject resolved online, or with none.                  *)

NotApproved(subject) ==
    CASE subject.status = "unlinked" -> Deny("enrollment_required")
      [] subject.status = "linked_unassigned" -> Deny("identity_unassigned")
      [] subject.status = "linked_pending" -> Deny("identity_access_pending")
      [] OTHER -> Deny("identity_access_denied")

\* Mutant: the walk of a deny_overrides bundle ends at the first match.
FirstMatchAlways(call, tool, subject) ==
    LET groups == IF subject = Nothing THEN {} ELSE subject.groups
        roles == IF subject = Nothing THEN {} ELSE subject.roles
        reached == Reached(call, tool)
        unresolved == {i \in reached : subject = Nothing /\ RequiresSubject(policies[i].src)}
        matching == {i \in reached : SrcMatch(policies[i].src, call, groups, roles)}
        ends == unresolved \cup matching
    IN IF ends = {} THEN Deny("no_matching_policy")
       ELSE IF First(ends) \in unresolved THEN Deny("subject_resolution_unavailable")
       ELSE By(policies[First(ends)])

\* Mutant: a policy that names a person is passed over without a subject.
PersonPassedOver(call, tool, subject) ==
    LET groups == IF subject = Nothing THEN {} ELSE subject.groups
        roles == IF subject = Nothing THEN {} ELSE subject.roles
        matching == {i \in Reached(call, tool) : SrcMatch(policies[i].src, call, groups, roles)}
        ends == {i \in matching : policies[i].action = "deny" \/ order # "deny_overrides"}
    IN IF ends # {} THEN By(policies[First(ends)])
       ELSE IF matching # {} THEN By(policies[First(matching)])
       ELSE Deny("no_matching_policy")

Walk(call, tool, subject) ==
    LET groups == IF subject = Nothing THEN {} ELSE subject.groups
        roles == IF subject = Nothing THEN {} ELSE subject.roles
        reached == Reached(call, tool)
        unresolved == {i \in reached : subject = Nothing /\ RequiresSubject(policies[i].src)}
        matching == {i \in reached : SrcMatch(policies[i].src, call, groups, roles)}
        ends == unresolved \cup {i \in matching :
                    policies[i].action = "deny" \/ order # "deny_overrides"}
    IN IF ends # {} THEN IF First(ends) \in unresolved
                         THEN Deny("subject_resolution_unavailable")
                         ELSE By(policies[First(ends)])
       ELSE IF matching # {} THEN By(policies[First(matching)])
       ELSE Deny("no_matching_policy")

EvaluatePolicies(c, tool, subject) ==
    LET call == IF subject # Nothing /\ c.user = NoOne THEN [c EXCEPT !.user = subject.user]
                ELSE c
    IN IF subject = Nothing /\ Inputs(call) # {} THEN Deny("subject_resolution_unavailable")
       ELSE IF subject # Nothing /\ subject.status # "linked_approved"
       THEN NotApproved(subject)
       ELSE Walk(call, tool, subject)

WithAgent(call) == IF call.agent = Nothing THEN [call EXCEPT !.agent = DefaultAgent] ELSE call

\* The registry entries of a name, and of a connector and capability.
ToolsNamed(call) == {i \in DOMAIN Tools : Tools[i].name = call.tool}
ToolsBound(call) ==
    {i \in DOMAIN Tools :
        Tools[i].connector = call.connector /\ Tools[i].capability = call.capability}

\* The call as the registry completes it.
Completed(call, tool) ==
    [call EXCEPT !.connector = IF @ = Nothing THEN tool.connector ELSE @,
                 !.capability = IF @ = Nothing THEN tool.capability ELSE @]

\* The reason to refuse a call whoever makes it, or "ok".
RefusalOf(call, registrations) ==
    IF registrations = {} THEN "tool_not_registered"
    ELSE LET tool == Tools[First(registrations)]
             asked == Completed(call, tool)
         IN IF ~call.viaConnector /\ call.action \notin {Nothing, tool.action}
            THEN "tool_action_mismatch"
            ELSE IF call.agent # Nothing /\ call.agent \notin Agents THEN "agent_not_assigned"
            ELSE IF /\ call.viaConnector /\ asked.connector # Nothing
                    /\ <<call.agent, asked.connector, asked.capability>> \notin Bindings
            THEN "agent_not_bound_to_connector" ELSE "ok"

EvaluateRegistered(call, registrations, subject) ==
    IF RefusalOf(call, registrations) # "ok" THEN Deny(RefusalOf(call, registrations))
    ELSE LET tool == Tools[First(registrations)]
         IN EvaluatePolicies(Completed(call, tool), tool, subject)

\* By its name, a connector invocation as well.
Evaluate(c, subject) ==
    LET call == WithAgent(c) IN EvaluateRegistered(call, ToolsNamed(call), subject)

EvaluateConnector(c, subject) ==
    LET call == WithAgent(c) IN EvaluateRegistered(call, ToolsBound(call), subject)

\* Where a call is sent: a connector invocation to EvaluateConnector.
Registrations(call) == IF call.viaConnector THEN ToolsBound(call) ELSE ToolsNamed(call)
Refusal(call) == RefusalOf(call, Registrations(call))
EvaluateCall(c, subject) ==
    IF c.viaConnector THEN EvaluateConnector(c, subject) ELSE Evaluate(c, subject)

\* An operation of the runtime's own, which no tool is registered for.
NoTool == [name |-> Nothing, action |-> Nothing]

EvaluateAction(route, subject) ==
    LET call == WithAgent(route)
    IN IF call.action # "model:invoke" THEN Deny("tool_not_registered")
       ELSE IF call.agent \notin Agents \cup {Nothing} THEN Deny("agent_not_assigned")
       ELSE EvaluatePolicies(call, NoTool, subject)

Anonymous(call) == [call EXCEPT !.user = NoOne, !.email = NoOne]

SubjectRequired(call) ==
    \/ \E i \in DOMAIN Tools : /\ Tools[i].name = call.tool
                               /\ {Tools[i].connector, Tools[i].capability} # {Nothing}
    \/ Evaluate(Anonymous(call), Nothing) = Deny("subject_resolution_unavailable")

-----------------------------------------------------------------------------
(* The decision with the session subject and no round trip.                *)

Expired(row) == row.expire # Nothing /\ now >= row.expire

Unknown == [groups |-> {}, roles |-> {}, granted |-> FALSE, known |-> FALSE]

\* Mutant: a row that has run out gives way to the next one of the user.
SkipExpired(user) ==
    LET mine == {i \in DOMAIN rows : rows[i].user = user /\ ~Expired(rows[i])}
    IN IF mine = {} THEN Unknown
       ELSE LET row == rows[First(mine)]
            IN [groups |-> row.groups, roles |-> row.roles,
                granted |-> row.status = "linked", known |-> TRUE]

\* The first row of the user, array order deciding, unless it has run out.
Lookup(user) ==
    LET mine == {i \in DOMAIN rows : rows[i].user = user}
    IN IF mine = {} \/ Expired(rows[First(mine)]) THEN Unknown
       ELSE LET row == rows[First(mine)]
            IN [groups |-> row.groups, roles |-> row.roles,
                granted |-> row.status = "linked", known |-> TRUE]

\* Mutant: without memberships a group source is passed over.
GroupPassedOver(call, tool, subject, m) ==
    LET reached == Reached(call, tool)
        unresolved == {i \in reached : RequiresSubject(policies[i].src) /\ subject = Nothing}
        ends == unresolved \cup {i \in reached :
                    SrcMatch(policies[i].src, call, m.groups, m.roles)}
    IN IF ends = {} THEN Deny("no_matching_policy")
       ELSE IF First(ends) \notin unresolved THEN By(policies[First(ends)])
       ELSE Deny("subject_unlinked")
SessionWalk(call, tool, subject, m) ==
    LET reached == Reached(call, tool)
        unresolved == {i \in reached : /\ RequiresSubject(policies[i].src)
                                       /\ \/ subject = Nothing
                                          \/ NeedsMemberships(policies[i].src) /\ ~m.known}
        ends == unresolved \cup {i \in reached :
                    SrcMatch(policies[i].src, call, m.groups, m.roles)}
    IN IF ends = {} THEN Deny("no_matching_policy")
       ELSE IF First(ends) \notin unresolved THEN By(policies[First(ends)])
       ELSE IF subject = Nothing THEN Deny("subject_unlinked")
       ELSE Deny("subject_pending")

\* Mutant: the session's walk is not told the default agent.
DefaultAgentForgotten(c, subject, m) ==
    LET anonymous == Anonymous(WithAgent(c))
    IN IF Refusal(anonymous) # "ok" THEN Deny(Refusal(anonymous))
       ELSE LET tool == Tools[First(Registrations(anonymous))]
                call == Completed(Anonymous(c), tool)
            IN IF subject = Nothing THEN SessionWalk(call, tool, subject, Unknown)
               ELSE IF SubjectGate(subject) # "ok" THEN Deny(SubjectGate(subject))
               ELSE IF m.known /\ ~m.granted THEN Deny("subject_revoked")
               ELSE SessionWalk([call EXCEPT !.user = subject.user, !.email = subject.email],
                                tool, subject, m)
EvaluateSessionWith(c, subject, m) ==
    LET anonymous == Anonymous(WithAgent(c))
    IN IF Refusal(anonymous) # "ok" THEN Deny(Refusal(anonymous))
       ELSE LET tool == Tools[First(Registrations(anonymous))]
                call == Completed(anonymous, tool)
            IN IF subject = Nothing THEN SessionWalk(call, tool, subject, Unknown)
               ELSE IF SubjectGate(subject) # "ok" THEN Deny(SubjectGate(subject))
               ELSE IF m.known /\ ~m.granted THEN Deny("subject_revoked")
               ELSE SessionWalk([call EXCEPT !.user = subject.user, !.email = subject.email],
                                tool, subject, m)

\* The memberships are nil, and answer nothing, when the bundle has no rows.
EvaluateSession(call, subject) ==
    EvaluateSessionWith(call, subject,
        IF subject = Nothing THEN Unknown ELSE Lookup(subject.user))

-----------------------------------------------------------------------------
(* The service holds a bundle and refreshes it; here a refresh changes one *)
(* thing, a policy, the order or an identity row.                          *)

Init ==
    /\ policies = << >> /\ rows = << >>
    /\ order \in Orders
    /\ now = 0

AddPolicy(p) ==
    /\ Len(policies) < MaxPolicies
    /\ \E i \in 1..(Len(policies) + 1) : policies' = InsertAt(policies, i, p)
    /\ UNCHANGED <<order, rows, now>>

RemovePolicy(i) ==
    /\ policies' = RemoveAt(policies, i)
    /\ UNCHANGED <<order, rows, now>>

SetOrder(o) ==
    /\ order # o /\ order' = o
    /\ UNCHANGED <<policies, rows, now>>

AddRow(row) ==
    /\ Len(rows) < MaxRows
    /\ rows' = Append(rows, row)
    /\ UNCHANGED <<policies, order, now>>

RemoveRow(i) ==
    /\ rows' = RemoveAt(rows, i)
    /\ UNCHANGED <<policies, order, now>>

Tick ==
    /\ now < MaxTime /\ now' = now + 1
    /\ UNCHANGED <<policies, order, rows>>

Next ==
    \/ \E p \in PolicyPool : AddPolicy(p)
    \/ \E i \in DOMAIN policies : RemovePolicy(i)
    \/ \E o \in Orders : SetOrder(o)
    \/ \E row \in RowPool : AddRow(row)
    \/ \E i \in DOMAIN rows : RemoveRow(i)
    \/ Tick

Spec == Init /\ [][Next]_vars

-----------------------------------------------------------------------------
(* Properties.                                                             *)

Approved == {s \in OnlineSubjects : s.status = "linked_approved"}
Linked == {s \in Sessions : SubjectGate(s) = "ok"}
Allowed(decision) == decision.outcome = "allow"

Same(local, resolved, s) ==
    resolved = local \/ (s \notin Approved /\ resolved = NotApproved(s))

\* When SubjectRequired answers no, Evaluate's local decision is final: had
\* the person been resolved after all, it would have been the same for anyone
\* approved, and for another the same or the refusal that the status gives:
\* the person's groups and roles change nothing.  A model call is tried
\* without a subject and says itself when it needs one.
SubjectFreeIsFinal ==
    \A s \in OnlineSubjects :
        /\ \A call \in Calls :
               Inputs(call) = {} /\ ~SubjectRequired(call)
                   => Same(Evaluate(call, Nothing), Evaluate(call, s), s)
        /\ \A route \in Routes :
               LET local == EvaluateAction(route, Nothing)
               IN local # Deny("subject_resolution_unavailable")
                      => Same(local, EvaluateAction(route, s), s)

\* Under array order the session's decision is the one the online resolution
\* of the same person would give: same outcome, policy and reason.
SessionAgreesWithOnline ==
    \A call \in Calls, s \in Linked :
        LET m == Lookup(s.user)
            person == [user |-> s.user, groups |-> m.groups, roles |-> m.roles,
                       status |-> "linked_approved"]
        IN order # "deny_overrides" /\ m.granted =>
               EvaluateSession(call, s) =
                   EvaluateCall([call EXCEPT !.user = s.user, !.email = s.email], person)

Memberships == {[groups |-> r.groups, roles |-> r.roles, granted |-> TRUE, known |-> TRUE] :
                    r \in RowPool}

\* What is not known never helps (session.go 180): a call that is allowed
\* without a session, or without memberships, is allowed by the same policy
\* to every linked person whom the bundle grants, in whatever groups and roles.
IgnoranceNeverHelps ==
    \A call \in Calls, s \in Linked, m \in Memberships :
        LET full == EvaluateSessionWith(call, s, m)
        IN \A partial \in {EvaluateSession(call, Nothing), EvaluateSessionWith(call, s, Unknown)} :
               Allowed(partial) => full = partial

\* Time alone gives no one access, with one exception the code makes: a row
\* that revokes its user stops doing so when it runs out.
ClockNeverGrants ==
    [][ now' # now =>
        \A call \in Calls, s \in Linked :
            Allowed(EvaluateSession(call, s))' =>
                \/ Allowed(EvaluateSession(call, s))
                \/ Lookup(s.user).known /\ ~Lookup(s.user).granted ]_vars

\* A policy that denies the person, wherever it stands in the array.
DeniedBySome(call, tool, user, email, groups, roles) ==
    \E i \in Reached(call, tool) :
        /\ policies[i].action = "deny"
        /\ SrcMatch(policies[i].src, [call EXCEPT !.user = user, !.email = email], groups, roles)

\* A bundle that declares deny_overrides gets it: no permit earlier in the
\* array outruns a matching deny (README 339, evaluate.go 84).
OnlineDenyOverrides ==
    order = "deny_overrides" => \A s \in Approved :
        /\ \A call \in Calls :
               LET asked == WithAgent(call) IN
               Inputs(call) = {} /\ Refusal(asked) = "ok" =>
                   LET tool == Tools[First(Registrations(asked))]
                   IN DeniedBySome(Completed(asked, tool), tool, s.user, NoOne, s.groups, s.roles)
                          => ~Allowed(EvaluateCall(call, s))
        /\ \A route \in Routes :
               DeniedBySome(WithAgent(route), NoTool, s.user, NoOne, s.groups, s.roles)
                   => ~Allowed(EvaluateAction(route, s))

\* The same of the session's decision: "any matching deny wins over every
\* matching permit" (deny_overrides.go 20).
SessionDenyOverrides ==
    \A call \in Calls, s \in Linked :
        LET asked == WithAgent(call)
            m == Lookup(s.user)
        IN order = "deny_overrides" /\ m.granted /\ Refusal(asked) = "ok" =>
            LET tool == Tools[First(Registrations(asked))]
            IN DeniedBySome(Completed(asked, tool), tool, s.user, s.email, m.groups, m.roles)
                   => ~Allowed(EvaluateSession(call, s))
=============================================================================
