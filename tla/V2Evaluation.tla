---------------------------- MODULE V2Evaluation ----------------------------
(***************************************************************************)
(* Decisions under a kei.policy-bundle/v2 bundle (bundle/evaluate_v2.go,   *)
(* harness_match.go, model_v2.go and session.go): tools that a harness     *)
(* executes, complete operation plans of connectors, shell commands, MCP   *)
(* tools and model calls.  All of them first ask the identity snapshot     *)
(* that the bundle carries whether it still corroborates the session's     *)
(* subject, while the snapshot is refreshed, its rows run out and the      *)
(* clock is corrected.                                                     *)
(*                                                                         *)
(* A subject's key is the pair of source and external id it signed in      *)
(* with; "cli" and "installation_owner" are the two that carry no id.      *)
(***************************************************************************)
EXTENDS HarnessMatching

CONSTANTS
    Estates,       \* installations: what their bundles may carry, see Estate
    Owner,         \* payload.subject.user_id, or NoOne
    Bindings,      \* agent_connector_bindings, a sequence
    Profiles,      \* agent_model_profiles, a sequence
    MaxTime,       \* bound on the clock
    Skew           \* MaxIssuedAtClockSkew

VARIABLES
    estate,            \* the installation, chosen once
    rows,              \* the identity snapshot
    issuedAt,          \* when the bundle was issued
    checks,            \* policy_set.checks
    toolPolicies,      \* policy_set.tool_policies
    harnessPolicies,   \* policy_set.harness_policies
    denyOverrides,     \* evaluation.precedence names deny_overrides
    planHook,          \* whether a plan validator is installed
    now

bundle == <<rows, issuedAt, checks, toolPolicies, harnessPolicies, denyOverrides>>
vars == <<estate, bundle, planHook, now>>

\* The part of an installation that its bundles do not change or take from: a
\* pool and a bound for each section, the registered tools, the subjects who
\* sign in, and the calls asked about.
RowPool == estate.rowPool
MaxRows == estate.maxRows
CheckPool == estate.checkPool
MaxChecks == estate.maxChecks
ToolPolicyPool == estate.toolPolicyPool
MaxToolPolicies == estate.maxToolPolicies
HarnessPolicyPool == estate.harnessPolicyPool
MaxHarnessPolicies == estate.maxHarnessPolicies
Tools == estate.tools
Subjects == estate.subjects
HarnessCalls == estate.harnessCalls
Plans == estate.plans
Shells == estate.shells
MCPCalls == estate.mcpCalls
ModelCalls == estate.modelCalls

ASSUME ToolsAssumption ==
    \A e \in Estates : IsFiniteSet(DOMAIN e.tools) /\ DOMAIN e.tools \subseteq Nat

\* The closed schema knows two effects, ids are ordered, a plan's operations
\* are a sequence, and a command or an MCP tool comes without a path and
\* without the id of a harness, and an MCP tool without a command.
ASSUME PoolsAssumption ==
    \A e \in Estates :
        /\ \A c \in e.checkPool \cup e.toolPolicyPool \cup e.harnessPolicyPool :
               c.id \in Nat /\ c.effect \in {"permit", "deny"}
        /\ \A call \in e.plans : Len(call.ops) \in Nat /\ DOMAIN call.ops = 1..Len(call.ops)
        /\ \A call \in e.shells \cup e.mcpCalls : call.path = << >> /\ call.harness = Nothing
        /\ \A call \in e.mcpCalls : call.argv = << >>

Deny(code) == [outcome |-> "deny", code |-> code]
Allow(code, id) == [outcome |-> "allow", code |-> code, policy |-> id]

-----------------------------------------------------------------------------
(* The subject gate.                                                       *)

Fresh == issuedAt <= now + Skew

Live(row) == row.expire = Nothing \/ now < row.expire

\* Mutants: the first row of the key is taken; expired rows are passed over.
FirstOfKey(key) == {i \in DOMAIN rows : rows[i].key = key /\ Live(rows[i])
                                        /\ \A j \in 1..(i - 1) : rows[j].key # key}
LiveOfKey(key) ==
    LET mine == {i \in DOMAIN rows : rows[i].key = key /\ Live(rows[i])}
    IN IF \E i \in mine : mine = {i} THEN mine ELSE {}
\* The row of a key: two rows for it, or one that has run out, are none.
LookupIdentity(key) ==
    LET mine == {i \in DOMAIN rows : rows[i].key = key}
    IN IF \E i \in mine : mine = {i} /\ Live(rows[i]) THEN mine ELSE {}

LookupLinkedUser(user) ==
    {i \in DOMAIN rows : rows[i].user = user /\ rows[i].status = "linked" /\ Live(rows[i])}

\* What the snapshot says of the subject's own identity.
SnapshotStatus(subject) ==
    IF subject.key = "installation_owner"
    THEN IF Owner # NoOne /\ Owner = subject.user THEN "linked" ELSE "absent"
    ELSE IF subject.key = "cli"
    THEN IF LookupLinkedUser(subject.user) # {} THEN "linked" ELSE "absent"
    ELSE LET found == LookupIdentity(subject.key)
         IN IF \E i \in found : rows[i].user = subject.user
            THEN rows[CHOOSE i \in found : TRUE].status ELSE "absent"

Gate(subject) ==
    IF ~Fresh THEN "subject_snapshot_stale"
    ELSE IF subject = Nothing THEN "subject_unlinked"
    ELSE IF SubjectGate(subject) # "ok" THEN SubjectGate(subject)
    ELSE IF SnapshotStatus(subject) = "linked" THEN "ok"
    ELSE StatusReason(SnapshotStatus(subject))

\* Mutant: the groups of a pending or revoked row count as well.
GroupsOfAnyRow(user) ==
    LET mine == {i \in DOMAIN rows : rows[i].user = user /\ Live(rows[i])}
    IN [groups |-> UNION {rows[i].groups : i \in mine}, roles |-> UNION {rows[i].roles : i \in mine}]
MembershipValues(user) ==
    LET mine == LookupLinkedUser(user)
    IN [groups |-> UNION {rows[i].groups : i \in mine}, roles |-> UNION {rows[i].roles : i \in mine}]

\* Lookup of the aggregated memberships: any live row is known and lends its
\* groups, one linked row grants.
Memberships(user) ==
    LET mine == {i \in DOMAIN rows : rows[i].user = user /\ Live(rows[i])}
    IN [known |-> mine # {}, granted |-> \E i \in mine : rows[i].status = "linked",
        groups |-> UNION {rows[i].groups : i \in mine}, roles |-> UNION {rows[i].roles : i \in mine}]

-----------------------------------------------------------------------------
(* The order of the matching policies, and the one that decides.           *)

\* Mutant: priority counts under deny_overrides too.
PriorityAlways(a, b) ==
    \/ a.priority > b.priority
    \/ a.priority = b.priority
          /\ \/ a.effect # b.effect /\ a.effect = "deny"
             \/ a.effect = b.effect /\ a.id < b.id
Outranks(a, b) ==
    \/ ~denyOverrides /\ a.priority > b.priority
    \/ /\ denyOverrides \/ a.priority = b.priority
       /\ \/ a.effect # b.effect /\ a.effect = "deny"
          \/ a.effect = b.effect /\ a.id < b.id

\* Rules that tie in the order say the same: which of them the unstable sort
\* puts first makes no difference.
Winner(matching) == CHOOSE p \in matching : \A o \in matching : ~Outranks(o, p)

Verdict(matching, code) ==
    IF matching = {} THEN Deny("no_matching_policy")
    ELSE IF Winner(matching).effect = "deny" THEN Deny("policy_deny")
    ELSE Allow(code, Winner(matching).id)

\* A scope may name an agent, and an organization and a workspace, which are
\* the bundle's own or another's.
InScope(p, agent) == p.agent \in {Nothing, agent} /\ ~p.elsewhere

As(subject, agent) == [agent |-> agent, user |-> subject.user, email |-> subject.email]

SelectorMatches(selector, request) ==
    \A d \in DOMAIN selector :
        d \in DOMAIN request /\ selector[d] \in {"*", request[d]}

EvaluateV2Check(list, request, subject, agent) ==
    LET m == MembershipValues(subject.user)
        matching == {c \in Range(list) :
            /\ c.effect = "deny" \/ "tool" \in DOMAIN c.selector
            /\ InScope(c, agent)
            /\ SrcMatch(c.src, As(subject, agent), m.groups \cup subject.groups, m.roles)
            /\ SelectorMatches(c.selector, request)}
    IN Verdict(matching, "")

Registered(name) == {i \in DOMAIN Tools : Tools[i].name = name}

EvaluateV2HarnessTool(call, subject) ==
    LET found == Registered(call.tool)
        tool == Tools[First(found)]
    IN IF Gate(subject) # "ok" THEN Deny(Gate(subject))
       ELSE IF found = {} \/ ~tool.harness \/ tool.bound
       THEN Deny("tool_not_registered")
       ELSE EvaluateV2Check(toolPolicies, [tool |-> tool.name, source |-> tool.source],
                            subject, call.agent)

-----------------------------------------------------------------------------
(* Complete operation plans.                                               *)

\* A binding may be there and name no connector: a tool is bound all the same.
PlanValid(tool) == planHook => tool.planOK

V2HarnessTool(name) ==
    LET found == Registered(name)
    IN Fresh /\ found # {} /\ Tools[First(found)].harness /\ ~Tools[First(found)].bound

\* Mutant: the validator is not asked again once the bundle is accepted.
ResolvedUnchecked(name) ==
    {i \in Registered(name) : Fresh /\ Tools[i].bound /\ Tools[i].planned}
\* The registrations that V2ConnectorTool may return; it returns the first.
V2ConnectorTool(name) ==
    {i \in Registered(name) : /\ Fresh /\ Tools[i].bound
                              /\ Tools[i].planned /\ PlanValid(Tools[i])}

\* The first binding of the agent to the connector decides.
AgentBound(agent, connector, required) ==
    LET mine == {i \in DOMAIN Bindings :
                    Bindings[i].agent = agent /\ Bindings[i].connector = connector}
    IN mine # {} /\ required \subseteq Bindings[First(mine)].capabilities

ResourceRegistered(tool, op) ==
    \/ op.type = Nothing /\ {op.id, op.parent, op.parentType} = {Nothing}
    \/ /\ op.type # Nothing
       /\ <<op.type, op.parentType>> \in tool.resourceTypes
       /\ (op.parent = Nothing) = (op.parentType = Nothing)

WellFormed(tool, op) ==
    /\ op.connector = tool.connector /\ op.capability # Nothing /\ op.action # Nothing
    /\ op.capability \in tool.capabilities
    /\ ResourceRegistered(tool, op)

Request(tool, op) ==
    LET given == {d \in {"resource_type", "resource_id", "resource_parent"} :
                    CASE d = "resource_type" -> op.type # Nothing
                      [] d = "resource_id" -> op.id # Nothing
                      [] d = "resource_parent" -> op.parent # Nothing}
    IN [d \in {"source", "connector_id", "tool", "capability"} \cup given |->
           CASE d = "source" -> tool.source
             [] d = "connector_id" -> tool.connector
             [] d = "tool" -> tool.name
             [] d = "capability" -> op.capability
             [] d = "resource_type" -> op.type
             [] d = "resource_id" -> op.id
             [] d = "resource_parent" -> op.parent]

OperationDecision(tool, op, subject, agent) ==
    IF ~WellFormed(tool, op) THEN Deny("operation_plan_invalid")
    ELSE EvaluateV2Check(checks, Request(tool, op), subject, agent)

PlanDecision(tool, ops, subject, agent) ==
    LET refused == {i \in DOMAIN ops :
                      OperationDecision(tool, ops[i], subject, agent).outcome # "allow"}
    IN IF refused # {} THEN OperationDecision(tool, ops[First(refused)], subject, agent)
       ELSE IF tool.capabilities \subseteq {ops[i].capability : i \in DOMAIN ops}
       THEN Allow("policy_permit", Nothing) ELSE Deny("operation_plan_invalid")

\* Whether plans of the name are decided: they are of its first registration.
Decided(name) ==
    LET found == Registered(name)
        tool == Tools[First(found)]
    IN found # {} /\ tool.bound /\ tool.connector # Nothing /\ PlanValid(tool)

EvaluateV2Plan(call, subject) ==
    LET tool == Tools[First(Registered(call.tool))]
    IN IF Gate(subject) # "ok" THEN Deny(Gate(subject))
       ELSE IF ~Decided(call.tool) THEN Deny("tool_not_registered")
       ELSE IF call.agent = Nothing THEN Deny("agent_not_assigned")
       ELSE IF ~AgentBound(call.agent, tool.connector, tool.capabilities)
       THEN Deny("agent_not_bound_to_connector")
       ELSE IF call.ops = << >> \/ tool.capabilities = {} THEN Deny("operation_plan_invalid")
       ELSE PlanDecision(tool, call.ops, subject, call.agent)

-----------------------------------------------------------------------------
(* Shell commands and MCP tools under the harness policies; model calls.   *)

Holds(p, kind) == p.when \in {Nothing, kind}

SourceMatches(p, call, subject, m) ==
    \/ p.scheme = "harness" /\ p.value \in {"*", call.kind}
    \/ SrcMatch(p, As(subject, call.agent), m.groups, m.roles)

\* Mutant: any permit that reaches the command counts.
AnyPermit(p) == TRUE
\* A command is permitted by a literal argv prefix and by nothing wider.
CountsForShell(p) == p.effect = "permit" => ShellLiteral(p.dst)

HarnessAnswer(held, call, subject) ==
    LET m == Memberships(subject.user)
        matching == {p \in held :
            /\ InScope(p, call.agent) /\ Holds(p, call.kind) /\ MatchDst(p.dst, call)
            /\ ~Unrenderable(p.dst, call)
            /\ SourceMatches(p.src, call, subject, m)}
    IN IF call.agent = Nothing THEN Deny("agent_not_assigned")
       ELSE IF Gate(subject) # "ok" THEN Deny(Gate(subject))
       ELSE IF ~m.known \/ ~m.granted THEN Deny("subject_pending")
       ELSE Verdict(matching, "policy_permit")

EvaluateV2Shell(call, subject) ==
    HarnessAnswer({p \in Range(harnessPolicies) : CountsForShell(p)}, call, subject)

EvaluateV2MCP(call, subject) == HarnessAnswer(Range(harnessPolicies), call, subject)

\* The first profile entry of the agent decides; policies are not consulted.
EvaluateV2Model(call, subject) ==
    LET mine == {i \in DOMAIN Profiles : /\ Profiles[i].agent = call.agent
                                         /\ Profiles[i].profile = call.profile}
    IN IF Gate(subject) # "ok" THEN Deny(Gate(subject))
       ELSE IF mine = {} \/ Nothing \in {call.agent, call.profile} THEN Deny("model_not_assigned")
       ELSE IF Profiles[First(mine)].status # "active" THEN Deny("model_profile_inactive")
       ELSE Allow("model_assigned", Nothing)

-----------------------------------------------------------------------------
(* The bundle is replaced as a whole; from one that the runtime accepts to *)
(* the next, one section changes.  Its rows change as people come and go.  *)

\* validatePolicySetV2: an installed validator refuses a bad plan.
PlansAccepted ==
    \A i \in DOMAIN Tools : Tools[i].bound /\ Tools[i].planned => PlanValid(Tools[i])

\* ValidateV2 accepts a bundle issued up to Skew ahead of the clock.
Accepted == PlansAccepted /\ issuedAt' \in {now, now + Skew}

Edits(list, pool, max) ==
    {Append(list, x) : x \in IF Len(list) < max THEN pool ELSE {}}
        \cup {RemoveAt(list, i) : i \in DOMAIN list} \cup {Reverse(list)}

Init ==
    /\ estate \in Estates
    /\ rows = << >> /\ checks = << >> /\ toolPolicies = << >> /\ harnessPolicies = << >>
    /\ denyOverrides \in BOOLEAN /\ planHook = FALSE
    /\ issuedAt = 0 /\ now = 0

PublishRows ==
    /\ Accepted /\ rows' \in Edits(rows, RowPool, MaxRows)
    /\ UNCHANGED <<checks, toolPolicies, harnessPolicies, denyOverrides, planHook, now>>

PublishChecks ==
    /\ Accepted /\ checks' \in Edits(checks, CheckPool, MaxChecks)
    /\ UNCHANGED <<rows, toolPolicies, harnessPolicies, denyOverrides, planHook, now>>

PublishToolPolicies ==
    /\ Accepted /\ toolPolicies' \in Edits(toolPolicies, ToolPolicyPool, MaxToolPolicies)
    /\ UNCHANGED <<rows, checks, harnessPolicies, denyOverrides, planHook, now>>

PublishHarnessPolicies ==
    /\ Accepted
    /\ harnessPolicies' \in Edits(harnessPolicies, HarnessPolicyPool, MaxHarnessPolicies)
    /\ UNCHANGED <<rows, checks, toolPolicies, denyOverrides, planHook, now>>

PublishPrecedence ==
    /\ Accepted /\ denyOverrides' = ~denyOverrides
    /\ UNCHANGED <<rows, checks, toolPolicies, harnessPolicies, planHook, now>>

\* SetPlanValidator, with a validator or with nil.
SetPlanValidator ==
    /\ planHook' = ~planHook
    /\ UNCHANGED <<bundle, now>>

Tick ==
    /\ now < MaxTime /\ now' = now + 1
    /\ UNCHANGED <<bundle, planHook>>

\* The host's clock is corrected.
ClockSetBack ==
    /\ now > 0 /\ now' = now - 1
    /\ UNCHANGED <<bundle, planHook>>

Next ==
    /\ \/ PublishRows \/ PublishChecks \/ PublishToolPolicies \/ PublishHarnessPolicies
       \/ PublishPrecedence \/ SetPlanValidator \/ Tick \/ ClockSetBack
    /\ UNCHANGED estate

Spec == Init /\ [][Next]_vars

-----------------------------------------------------------------------------
(* Properties.                                                             *)

Allowed(decision) == decision.outcome = "allow"

\* Every call a subject may make, and whether it is allowed.
AllCalls == ({"tool"} \X HarnessCalls) \cup ({"plan"} \X Plans) \cup ({"shell"} \X Shells)
                \cup ({"mcp"} \X MCPCalls) \cup ({"model"} \X ModelCalls)

Decision(c, subject) ==
    CASE c[1] = "tool" -> EvaluateV2HarnessTool(c[2], subject)
      [] c[1] = "plan" -> EvaluateV2Plan(c[2], subject)
      [] c[1] = "shell" -> EvaluateV2Shell(c[2], subject)
      [] c[1] = "mcp" -> EvaluateV2MCP(c[2], subject)
      [] c[1] = "model" -> EvaluateV2Model(c[2], subject)

Sessions == Subjects \ {Nothing}
Keyed == {s \in Sessions : s.key \notin {"cli", "installation_owner"}}

\* Revocation binds: while any row for the key a session signed in with says
\* anything but linked, live or run out, in whatever place, it is allowed
\* nothing, however many linked rows stand beside it (session.go 154).
RevocationBinds ==
    \A s \in Keyed :
        (\E i \in DOMAIN rows : rows[i].key = s.key /\ rows[i].status # "linked")
            => \A c \in AllCalls : ~Allowed(Decision(c, s))

\* A snapshot with the same rows in the other order decides every call alike.
RowOrderIrrelevant ==
    [][ rows' # rows /\ rows' = Reverse(rows) /\ (Fresh' = Fresh)
            /\ UNCHANGED <<checks, toolPolicies, harnessPolicies, denyOverrides, planHook, now>>
        => \A s \in Subjects, c \in AllCalls : Decision(c, s)' = Decision(c, s) ]_vars

\* A further row that is not linked gives no one access to a tool or to an
\* operation, whatever groups and roles it lists.
UnlinkedRowsLendNothing ==
    [][ rows' # rows /\ Fresh /\ Len(rows') > Len(rows) /\ Last(rows').status # "linked"
        => \A s \in Subjects, c \in ({"tool"} \X HarnessCalls) \cup ({"plan"} \X Plans) :
               Allowed(Decision(c, s)') => Allowed(Decision(c, s)) ]_vars

\* The runtime resolves a tool, then has its plan decided, and in between time
\* passes, the bundle is refreshed or the validator changes (evaluate_v2.go 78,
\* 241).  The decision knows the tool that was resolved unless its binding names
\* no connector, its name is registered twice, or a validator that refuses its
\* plan came in between.
ResolvedToolIsKnown ==
    [][ /\ \A s \in Sessions, call \in HarnessCalls :
               V2HarnessTool(call.tool)
                   => EvaluateV2HarnessTool(call, s).code' # "tool_not_registered"
        /\ \A name \in {call.tool : call \in Plans} : \A i \in V2ConnectorTool(name) :
               \/ Decided(name)'
               \/ Tools[i].connector = Nothing \/ Registered(name) # {i}
               \/ planHook' /\ ~planHook /\ ~Tools[i].planOK ]_vars

Reaches(c, s, request) ==
    LET m == MembershipValues(s.user)
    IN /\ InScope(c, request.agent) /\ SelectorMatches(c.selector, request.values)
       /\ SrcMatch(c.src, As(s, request.agent), m.groups \cup s.groups, m.roles)

PlanAgrees(call, s) ==
    LET tool == Tools[First(Registered(call.tool))]
    IN \A i \in DOMAIN call.ops : \A c \in Range(checks) :
           Reaches(c, s, [agent |-> call.agent, values |-> Request(tool, call.ops[i])])
               => c.effect = "permit"

HarnessAgrees(call, s) ==
    \A p \in Range(harnessPolicies) :
        /\ InScope(p, call.agent) /\ Holds(p, call.kind) /\ MatchDst(p.dst, call)
        /\ SourceMatches(p.src, call, s, Memberships(s.user))
        => p.effect = "permit"

\* Where the bundle declares deny_overrides, one deny that reaches a call, or
\* one operation of its plan, refuses the whole, whatever the priority of the
\* permits and whatever the other operations are (deny_overrides.go 20).
DenyOverridesBinds ==
    denyOverrides =>
        \A s \in Sessions :
            /\ \A call \in Plans : Allowed(EvaluateV2Plan(call, s)) => PlanAgrees(call, s)
            /\ \A c \in ({"shell"} \X Shells) \cup ({"mcp"} \X MCPCalls) :
                   Allowed(Decision(c, s)) => HarnessAgrees(c[2], s)
=============================================================================
