------------------------------ MODULE V2Proofs ------------------------------
(***************************************************************************)
(* Theorems about HarnessDecision, for all installations: any rows, any    *)
(* policies and checks, any registry, and any bounds on them.  Where two   *)
(* snapshots are compared, an evaluator is restated as a function of what  *)
(* it reads of the bundle (Reading, HarnessReading), so that equal         *)
(* readings give equal decisions.                                          *)
(***************************************************************************)
EXTENDS HarnessDecision, FiniteSetTheorems, SequenceTheorems, WellFoundedInduction, TLAPS

-----------------------------------------------------------------------------
(* The subject gate.                                                       *)

LEMMA Refusals ==
    ASSUME NEW status
    PROVE  StatusReason(status) \notin {"ok", "tool_not_registered", "policy_deny"}
<1>1. \/ StatusReason(status) = "subject_pending"
      \/ StatusReason(status) = "subject_revoked"
      \/ StatusReason(status) = "subject_cross_workspace"
      \/ StatusReason(status) = "subject_unlinked"
  BY DEF StatusReason
<1>. QED
  BY <1>1

\* A row of the key that is not linked leaves the key no row that is, be it
\* the only one of the key or one of several (session.go 154-173).
LEMMA UnlinkedKey ==
    ASSUME NEW s, s.key \notin {"cli", "installation_owner"},
           NEW i \in DOMAIN rows, rows[i].key = s.key, rows[i].status # "linked"
    PROVE  SnapshotStatus(s) # "linked"
<1>. DEFINE found == LookupIdentity(s.key)
<1>1. \A j \in found : j = i
  BY DEF LookupIdentity
<1>2. CASE \E j \in found : rows[j].user = s.user
  <2>1. (CHOOSE j \in found : TRUE) \in found
    BY <1>2
  <2>2. (CHOOSE j \in found : TRUE) = i
    BY <1>1, <2>1
  <2>. HIDE DEF found
  <2>3. SnapshotStatus(s) = rows[CHOOSE j \in found : TRUE].status
    BY <1>2 DEF SnapshotStatus, found
  <2>. QED
    BY <2>2, <2>3
<1>3. CASE ~\E j \in found : rows[j].user = s.user
  BY <1>3 DEF SnapshotStatus
<1>. QED
  BY <1>2, <1>3

LEMMA GateCloses ==
    ASSUME NEW s, SnapshotStatus(s) # "linked"
    PROVE  Gate(s) # "ok"
BY Refusals DEF Gate

\* Every evaluator asks the gate before it allows anything.
LEMMA NothingPastTheGate ==
    ASSUME NEW s, Gate(s) # "ok", NEW c \in AllCalls
    PROVE  ~Allowed(Decision(c, s))
<1>1. c[1] \in {"tool", "plan", "shell", "mcp", "model"}
  BY DEF AllCalls
<1>2. CASE c[1] = "tool"
  <2>1. Decision(c, s) = EvaluateV2HarnessTool(c[2], s)
    BY <1>2 DEF Decision
  <2>. QED
    BY <2>1 DEF Allowed, EvaluateV2HarnessTool, Deny
<1>3. CASE c[1] = "plan"
  <2>1. Decision(c, s) = EvaluateV2Plan(c[2], s)
    BY <1>3 DEF Decision
  <2>. QED
    BY <2>1 DEF Allowed, EvaluateV2Plan, Deny
<1>4. CASE c[1] = "shell"
  <2>1. Decision(c, s) = EvaluateV2Shell(c[2], s)
    BY <1>4 DEF Decision
  <2>. QED
    BY <2>1 DEF Allowed, EvaluateV2Shell, HarnessAnswer, Deny
<1>5. CASE c[1] = "mcp"
  <2>1. Decision(c, s) = EvaluateV2MCP(c[2], s)
    BY <1>5 DEF Decision
  <2>. QED
    BY <2>1 DEF Allowed, EvaluateV2MCP, HarnessAnswer, Deny
<1>6. CASE c[1] = "model"
  <2>1. Decision(c, s) = EvaluateV2Model(c[2], s)
    BY <1>6 DEF Decision
  <2>. QED
    BY <2>1 DEF Allowed, EvaluateV2Model, Deny
<1>. QED
  BY <1>1, <1>2, <1>3, <1>4, <1>5, <1>6

\* A revoked, pending or foreign row for the key of a session closes every
\* evaluator to it, for every snapshot, however many rows it holds.
THEOREM RevocationHolds == HarnessSpec => []RevocationBinds
<1>1. RevocationBinds
  BY UnlinkedKey, GateCloses, NothingPastTheGate DEF RevocationBinds, Keyed, Sessions
<1>. QED
  BY <1>1, PTL

-----------------------------------------------------------------------------
(* What resolves is known.                                                 *)

LEMMA GateRefuses ==
    ASSUME NEW s
    PROVE  Gate(s) # "tool_not_registered"
BY Refusals DEF Gate, SubjectGate

LEMMA Verdicts ==
    ASSUME NEW matching, NEW code, code # "tool_not_registered"
    PROVE  Verdict(matching, code).code # "tool_not_registered"
BY DEF Verdict, Deny, Allow

LEMMA ChecksKnowTheTool ==
    ASSUME NEW list, NEW request, NEW s, NEW agent
    PROVE  EvaluateV2Check(list, request, s, agent).code # "tool_not_registered"
BY Verdicts DEF EvaluateV2Check

\* The installation stays what it was.
LEMMA Installation == HarnessSpec => [](estate \in Estates)
<1>1. HarnessInit => estate \in Estates
  BY DEF HarnessInit, Init
<1>2. [HarnessNext]_hvars => estate' = estate
  <2>1. Next => estate' = estate
    BY DEF Next
  <2>2. PublishRegistry => estate' = estate
    BY DEF PublishRegistry
  <2>. QED
    BY <2>1, <2>2 DEF HarnessNext, hvars, vars
<1>3. estate \in Estates /\ [HarnessNext]_hvars => (estate \in Estates)'
  BY <1>2
<1>. QED
  BY <1>1, <1>3, PTL DEF HarnessSpec

\* The harness tools: a later decision knows the tool that resolves now.
HarnessExecuted(name) ==
    LET found == Registered(name)
    IN found # {} /\ Tools[First(found)].harness /\ ~Tools[First(found)].bound

LEMMA ExecutedIsKnown ==
    ASSUME NEW s, NEW call
    PROVE  /\ HarnessExecuted(call.tool)
                  => EvaluateV2HarnessTool(call, s).code # "tool_not_registered"
           /\ (HarnessExecuted(call.tool)
                  => EvaluateV2HarnessTool(call, s).code # "tool_not_registered")'
<1>1. HarnessExecuted(call.tool)
          => EvaluateV2HarnessTool(call, s).code # "tool_not_registered"
  BY GateRefuses, ChecksKnowTheTool DEF HarnessExecuted, EvaluateV2HarnessTool, Deny
<1>. QED
  BY <1>1, PTL

LEMMA HarnessToolIsKnown ==
    ASSUME estate' = estate, NEW s, NEW call, V2HarnessTool(call.tool)
    PROVE  EvaluateV2HarnessTool(call, s).code' # "tool_not_registered"
<1>1. HarnessExecuted(call.tool)'
  BY DEF HarnessExecuted, V2HarnessTool, Registered, Tools
<1>. QED
  BY <1>1, ExecutedIsKnown

\* A connector tool that resolves now is the one that plans are decided of,
\* while the validator stays what it is.
LEMMA PlannedToolIsKnown ==
    ASSUME estate \in Estates, estate' = estate, NEW name, NEW i \in V2ConnectorTool(name),
           Tools[i].connector # Nothing, Registered(name) = {i},
           ~(planHook' /\ ~planHook /\ ~Tools[i].planOK)
    PROVE  Decided(name)'
<1>1. /\ Tools[i].bound /\ PlanValid(Tools[i]) /\ First({i}) = i
      /\ Registered(name)' = {i} /\ Tools' = Tools
  <2>1. First({i}) = i
    <3>1. i \in Nat
      BY ToolsAssumption DEF V2ConnectorTool, Registered, Tools
    <3>. QED
      BY <3>1 DEF First
  <2>. QED
    BY <2>1 DEF V2ConnectorTool, Registered, Tools
<1>2. (planHook => Tools[i].planOK)'
  BY <1>1 DEF PlanValid
<1>. QED
  BY <1>1, <1>2 DEF Decided, PlanValid

\* A tool that the bundle resolves is decided on its merits at the next moment,
\* whatever happens in between but the validator that refuses it: for every
\* registry, whoever asks, and unless its binding names no connector or its
\* name stands for several tools.
THEOREM ResolvedHolds == HarnessSpec => ResolvedToolIsKnown
<1>1. estate \in Estates /\ [HarnessNext]_hvars => estate' = estate
  <2>1. Next => estate' = estate
    BY DEF Next
  <2>2. PublishRegistry => estate' = estate
    BY DEF PublishRegistry
  <2>. QED
    BY <2>1, <2>2 DEF HarnessNext, hvars, vars
<1>2. estate \in Estates /\ [HarnessNext]_hvars
        => [ /\ \A s \in Sessions, call \in HarnessCalls :
                    V2HarnessTool(call.tool)
                        => EvaluateV2HarnessTool(call, s).code' # "tool_not_registered"
             /\ \A name \in {call.tool : call \in Plans} : \A i \in V2ConnectorTool(name) :
                    \/ Decided(name)'
                    \/ Tools[i].connector = Nothing \/ Registered(name) # {i}
                    \/ planHook' /\ ~planHook /\ ~Tools[i].planOK ]_vars
  BY <1>1, HarnessToolIsKnown, PlannedToolIsKnown
<1>. QED
  BY <1>2, Installation, PTL DEF HarnessSpec, ResolvedToolIsKnown

-----------------------------------------------------------------------------
(* A row that is not linked lends nothing.                                 *)

AnyRow == UNION {e.rowPool : e \in Estates}

LEMMA EditsOfRows ==
    ASSUME NEW S, NEW list \in Seq(S), NEW pool, pool \subseteq S, NEW max,
           NEW next \in Edits(list, pool, max)
    PROVE  /\ next \in Seq(S)
           /\ Len(next) > Len(list) => \E x \in pool : next = Append(list, x)
<1>1. CASE \E x \in pool : next = Append(list, x)
  BY <1>1
<1>2. CASE \E i \in DOMAIN list : next = RemoveAt(list, i)
  <2>1. PICK i \in 1..Len(list) : next = RemoveAt(list, i)
    BY <1>2
  <2>. DEFINE low == SubSeq(list, 1, i - 1)
              high == SubSeq(list, i + 1, Len(list))
  <2>2. /\ low \in Seq(S) /\ Len(low) = i - 1
        /\ high \in Seq(S) /\ Len(high) = Len(list) - i
    OBVIOUS
  <2>3. next = low \o high
    BY <2>1 DEF RemoveAt
  <2>. HIDE DEF low, high
  <2>4. next \in Seq(S) /\ Len(next) = Len(list) - 1
    BY <2>2, <2>3, ConcatProperties
  <2>. QED
    BY <2>4
<1>3. CASE next = Reverse(list)
  <2>1. next \in [1..Len(list) -> S]
    BY <1>3 DEF Reverse
  <2>2. next \in Seq(S) /\ Len(next) = Len(list)
    BY <2>1
  <2>. QED
    BY <2>2
<1>. QED
  BY <1>1, <1>2, <1>3 DEF Edits

\* What the further row leaves as it was: the memberships of every person, and
\* what a session could not do before.
LEMMA FurtherRow ==
    ASSUME NEW S, rows \in Seq(S), NEW x \in S, rows' = Append(rows, x),
           x.status # "linked", UNCHANGED now, Fresh
    PROVE  /\ \A user : MembershipValues(user)' = MembershipValues(user)
           /\ \A s : Gate(s)' = "ok" => Gate(s) = "ok"
<1>. DEFINE n == Len(rows)
<1>1. /\ n \in Nat /\ DOMAIN rows = 1..n /\ DOMAIN rows' = 1..(n + 1)
      /\ rows'[n + 1] = x /\ \A i \in 1..n : rows'[i] = rows[i]
  OBVIOUS
<1>. HIDE DEF n
<1>2. ASSUME NEW row
      PROVE  Live(row)' = Live(row)
  BY DEF Live
<1>3. ASSUME NEW user
      PROVE  /\ LookupLinkedUser(user)' = LookupLinkedUser(user)
             /\ \A i \in LookupLinkedUser(user) : rows'[i] = rows[i]
  BY <1>1 DEF LookupLinkedUser, Live
<1>4. ASSUME NEW user
      PROVE  MembershipValues(user)' = MembershipValues(user)
  <2>1. /\ UNION {rows'[i].groups : i \in LookupLinkedUser(user)}
              = UNION {rows[i].groups : i \in LookupLinkedUser(user)}
        /\ UNION {rows'[i].roles : i \in LookupLinkedUser(user)}
              = UNION {rows[i].roles : i \in LookupLinkedUser(user)}
    BY <1>3
  <2>. QED
    BY <1>3, <2>1 DEF MembershipValues
<1>5. ASSUME NEW s, SnapshotStatus(s)' = "linked"
      PROVE  SnapshotStatus(s) = "linked"
  <2>1. CASE s.key \in {"installation_owner", "cli"}
    BY <1>3, <1>5, <2>1 DEF SnapshotStatus
  <2>2. CASE s.key \notin {"installation_owner", "cli"}
    <3>. DEFINE found == LookupIdentity(s.key)
    <3>1. \A i, j \in found' : i = j
      BY DEF LookupIdentity
    <3>2. PICK i \in found' : rows'[i].user = s.user
      BY <1>5, <2>2 DEF SnapshotStatus
    <3>3. (CHOOSE j \in found' : TRUE) \in found'
      BY <3>2
    <3>4. (CHOOSE j \in found' : TRUE) = i
      BY <3>1, <3>2, <3>3
    <3>5. rows'[i].status = "linked"
      BY <1>5, <2>2, <3>2, <3>4 DEF SnapshotStatus
    <3>6. i \in 1..n /\ rows'[i] = rows[i]
      BY <1>1, <3>2, <3>5 DEF LookupIdentity
    <3>7. i \in found /\ \A j \in found : j = i
      BY <1>1, <1>2, <3>2, <3>6 DEF LookupIdentity, Live
    <3>8. (CHOOSE j \in found : TRUE) = i
      BY <3>7
    <3>. QED
      BY <2>2, <3>2, <3>5, <3>6, <3>7, <3>8 DEF SnapshotStatus
  <2>. QED
    BY <2>1, <2>2
<1>6. ASSUME NEW s, Gate(s)' = "ok"
      PROVE  Gate(s) = "ok"
  <2>1. s # Nothing /\ SubjectGate(s) = "ok" /\ SnapshotStatus(s)' = "linked"
    BY <1>6, Refusals DEF Gate
  <2>. QED
    BY <1>5, <2>1 DEF Gate
<1>. QED
  BY <1>4, <1>6

\* What the evaluators of tools and of plans read of a bundle, and their
\* decisions as functions of it.
Reading(s) ==
    [gate |-> Gate(s), over |-> denyOverrides, m |-> MembershipValues(s.user),
     policies |-> toolPolicies, checks |-> checks, tools |-> Tools, hook |-> planHook]

OutranksBy(r, a, b) ==
    \/ ~r.over /\ a.priority > b.priority
    \/ /\ r.over \/ a.priority = b.priority
       /\ \/ a.effect # b.effect /\ a.effect = "deny"
          \/ a.effect = b.effect /\ a.id < b.id
WinnerBy(r, matching) == CHOOSE p \in matching : \A o \in matching : ~OutranksBy(r, o, p)
VerdictBy(r, matching, code) ==
    IF matching = {} THEN Deny("no_matching_policy")
    ELSE IF WinnerBy(r, matching).effect = "deny" THEN Deny("policy_deny")
    ELSE Allow(code, WinnerBy(r, matching).id)

CheckBy(r, list, request, subject, agent) ==
    VerdictBy(r,
        {c \in Range(list) :
            /\ c.effect = "deny" \/ "tool" \in DOMAIN c.selector
            /\ InScope(c, agent)
            /\ SrcMatch(c.src, As(subject, agent), r.m.groups \cup subject.groups, r.m.roles)
            /\ SelectorMatches(c.selector, request)}, "")

RegisteredBy(r, name) == {i \in DOMAIN r.tools : r.tools[i].name = name}

ToolBy(r, call, subject) ==
    LET found == RegisteredBy(r, call.tool)
        tool == r.tools[First(found)]
    IN IF r.gate # "ok" THEN Deny(r.gate)
       ELSE IF found = {} \/ ~tool.harness \/ tool.bound
       THEN Deny("tool_not_registered")
       ELSE CheckBy(r, r.policies, [tool |-> tool.name, source |-> tool.source],
                    subject, call.agent)

OperationBy(r, tool, op, subject, agent) ==
    IF ~WellFormed(tool, op) THEN Deny("operation_plan_invalid")
    ELSE CheckBy(r, r.checks, Request(tool, op), subject, agent)

PlanDecisionBy(r, tool, ops, subject, agent) ==
    LET refused == {i \in DOMAIN ops : OperationBy(r, tool, ops[i], subject, agent).outcome # "allow"}
    IN IF refused # {} THEN OperationBy(r, tool, ops[First(refused)], subject, agent)
       ELSE IF tool.capabilities \subseteq {ops[i].capability : i \in DOMAIN ops}
       THEN Allow("policy_permit", Nothing) ELSE Deny("operation_plan_invalid")

PlanBy(r, call, subject) ==
    LET found == RegisteredBy(r, call.tool)
        tool == r.tools[First(found)]
    IN IF r.gate # "ok" THEN Deny(r.gate)
       ELSE IF ~(/\ found # {} /\ tool.bound /\ tool.connector # Nothing
                 /\ r.hook => tool.planOK)
       THEN Deny("tool_not_registered")
       ELSE IF call.agent = Nothing THEN Deny("agent_not_assigned")
       ELSE IF ~AgentBound(call.agent, tool.connector, tool.capabilities)
       THEN Deny("agent_not_bound_to_connector")
       ELSE IF call.ops = << >> \/ tool.capabilities = {} THEN Deny("operation_plan_invalid")
       ELSE PlanDecisionBy(r, tool, call.ops, subject, call.agent)

LEMMA CheckReads ==
    ASSUME NEW s, NEW list, NEW request, NEW agent
    PROVE  EvaluateV2Check(list, request, s, agent) = CheckBy(Reading(s), list, request, s, agent)
<1>1. \A a, b : Outranks(a, b) <=> OutranksBy(Reading(s), a, b)
  BY DEF Outranks, OutranksBy, Reading
<1>2. \A matching : Winner(matching) = WinnerBy(Reading(s), matching)
  BY <1>1 DEF Winner, WinnerBy
<1>3. \A matching, code : Verdict(matching, code) = VerdictBy(Reading(s), matching, code)
  BY <1>2 DEF Verdict, VerdictBy
<1>4. MembershipValues(s.user) = Reading(s).m
  BY DEF Reading
<1>. QED
  BY <1>3, <1>4 DEF EvaluateV2Check, CheckBy

LEMMA ToolReads ==
    ASSUME NEW s, NEW call
    PROVE  EvaluateV2HarnessTool(call, s) = ToolBy(Reading(s), call, s)
<1>1. /\ Reading(s).gate = Gate(s) /\ Reading(s).policies = toolPolicies
      /\ Reading(s).tools = Tools
  BY DEF Reading
<1>2. Registered(call.tool) = RegisteredBy(Reading(s), call.tool)
  BY <1>1 DEF Registered, RegisteredBy
<1>. QED
  BY <1>1, <1>2, CheckReads DEF EvaluateV2HarnessTool, ToolBy

LEMMA PlanReads ==
    ASSUME NEW s, NEW call
    PROVE  EvaluateV2Plan(call, s) = PlanBy(Reading(s), call, s)
<1>1. /\ Reading(s).gate = Gate(s) /\ Reading(s).checks = checks
      /\ Reading(s).tools = Tools /\ Reading(s).hook = planHook
  BY DEF Reading
<1>2. Registered(call.tool) = RegisteredBy(Reading(s), call.tool)
  BY <1>1 DEF Registered, RegisteredBy
<1>3. \A tool, op, agent :
         OperationDecision(tool, op, s, agent) = OperationBy(Reading(s), tool, op, s, agent)
  BY <1>1, CheckReads DEF OperationDecision, OperationBy
<1>4. \A tool, ops, agent :
         PlanDecision(tool, ops, s, agent) = PlanDecisionBy(Reading(s), tool, ops, s, agent)
  <2>. TAKE tool, ops, agent
  <2>1. {i \in DOMAIN ops : OperationDecision(tool, ops[i], s, agent).outcome # "allow"}
          = {i \in DOMAIN ops : OperationBy(Reading(s), tool, ops[i], s, agent).outcome # "allow"}
    BY <1>3
  <2>. QED
    BY <1>3, <2>1, Zenon DEF PlanDecision, PlanDecisionBy
<1>. QED
  BY <1>1, <1>2, <1>4 DEF EvaluateV2Plan, Decided, PlanBy, PlanValid

RowsHeld == estate \in Estates /\ rows \in Seq(AnyRow)

LEMMA OnlyRowsChange ==
    ASSUME [HarnessNext]_hvars, rows' # rows
    PROVE  PublishRows /\ UNCHANGED estate
<1>1. Next => (PublishRows /\ UNCHANGED estate) \/ UNCHANGED rows
  BY DEF Next, PublishChecks, PublishToolPolicies, PublishHarnessPolicies,
         PublishPrecedence, SetPlanValidator, Tick, ClockSetBack, bundle
<1>2. PublishRegistry => UNCHANGED rows
  BY DEF PublishRegistry
<1>. QED
  BY <1>1, <1>2 DEF HarnessNext, hvars, vars, bundle

LEMMA RowsStayRows == HarnessSpec => []RowsHeld
<1>1. HarnessInit => RowsHeld
  BY DEF HarnessInit, Init, RowsHeld
<1>2. RowsHeld /\ [HarnessNext]_hvars => RowsHeld'
  <2>. SUFFICES ASSUME RowsHeld, [HarnessNext]_hvars
                PROVE  RowsHeld'
    OBVIOUS
  <2>1. CASE PublishRows /\ UNCHANGED estate
    <3>1. RowPool \subseteq AnyRow /\ rows \in Seq(AnyRow)
      BY DEF RowsHeld, RowPool, AnyRow
    <3>2. rows' \in Edits(rows, RowPool, MaxRows)
      BY <2>1 DEF PublishRows
    <3>. QED
      BY <2>1, <3>1, <3>2, EditsOfRows DEF RowsHeld
  <2>2. CASE UNCHANGED <<estate, rows>>
    BY <2>2 DEF RowsHeld
  <2>3. (PublishRows /\ UNCHANGED estate) \/ UNCHANGED <<estate, rows>>
    <3>1. Next => (PublishRows /\ UNCHANGED estate) \/ UNCHANGED <<estate, rows>>
      BY DEF Next, PublishChecks, PublishToolPolicies, PublishHarnessPolicies,
             PublishPrecedence, SetPlanValidator, Tick, ClockSetBack, bundle
    <3>2. PublishRegistry => UNCHANGED <<estate, rows>>
      BY DEF PublishRegistry
    <3>. QED
      BY <3>1, <3>2 DEF HarnessNext, hvars, vars, bundle
  <2>. QED
    BY <2>1, <2>2, <2>3
<1>. QED
  BY <1>1, <1>2, PTL DEF HarnessSpec

\* The two evaluators, before and after a step.
LEMMA Readings ==
    ASSUME NEW s, NEW call
    PROVE  /\ \A r : Reading(s) = r => /\ EvaluateV2HarnessTool(call, s) = ToolBy(r, call, s)
                                      /\ EvaluateV2Plan(call, s) = PlanBy(r, call, s)
           /\ (\A r : Reading(s) = r => /\ EvaluateV2HarnessTool(call, s) = ToolBy(r, call, s)
                                       /\ EvaluateV2Plan(call, s) = PlanBy(r, call, s))'
<1>1. \A r : Reading(s) = r => /\ EvaluateV2HarnessTool(call, s) = ToolBy(r, call, s)
                              /\ EvaluateV2Plan(call, s) = PlanBy(r, call, s)
  BY ToolReads, PlanReads
<1>. QED
  BY <1>1, PTL

LEMMA SameReading ==
    ASSUME NEW s, NEW call, Reading(s)' = Reading(s)
    PROVE  /\ EvaluateV2HarnessTool(call, s)' = EvaluateV2HarnessTool(call, s)
           /\ EvaluateV2Plan(call, s)' = EvaluateV2Plan(call, s)
BY Readings

LEMMA UnlinkedStep ==
    ASSUME RowsHeld, [HarnessNext]_hvars,
           rows' # rows, Fresh, Len(rows') > Len(rows), Last(rows').status # "linked",
           NEW s, NEW c, c[1] \in {"tool", "plan"}, Allowed(Decision(c, s)')
    PROVE  Allowed(Decision(c, s))
<1>1. PublishRows /\ UNCHANGED estate
  BY OnlyRowsChange
<1>2. RowPool \subseteq AnyRow /\ rows \in Seq(AnyRow)
  BY DEF RowsHeld, RowPool, AnyRow
<1>3. PICK x \in RowPool : rows' = Append(rows, x)
  <2>1. rows' \in Edits(rows, RowPool, MaxRows)
    BY <1>1 DEF PublishRows
  <2>2. \A next \in Edits(rows, RowPool, MaxRows) :
           Len(next) > Len(rows) => \E x \in RowPool : next = Append(rows, x)
    BY <1>2, EditsOfRows
  <2>. QED
    BY <2>1, <2>2
<1>4. x \in AnyRow /\ x.status # "linked"
  <2>1. x \in AnyRow
    BY <1>2
  <2>2. Last(rows') = x
    BY <1>2, <1>3, <2>1, AppendProperties DEF Last
  <2>. QED
    BY <2>1, <2>2
<1>5. /\ MembershipValues(s.user)' = MembershipValues(s.user)
      /\ Gate(s)' = "ok" => Gate(s) = "ok"
  BY <1>1, <1>2, <1>3, <1>4, FurtherRow DEF PublishRows
<1>6. ASSUME Gate(s)' = "ok"
      PROVE  Reading(s)' = Reading(s)
  BY <1>1, <1>5, <1>6 DEF Reading, PublishRows, Tools
<1>7. CASE c[1] = "tool"
  <2>1. Decision(c, s) = EvaluateV2HarnessTool(c[2], s)
    BY <1>7 DEF Decision
  <2>2. Decision(c, s)' = EvaluateV2HarnessTool(c[2], s)'
    BY <1>7 DEF Decision
  <2>3. Gate(s)' = "ok"
    BY <2>2 DEF Allowed, EvaluateV2HarnessTool, Deny
  <2>. QED
    BY <1>6, <2>1, <2>2, <2>3, SameReading
<1>8. CASE c[1] = "plan"
  <2>1. Decision(c, s) = EvaluateV2Plan(c[2], s)
    BY <1>8 DEF Decision
  <2>2. Decision(c, s)' = EvaluateV2Plan(c[2], s)'
    BY <1>8 DEF Decision
  <2>3. Gate(s)' = "ok"
    BY <2>2 DEF Allowed, EvaluateV2Plan, Deny
  <2>. QED
    BY <1>6, <2>1, <2>2, <2>3, SameReading
<1>. QED
  BY <1>7, <1>8

\* Whatever groups and roles it lists, a further row that is not linked gives
\* no one a tool or an operation, for every snapshot and all policies.
THEOREM OnlyLinkedRowsLend == HarnessSpec => UnlinkedRowsLendNothing
<1>1. RowsHeld /\ [HarnessNext]_hvars
        => [ rows' # rows /\ Fresh /\ Len(rows') > Len(rows) /\ Last(rows').status # "linked"
             => \A s \in Subjects, c \in ({"tool"} \X HarnessCalls) \cup ({"plan"} \X Plans) :
                    Allowed(Decision(c, s)') => Allowed(Decision(c, s)) ]_vars
  BY UnlinkedStep
<1>. QED
  BY <1>1, RowsStayRows, PTL DEF HarnessSpec, UnlinkedRowsLendNothing

-----------------------------------------------------------------------------
(* The order of the rows is irrelevant.                                    *)

\* Where row i stands after the reversal.
LEMMA Mirrored ==
    ASSUME NEW S, rows \in Seq(S), rows' = Reverse(rows), NEW n, n = Len(rows)
    PROVE  /\ n \in Nat /\ DOMAIN rows = 1..n /\ DOMAIN rows' = 1..n
           /\ \A i \in 1..n : /\ n + 1 - i \in 1..n
                              /\ rows'[i] = rows[n + 1 - i]
                              /\ rows'[n + 1 - i] = rows[i]
<1>1. n \in Nat /\ DOMAIN rows = 1..n
  OBVIOUS
<1>2. rows' = [i \in 1..n |-> rows[n - i + 1]]
  BY DEF Reverse
<1>3. \A i \in 1..n : n + 1 - i \in 1..n /\ n - i + 1 = n + 1 - i /\ n - (n + 1 - i) + 1 = i
  BY <1>1
<1>. QED
  BY <1>1, <1>2, <1>3

LEMMA ReversedMemberships ==
    ASSUME NEW S, rows \in Seq(S), rows' = Reverse(rows), UNCHANGED now, NEW user
    PROVE  /\ MembershipValues(user)' = MembershipValues(user)
           /\ Memberships(user)' = Memberships(user)
           /\ LookupLinkedUser(user)' = {} <=> LookupLinkedUser(user) = {}
<1>. DEFINE n == Len(rows)
<1>1. /\ n \in Nat /\ DOMAIN rows = 1..n /\ DOMAIN rows' = 1..n
      /\ \A i \in 1..n : /\ n + 1 - i \in 1..n
                         /\ rows'[i] = rows[n + 1 - i]
                         /\ rows'[n + 1 - i] = rows[i]
  BY Mirrored
<1>. HIDE DEF n
<1>2. \A row : Live(row)' = Live(row)
  BY DEF Live
<1>3. \A i \in 1..n : /\ i \in LookupLinkedUser(user) <=> n + 1 - i \in LookupLinkedUser(user)'
                      /\ i \in LookupLinkedUser(user)' <=> n + 1 - i \in LookupLinkedUser(user)
  BY <1>1, <1>2 DEF LookupLinkedUser, Live
<1>4. LookupLinkedUser(user) \subseteq 1..n /\ LookupLinkedUser(user)' \subseteq 1..n
  BY <1>1 DEF LookupLinkedUser
<1>5. LookupLinkedUser(user)' = {} <=> LookupLinkedUser(user) = {}
  BY <1>1, <1>3, <1>4
<1>6. /\ {rows'[i].groups : i \in LookupLinkedUser(user)'} = {rows[i].groups : i \in LookupLinkedUser(user)}
      /\ {rows'[i].roles : i \in LookupLinkedUser(user)'} = {rows[i].roles : i \in LookupLinkedUser(user)}
  BY <1>1, <1>3, <1>4
<1>7. MembershipValues(user)' = MembershipValues(user)
  BY <1>6 DEF MembershipValues
<1>. DEFINE mine == {i \in DOMAIN rows : rows[i].user = user /\ Live(rows[i])}
<1>8. mine \subseteq 1..n /\ mine' \subseteq 1..n
  BY <1>1
<1>9. \A i \in 1..n : /\ i \in mine <=> n + 1 - i \in mine'
                      /\ i \in mine' <=> n + 1 - i \in mine
  BY <1>1, <1>2 DEF Live
<1>10. Memberships(user) = [known |-> mine # {}, granted |-> \E i \in mine : rows[i].status = "linked",
                            groups |-> UNION {rows[i].groups : i \in mine},
                            roles |-> UNION {rows[i].roles : i \in mine}]
  BY DEF Memberships
<1>11. Memberships(user)' = [known |-> mine' # {}, granted |-> \E i \in mine' : rows'[i].status = "linked",
                             groups |-> UNION {rows'[i].groups : i \in mine'},
                             roles |-> UNION {rows'[i].roles : i \in mine'}]
  BY DEF Memberships
<1>. HIDE DEF mine
<1>12. mine' # {} <=> mine # {}
  BY <1>1, <1>8, <1>9
<1>13. (\E i \in mine' : rows'[i].status = "linked") <=> (\E i \in mine : rows[i].status = "linked")
  BY <1>1, <1>8, <1>9
<1>14. /\ {rows'[i].groups : i \in mine'} = {rows[i].groups : i \in mine}
       /\ {rows'[i].roles : i \in mine'} = {rows[i].roles : i \in mine}
  BY <1>1, <1>8, <1>9
<1>15. Memberships(user)' = [known |-> mine # {}, granted |-> \E i \in mine : rows[i].status = "linked",
                             groups |-> UNION {rows'[i].groups : i \in mine'},
                             roles |-> UNION {rows'[i].roles : i \in mine'}]
  BY <1>11, <1>12, <1>13, Zenon
<1>16. Memberships(user)' = Memberships(user)
  BY <1>10, <1>14, <1>15
<1>. QED
  BY <1>5, <1>7, <1>16

LEMMA RowOfKey ==
    ASSUME NEW key, NEW i
    PROVE  /\ i \in LookupIdentity(key)
                <=> /\ i \in DOMAIN rows /\ rows[i].key = key /\ Live(rows[i])
                    /\ \A j \in DOMAIN rows : rows[j].key = key => j = i
           /\ i \in LookupIdentity(key)'
                <=> /\ i \in DOMAIN rows' /\ rows'[i].key = key /\ Live(rows[i])'
                    /\ \A j \in DOMAIN rows' : rows'[j].key = key => j = i
<1>. DEFINE mine == {j \in DOMAIN rows : rows[j].key = key}
<1>1. i \in LookupIdentity(key) <=> i \in mine /\ mine = {i} /\ Live(rows[i])
  BY DEF LookupIdentity
<1>2. i \in LookupIdentity(key)
        <=> /\ i \in DOMAIN rows /\ rows[i].key = key /\ Live(rows[i])
            /\ \A j \in DOMAIN rows : rows[j].key = key => j = i
  BY <1>1
<1>3. (i \in LookupIdentity(key)
        <=> /\ i \in DOMAIN rows /\ rows[i].key = key /\ Live(rows[i])
            /\ \A j \in DOMAIN rows : rows[j].key = key => j = i)'
  BY <1>2, PTL
<1>. QED
  BY <1>2, <1>3

\* The row of a key is the row of the key, wherever it stands.
LEMMA ReversedStatus ==
    ASSUME NEW S, rows \in Seq(S), rows' = Reverse(rows), UNCHANGED now, NEW s
    PROVE  SnapshotStatus(s)' = SnapshotStatus(s)
<1>. DEFINE found == LookupIdentity(s.key)
<1>1. PICK n \in Nat :
         /\ DOMAIN rows = 1..n /\ DOMAIN rows' = 1..n
         /\ \A i \in 1..n : /\ n + 1 - i \in 1..n
                            /\ rows'[i] = rows[n + 1 - i]
                            /\ rows'[n + 1 - i] = rows[i]
  BY Mirrored
<1>2. CASE s.key \in {"installation_owner", "cli"}
  BY <1>2, ReversedMemberships DEF SnapshotStatus
<1>3. CASE s.key \notin {"installation_owner", "cli"}
  <2>1. /\ \A i, j \in found : i = j
        /\ \A i, j \in found' : i = j
        /\ found \subseteq 1..n /\ found' \subseteq 1..n
    BY <1>1 DEF LookupIdentity
  <2>2. ASSUME NEW i \in found PROVE n + 1 - i \in found'
    <3>1. /\ i \in 1..n /\ rows[i].key = s.key /\ Live(rows[i])
          /\ \A j \in 1..n : rows[j].key = s.key => j = i
      BY <1>1, <2>2, RowOfKey
    <3>2. /\ n + 1 - i \in 1..n /\ rows'[n + 1 - i] = rows[i] /\ Live(rows[n + 1 - i])'
      BY <1>1, <3>1 DEF Live
    <3>3. ASSUME NEW j \in 1..n, rows'[j].key = s.key PROVE j = n + 1 - i
      <4>1. n + 1 - j \in 1..n /\ rows[n + 1 - j].key = s.key
        BY <1>1, <3>3
      <4>. QED
        BY <1>1, <3>1, <4>1
    <3>4. /\ n + 1 - i \in DOMAIN rows' /\ rows'[n + 1 - i].key = s.key
          /\ \A j \in DOMAIN rows' : rows'[j].key = s.key => j = n + 1 - i
      BY <1>1, <3>1, <3>2, <3>3
    <3>. QED
      BY <3>2, <3>4, RowOfKey
  <2>3. ASSUME NEW i \in found' PROVE n + 1 - i \in found
    <3>1. /\ i \in 1..n /\ rows'[i].key = s.key /\ Live(rows[i])'
          /\ \A j \in 1..n : rows'[j].key = s.key => j = i
      BY <1>1, <2>3, RowOfKey
    <3>2. /\ n + 1 - i \in 1..n /\ rows[n + 1 - i] = rows'[i] /\ Live(rows[n + 1 - i])
      BY <1>1, <3>1 DEF Live
    <3>3. ASSUME NEW j \in 1..n, rows[j].key = s.key PROVE j = n + 1 - i
      <4>1. n + 1 - j \in 1..n /\ rows'[n + 1 - j].key = s.key
        BY <1>1, <3>3
      <4>. QED
        BY <1>1, <3>1, <4>1
    <3>4. /\ n + 1 - i \in DOMAIN rows /\ rows[n + 1 - i].key = s.key
          /\ \A j \in DOMAIN rows : rows[j].key = s.key => j = n + 1 - i
      BY <1>1, <3>1, <3>2, <3>3
    <3>. QED
      BY <3>2, <3>4, RowOfKey
  <2>4. CASE found = {}
    <3>1. found' = {}
      BY <2>3, <2>4
    <3>. QED
      BY <1>3, <2>4, <3>1 DEF SnapshotStatus
  <2>5. CASE found # {}
    <3>1. PICK i \in found : TRUE
      BY <2>5
    <3>2. n + 1 - i \in found' /\ rows'[n + 1 - i] = rows[i]
      BY <1>1, <2>1, <2>2, <3>1
    <3>3. found = {i} /\ found' = {n + 1 - i}
      BY <2>1, <3>1, <3>2
    <3>4. (CHOOSE j \in found : TRUE) = i /\ (CHOOSE j \in found' : TRUE) = n + 1 - i
      BY <3>3
    <3>. QED
      BY <1>3, <3>2, <3>3, <3>4 DEF SnapshotStatus
  <2>. QED
    BY <2>4, <2>5
<1>. QED
  BY <1>2, <1>3

\* What the evaluators of shell commands and of MCP tools read, likewise.
HarnessReading(s) ==
    [gate |-> Gate(s), over |-> denyOverrides, m |-> Memberships(s.user), policies |-> harnessPolicies]

HarnessAnswerBy(r, held, call, subject) ==
    LET matching == {p \in held :
            /\ InScope(p, call.agent) /\ Holds(p, call.kind) /\ MatchDst(p.dst, call)
            /\ ~Unrenderable(p.dst, call)
            /\ SourceMatches(p.src, call, subject, r.m)}
    IN IF call.agent = Nothing THEN Deny("agent_not_assigned")
       ELSE IF r.gate # "ok" THEN Deny(r.gate)
       ELSE IF ~r.m.known \/ ~r.m.granted THEN Deny("subject_pending")
       ELSE VerdictBy(r, matching, "policy_permit")

LEMMA HarnessReads ==
    ASSUME NEW s, NEW call
    PROVE  /\ EvaluateV2Shell(call, s)
                = HarnessAnswerBy(HarnessReading(s), {p \in Range(HarnessReading(s).policies) : CountsForShell(p)},
                                  call, s)
           /\ EvaluateV2MCP(call, s)
                = HarnessAnswerBy(HarnessReading(s), Range(HarnessReading(s).policies), call, s)
<1>1. /\ HarnessReading(s).gate = Gate(s) /\ HarnessReading(s).policies = harnessPolicies
      /\ HarnessReading(s).m = Memberships(s.user)
  BY DEF HarnessReading
<1>2. \A a, b : Outranks(a, b) <=> OutranksBy(HarnessReading(s), a, b)
  BY DEF Outranks, OutranksBy, HarnessReading
<1>3. \A matching : Winner(matching) = WinnerBy(HarnessReading(s), matching)
  BY <1>2 DEF Winner, WinnerBy
<1>4. \A matching, code : Verdict(matching, code) = VerdictBy(HarnessReading(s), matching, code)
  BY <1>3 DEF Verdict, VerdictBy
<1>5. \A held : HarnessAnswer(held, call, s) = HarnessAnswerBy(HarnessReading(s), held, call, s)
  BY <1>1, <1>4 DEF HarnessAnswer, HarnessAnswerBy
<1>. QED
  BY <1>1, <1>5 DEF EvaluateV2Shell, EvaluateV2MCP

LEMMA HarnessReadings ==
    ASSUME NEW s, NEW call
    PROVE  /\ \A r : HarnessReading(s) = r =>
                /\ EvaluateV2Shell(call, s)
                     = HarnessAnswerBy(r, {p \in Range(r.policies) : CountsForShell(p)}, call, s)
                /\ EvaluateV2MCP(call, s) = HarnessAnswerBy(r, Range(r.policies), call, s)
           /\ (\A r : HarnessReading(s) = r =>
                /\ EvaluateV2Shell(call, s)
                     = HarnessAnswerBy(r, {p \in Range(r.policies) : CountsForShell(p)}, call, s)
                /\ EvaluateV2MCP(call, s) = HarnessAnswerBy(r, Range(r.policies), call, s))'
<1>1. \A r : HarnessReading(s) = r =>
         /\ EvaluateV2Shell(call, s)
              = HarnessAnswerBy(r, {p \in Range(r.policies) : CountsForShell(p)}, call, s)
         /\ EvaluateV2MCP(call, s) = HarnessAnswerBy(r, Range(r.policies), call, s)
  BY HarnessReads
<1>. QED
  BY <1>1, PTL

LEMMA SameHarnessReading ==
    ASSUME NEW s, NEW call, HarnessReading(s)' = HarnessReading(s)
    PROVE  /\ EvaluateV2Shell(call, s)' = EvaluateV2Shell(call, s)
           /\ EvaluateV2MCP(call, s)' = EvaluateV2MCP(call, s)
BY HarnessReadings

LEMMA OrderStep ==
    ASSUME RowsHeld, [HarnessNext]_hvars, rows' # rows, rows' = Reverse(rows), Fresh' = Fresh,
           UNCHANGED <<checks, toolPolicies, harnessPolicies, denyOverrides, planHook, now>>,
           NEW s, NEW c, c[1] \in {"tool", "plan", "shell", "mcp", "model"}
    PROVE  Decision(c, s)' = Decision(c, s)
<1>1. UNCHANGED estate
  BY OnlyRowsChange
<1>2. rows \in Seq(AnyRow)
  BY DEF RowsHeld
<1>3. /\ MembershipValues(s.user)' = MembershipValues(s.user)
      /\ Memberships(s.user)' = Memberships(s.user)
  BY <1>2, ReversedMemberships
<1>4. SnapshotStatus(s)' = SnapshotStatus(s)
  BY <1>2, ReversedStatus
<1>5. Gate(s)' = Gate(s)
  BY <1>4 DEF Gate
<1>6. Reading(s)' = Reading(s) /\ HarnessReading(s)' = HarnessReading(s)
  BY <1>1, <1>3, <1>5 DEF Reading, HarnessReading, Tools
<1>7. CASE c[1] = "tool"
  <2>1. /\ Decision(c, s) = EvaluateV2HarnessTool(c[2], s)
        /\ Decision(c, s)' = EvaluateV2HarnessTool(c[2], s)'
    BY <1>7 DEF Decision
  <2>. QED
    BY <1>6, <2>1, SameReading
<1>8. CASE c[1] = "plan"
  <2>1. /\ Decision(c, s) = EvaluateV2Plan(c[2], s)
        /\ Decision(c, s)' = EvaluateV2Plan(c[2], s)'
    BY <1>8 DEF Decision
  <2>. QED
    BY <1>6, <2>1, SameReading
<1>9. CASE c[1] = "shell"
  <2>1. /\ Decision(c, s) = EvaluateV2Shell(c[2], s)
        /\ Decision(c, s)' = EvaluateV2Shell(c[2], s)'
    BY <1>9 DEF Decision
  <2>. QED
    BY <1>6, <2>1, SameHarnessReading
<1>10. CASE c[1] = "mcp"
  <2>1. /\ Decision(c, s) = EvaluateV2MCP(c[2], s)
        /\ Decision(c, s)' = EvaluateV2MCP(c[2], s)'
    BY <1>10 DEF Decision
  <2>. QED
    BY <1>6, <2>1, SameHarnessReading
<1>11. CASE c[1] = "model"
  <2>1. /\ Decision(c, s) = EvaluateV2Model(c[2], s)
        /\ Decision(c, s)' = EvaluateV2Model(c[2], s)'
    BY <1>11 DEF Decision
  <2>. QED
    BY <1>5, <2>1 DEF EvaluateV2Model
<1>. QED
  BY <1>7, <1>8, <1>9, <1>10, <1>11

\* A snapshot with the same rows in the other order decides every call alike,
\* for every snapshot, all policies and whoever asks.
THEOREM RowOrder == HarnessSpec => RowOrderIrrelevant
<1>1. RowsHeld /\ [HarnessNext]_hvars
        => [ rows' # rows /\ rows' = Reverse(rows) /\ (Fresh' = Fresh)
                 /\ UNCHANGED <<checks, toolPolicies, harnessPolicies, denyOverrides, planHook, now>>
             => \A s \in Subjects, c \in AllCalls : Decision(c, s)' = Decision(c, s) ]_vars
  BY OrderStep DEF AllCalls
<1>. QED
  BY <1>1, RowsStayRows, PTL DEF HarnessSpec, RowOrderIrrelevant

-----------------------------------------------------------------------------
(* One decider.                                                            *)

\* A kind whose shell tool the bundle names is one it knows and one that the
\* local PDP decides.
LEMMA ShellKindsAreAsked ==
    ASSUME NEW tool, NEW kind \in HarnessKindForShellTool(tool)
    PROVE  KnownHarnessKind(registry, kind) /\ HarnessKindDecidesViaPDP(kind)
<1>1. CASE registry = << >>
  BY <1>1, KindsAssumption
  DEF HarnessKindForShellTool, KnownHarnessKind, HarnessKindDecidesViaPDP, Entries, BuiltInPDP
<1>2. CASE registry # << >>
  BY <1>2 DEF HarnessKindForShellTool, KnownHarnessKind, Entries
<1>. QED
  BY <1>1, <1>2

\* No call whose command line the local PDP decides is decided by a native
\* list as well, for every registry and every list of policies.
THEOREM OneDecider == HarnessSpec => []ShellToolHasOneDecider
<1>1. ShellToolHasOneDecider
  BY ShellKindsAreAsked DEF ShellToolHasOneDecider, EvaluateHarness, EvaluateWith
<1>. QED
  BY <1>1, PTL
-----------------------------------------------------------------------------
(* Denies bind, in each evaluator and across them.                         *)

\* Every non-empty set of naturals has a least element.
LEMMA LeastNat ==
    ASSUME NEW T, T \subseteq Nat, T # {}
    PROVE  \E x \in T : \A y \in T : x <= y
<1>1. PICK x \in T : \A y \in T : ~ (<<y, x>> \in OpToRel(<, Nat))
  BY NatLessThanWellFounded, WFMin
<1>2. \A y \in T : ~ (y < x)
  BY <1>1 DEF OpToRel
<1>. QED
  BY <1>2

\* First answers a position of the set.
LEMMA FirstIsOne ==
    ASSUME NEW S, S \subseteq Nat, S # {}
    PROVE  First(S) \in S
BY LeastNat DEF First

\* The checks and the harness policies come from the pools of the installation.
PoliciesHeld ==
    /\ estate \in Estates
    /\ checks \in Seq(CheckPool)
    /\ harnessPolicies \in Seq(HarnessPolicyPool)

LEMMA PoliciesStayPolicies == HarnessSpec => []PoliciesHeld
<1>1. HarnessInit => PoliciesHeld
  BY DEF HarnessInit, Init, PoliciesHeld
<1>2. PoliciesHeld /\ [HarnessNext]_hvars => PoliciesHeld'
  <2>. SUFFICES ASSUME PoliciesHeld, [HarnessNext]_hvars
                PROVE  PoliciesHeld'
    OBVIOUS
  <2>1. UNCHANGED estate
    <3>1. Next => UNCHANGED estate
      BY DEF Next
    <3>2. PublishRegistry => UNCHANGED estate
      BY DEF PublishRegistry
    <3>. QED
      BY <3>1, <3>2 DEF HarnessNext, hvars, vars
  <2>2. UNCHANGED <<CheckPool, HarnessPolicyPool>>
    BY <2>1 DEF CheckPool, HarnessPolicyPool
  <2>3. \/ checks' = checks \/ checks' \in Edits(checks, CheckPool, MaxChecks)
    <3>1. Next => checks' = checks \/ checks' \in Edits(checks, CheckPool, MaxChecks)
      BY DEF Next, PublishRows, PublishChecks, PublishToolPolicies, PublishHarnessPolicies,
             PublishPrecedence, SetPlanValidator, Tick, ClockSetBack, bundle
    <3>2. PublishRegistry => checks' = checks
      BY DEF PublishRegistry
    <3>. QED
      BY <3>1, <3>2 DEF HarnessNext, hvars, vars, bundle
  <2>4. \/ harnessPolicies' = harnessPolicies
        \/ harnessPolicies' \in Edits(harnessPolicies, HarnessPolicyPool, MaxHarnessPolicies)
    <3>1. Next => \/ harnessPolicies' = harnessPolicies
                  \/ harnessPolicies' \in Edits(harnessPolicies, HarnessPolicyPool, MaxHarnessPolicies)
      BY DEF Next, PublishRows, PublishChecks, PublishToolPolicies, PublishHarnessPolicies,
             PublishPrecedence, SetPlanValidator, Tick, ClockSetBack, bundle
    <3>2. PublishRegistry => harnessPolicies' = harnessPolicies
      BY DEF PublishRegistry
    <3>. QED
      BY <3>1, <3>2 DEF HarnessNext, hvars, vars, bundle
  <2>5. checks' \in Seq(CheckPool)
    BY <2>3, EditsOfRows DEF PoliciesHeld
  <2>6. harnessPolicies' \in Seq(HarnessPolicyPool)
    BY <2>4, EditsOfRows DEF PoliciesHeld
  <2>. QED
    BY <2>1, <2>2, <2>5, <2>6 DEF PoliciesHeld
<1>. QED
  BY <1>1, <1>2, PTL DEF HarnessSpec

\* What the assumption says of the policies held.
LEMMA HeldPolicies ==
    ASSUME PoliciesHeld
    PROVE  /\ \A c \in Range(checks) : c.id \in Nat /\ c.effect \in {"permit", "deny"}
           /\ \A p \in Range(harnessPolicies) : p.id \in Nat /\ p.effect \in {"permit", "deny"}
           /\ DOMAIN harnessPolicies \subseteq Nat
           /\ \A call \in Plans : DOMAIN call.ops \subseteq Nat
           /\ \A call \in Shells \cup MCPCalls : call.path = << >> /\ call.harness = Nothing
           /\ \A call \in MCPCalls : call.argv = << >>
<1>1. Range(checks) \subseteq CheckPool /\ Range(harnessPolicies) \subseteq HarnessPolicyPool
  BY DEF PoliciesHeld, Range
<1>2. estate \in Estates /\ DOMAIN harnessPolicies \subseteq Nat
  BY DEF PoliciesHeld
<1>. QED
  BY <1>1, <1>2, PoolsAssumption
  DEF CheckPool, HarnessPolicyPool, Plans, Shells, MCPCalls

\* Under deny_overrides the policy that decides is a deny where there is one,
\* and always one of those that match.
LEMMA DenyWins ==
    ASSUME denyOverrides, NEW matching, matching # {},
           \A p \in matching : p.id \in Nat /\ p.effect \in {"permit", "deny"}
    PROVE  /\ Winner(matching) \in matching
           /\ \A d \in matching : d.effect = "deny" => Winner(matching).effect = "deny"
<1>. DEFINE best == IF \E d \in matching : d.effect = "deny"
                    THEN {d \in matching : d.effect = "deny"} ELSE matching
            ids == {p.id : p \in best}
<1>1. best # {} /\ best \subseteq matching
  OBVIOUS
<1>2. PICK low \in ids : \A id \in ids : low <= id
  <2>1. ids \subseteq Nat /\ ids # {}
    BY <1>1
  <2>. HIDE DEF ids
  <2>. QED
    BY <2>1, LeastNat
<1>3. PICK w \in best : w.id = low
  BY <1>2
<1>4. ASSUME NEW o \in matching
      PROVE  ~Outranks(o, w)
  <2>1. o \in best \/ (o.effect = "permit" /\ w.effect = "deny")
    BY <1>3
  <2>2. w.effect = "deny" \/ o.effect = "permit"
    BY <1>3
  <2>3. o \in best => w.id <= o.id
    BY <1>2, <1>3
  <2>4. w.id \in Nat /\ o.id \in Nat
    BY <1>1, <1>3
  <2>. HIDE DEF best, ids
  <2>. QED
    BY <2>1, <2>2, <2>3, <2>4 DEF Outranks
<1>5. Winner(matching) \in matching /\ \A o \in matching : ~Outranks(o, Winner(matching))
  BY <1>1, <1>3, <1>4 DEF Winner
<1>6. ASSUME NEW d \in matching, d.effect = "deny"
      PROVE  Winner(matching).effect = "deny"
  BY <1>5, <1>6 DEF Outranks
<1>. QED
  BY <1>5, <1>6

\* So a verdict that allows means that all who match permit.
LEMMA VerdictPermits ==
    ASSUME denyOverrides, NEW matching, NEW code,
           \A p \in matching : p.id \in Nat /\ p.effect \in {"permit", "deny"},
           Allowed(Verdict(matching, code))
    PROVE  \A p \in matching : p.effect = "permit"
<1>1. matching # {} /\ Winner(matching).effect # "deny"
  BY DEF Allowed, Verdict, Deny
<1>. QED
  BY <1>1, DenyWins

\* A plan is allowed operation by operation.
LEMMA EachOperation ==
    ASSUME NEW tool, NEW ops, DOMAIN ops \subseteq Nat, NEW s, NEW agent,
           Allowed(PlanDecision(tool, ops, s, agent)), NEW i \in DOMAIN ops
    PROVE  Allowed(OperationDecision(tool, ops[i], s, agent))
<1>. DEFINE refused == {j \in DOMAIN ops : OperationDecision(tool, ops[j], s, agent).outcome # "allow"}
<1>1. CASE refused # {}
  <2>1. First(refused) \in refused
    BY <1>1, FirstIsOne
  <2>2. PlanDecision(tool, ops, s, agent) = OperationDecision(tool, ops[First(refused)], s, agent)
    BY <1>1 DEF PlanDecision
  <2>. QED
    BY <2>1, <2>2 DEF Allowed
<1>2. CASE refused = {}
  BY <1>2 DEF Allowed
<1>. QED
  BY <1>1, <1>2

LEMMA PlanBinds ==
    ASSUME PoliciesHeld, denyOverrides, NEW s, NEW call \in Plans, Allowed(EvaluateV2Plan(call, s))
    PROVE  PlanAgrees(call, s)
<1>. DEFINE tool == Tools[First(Registered(call.tool))]
<1>1. Allowed(PlanDecision(tool, call.ops, s, call.agent))
  BY DEF EvaluateV2Plan, Allowed, Deny
<1>. SUFFICES ASSUME NEW i \in DOMAIN call.ops, NEW c \in Range(checks),
                     Reaches(c, s, [agent |-> call.agent, values |-> Request(tool, call.ops[i])])
              PROVE  c.effect = "permit"
  BY DEF PlanAgrees
<1>. HIDE DEF tool
<1>2. Allowed(OperationDecision(tool, call.ops[i], s, call.agent))
  BY <1>1, HeldPolicies, EachOperation
<1>3. Allowed(EvaluateV2Check(checks, Request(tool, call.ops[i]), s, call.agent))
  BY <1>2 DEF OperationDecision, Allowed, Deny
<1>. DEFINE m == MembershipValues(s.user)
            matching == {x \in Range(checks) :
                /\ x.effect = "deny" \/ "tool" \in DOMAIN x.selector
                /\ InScope(x, call.agent)
                /\ SrcMatch(x.src, As(s, call.agent), m.groups \cup s.groups, m.roles)
                /\ SelectorMatches(x.selector, Request(tool, call.ops[i]))}
<1>4. Allowed(Verdict(matching, ""))
  BY <1>3 DEF EvaluateV2Check
<1>5. \A p \in matching : p.effect = "permit"
  <2>1. \A p \in matching : p.id \in Nat /\ p.effect \in {"permit", "deny"}
    BY HeldPolicies
  <2>. HIDE DEF matching
  <2>. QED
    BY <1>4, <2>1, VerdictPermits
<1>6. c.effect \in {"permit", "deny"}
  BY HeldPolicies
<1>7. c.effect = "deny" => c \in matching
  BY DEF Reaches
<1>. QED
  BY <1>5, <1>6, <1>7

LEMMA HarnessBinds ==
    ASSUME PoliciesHeld, denyOverrides, NEW s, NEW call \in Shells \cup MCPCalls,
           NEW held, held \subseteq Range(harnessPolicies),
           \A p \in Range(harnessPolicies) : p.effect = "deny" => p \in held,
           Allowed(HarnessAnswer(held, call, s))
    PROVE  HarnessAgrees(call, s)
<1>. DEFINE m == Memberships(s.user)
            matching == {p \in held :
                /\ InScope(p, call.agent) /\ Holds(p, call.kind) /\ MatchDst(p.dst, call)
                /\ ~Unrenderable(p.dst, call)
                /\ SourceMatches(p.src, call, s, m)}
<1>1. Allowed(Verdict(matching, "policy_permit"))
  BY DEF HarnessAnswer, Allowed, Deny
<1>2. \A p \in matching : p.effect = "permit"
  <2>1. \A p \in matching : p.id \in Nat /\ p.effect \in {"permit", "deny"}
    BY HeldPolicies
  <2>. HIDE DEF matching
  <2>. QED
    BY <1>1, <2>1, VerdictPermits
<1>. SUFFICES ASSUME NEW p \in Range(harnessPolicies),
                     InScope(p, call.agent), Holds(p, call.kind), MatchDst(p.dst, call),
                     SourceMatches(p.src, call, s, Memberships(s.user))
              PROVE  p.effect = "permit"
  BY DEF HarnessAgrees
<1>3. ~Unrenderable(p.dst, call) /\ p.effect \in {"permit", "deny"}
  BY HeldPolicies DEF Unrenderable
<1>4. p.effect = "deny" => p \in matching
  BY <1>3
<1>. QED
  BY <1>2, <1>3, <1>4

LEMMA DeniesBind ==
    ASSUME PoliciesHeld
    PROVE  DenyOverridesBinds
<1>. SUFFICES ASSUME denyOverrides, NEW s \in Sessions
              PROVE  /\ \A call \in Plans : Allowed(EvaluateV2Plan(call, s)) => PlanAgrees(call, s)
                     /\ \A c \in ({"shell"} \X Shells) \cup ({"mcp"} \X MCPCalls) :
                            Allowed(Decision(c, s)) => HarnessAgrees(c[2], s)
  BY DEF DenyOverridesBinds
<1>1. ASSUME NEW c \in ({"shell"} \X Shells) \cup ({"mcp"} \X MCPCalls), Allowed(Decision(c, s))
      PROVE  HarnessAgrees(c[2], s)
  <2>1. CASE c[1] = "shell"
    <3>. DEFINE held == {p \in Range(harnessPolicies) : CountsForShell(p)}
    <3>1. Decision(c, s) = EvaluateV2Shell(c[2], s)
      BY <2>1 DEF Decision
    <3>2. Allowed(HarnessAnswer(held, c[2], s))
      BY <1>1, <3>1 DEF EvaluateV2Shell
    <3>3. \A p \in Range(harnessPolicies) : p.effect = "deny" => p \in held
      BY DEF CountsForShell
    <3>4. held \subseteq Range(harnessPolicies) /\ c[2] \in Shells \cup MCPCalls
      OBVIOUS
    <3>. HIDE DEF held
    <3>. QED
      BY <3>2, <3>3, <3>4, HarnessBinds
  <2>2. CASE c[1] = "mcp"
    <3>1. Decision(c, s) = EvaluateV2MCP(c[2], s)
      BY <2>2 DEF Decision
    <3>2. Allowed(HarnessAnswer(Range(harnessPolicies), c[2], s))
      BY <1>1, <3>1 DEF EvaluateV2MCP
    <3>. QED
      BY <3>2, HarnessBinds
  <2>. QED
    BY <2>1, <2>2
<1>. QED
  BY <1>1, PlanBinds

\* Under deny_overrides one deny that reaches a call, or one operation of its
\* plan, refuses the whole, for every list of checks and policies, their
\* priorities and order.
THEOREM DenyBinds == HarnessSpec => []DenyOverridesBinds
BY PoliciesStayPolicies, DeniesBind, PTL

-----------------------------------------------------------------------------
(* The native list and the local PDP.                                      *)

\* A source that matches a person online stops the native walk as well: by
\* itself, or as one that only a session can resolve.
LEMMA OnlineStopsNative ==
    ASSUME NEW src, NEW call, NEW s, NEW m, SourceMatches(src, call, s, m)
    PROVE  MatchSrc(src, call) \/ Human(src)
<1>1. CASE src.scheme = "harness"
  BY <1>1 DEF SourceMatches, SrcMatch, MatchPrincipal, MatchSrc
<1>2. CASE src.scheme = "agent"
  BY <1>2 DEF SourceMatches, SrcMatch, MatchPrincipal, As, MatchSrc
<1>3. CASE src.scheme = "any"
  BY <1>3 DEF MatchSrc
<1>4. CASE src.scheme \notin {"harness", "agent", "any"}
  BY <1>4 DEF Human
<1>. QED
  BY <1>1, <1>2, <1>3, <1>4

LEMMA NativeFollowsOnline ==
    ASSUME PoliciesHeld, denyOverrides, NEW call, NEW s,
           NEW held, held \subseteq Range(harnessPolicies),
           HarnessAnswer(held, call, s).code = "policy_deny"
    PROVE  EvaluateHarness(call).outcome # "permit"
<1>. DEFINE m == Memberships(s.user)
            matching == {p \in held :
                /\ InScope(p, call.agent) /\ Holds(p, call.kind) /\ MatchDst(p.dst, call)
                /\ ~Unrenderable(p.dst, call)
                /\ SourceMatches(p.src, call, s, m)}
            stops == PoliciesThatHold(call.kind) \cap Stops(harnessPolicies, call)
            denies == {j \in stops : harnessPolicies[j].effect = "deny"}
<1>1. Verdict(matching, "policy_permit").code = "policy_deny"
  BY Refusals DEF HarnessAnswer, Deny, Gate, SubjectGate
<1>2. matching # {} /\ Winner(matching).effect = "deny"
  BY <1>1 DEF Verdict, Deny, Allow
<1>3. Winner(matching) \in matching
  <2>1. \A p \in matching : p.id \in Nat /\ p.effect \in {"permit", "deny"}
    BY HeldPolicies
  <2>. HIDE DEF matching
  <2>. QED
    BY <1>2, <2>1, DenyWins
<1>4. PICK i \in DOMAIN harnessPolicies : harnessPolicies[i] \in matching
                                          /\ harnessPolicies[i].effect = "deny"
  BY <1>2, <1>3 DEF Range
<1>5. i \in denies
  <2>1. MatchSrc(harnessPolicies[i].src, call) \/ Human(harnessPolicies[i].src)
    BY <1>4, OnlineStopsNative
  <2>. QED
    BY <1>4, <2>1 DEF Stops, PoliciesThatHold, InScope
<1>6. FirstStop(harnessPolicies, stops, denyOverrides) \in denies
  <2>1. denies \subseteq Nat
    BY HeldPolicies DEF Stops
  <2>2. First(denies) \in denies
    BY <1>5, <2>1, FirstIsOne
  <2>. QED
    BY <1>5, <2>2 DEF FirstStop
<1>7. harnessPolicies[FirstStop(harnessPolicies, stops, denyOverrides)].effect = "deny"
  BY <1>6
<1>. HIDE DEF stops
<1>8. EvaluateWith(call, harnessPolicies, PoliciesThatHold(call.kind), denyOverrides,
                   KnownHarnessKind(registry, call.kind), HarnessKindDecidesViaPDP(call.kind)).outcome
        # "permit"
  BY <1>7 DEF EvaluateWith, NotRenderable, stops
<1>. QED
  BY <1>8 DEF EvaluateHarness, NotRenderable

\* A command or an MCP tool is held against the harness policies, for a
\* command against those that count.
LEMMA PDPAnswers ==
    ASSUME NEW c \in PDPCalls, NEW s
    PROVE  \E held \in SUBSET Range(harnessPolicies) :
               /\ Decision(c, s) = HarnessAnswer(held, c[2], s)
               /\ \A p \in Range(harnessPolicies) : p.effect = "deny" => p \in held
               /\ c[1] = "shell" => \A p \in held : CountsForShell(p)
<1>. DEFINE counting == {p \in Range(harnessPolicies) : CountsForShell(p)}
<1>1. CASE c[1] = "shell"
  <2>1. Decision(c, s) = HarnessAnswer(counting, c[2], s)
    BY <1>1 DEF Decision, EvaluateV2Shell
  <2>2. \A p \in Range(harnessPolicies) : p.effect = "deny" => p \in counting
    BY DEF CountsForShell
  <2>. QED
    BY <2>1, <2>2
<1>2. CASE c[1] = "mcp"
  BY <1>2 DEF Decision, EvaluateV2MCP
<1>. QED
  BY <1>1, <1>2 DEF PDPCalls

\* Under deny_overrides no native list permits a command or an MCP tool that
\* the local PDP would refuse by a deny, for every list, registry and person.
THEOREM NativeAgrees == HarnessSpec => []NativePermitStandsOnline
<1>1. PoliciesHeld => NativePermitStandsOnline
  BY NativeFollowsOnline, PDPAnswers, Zenon DEF NativePermitStandsOnline
<1>. QED
  BY <1>1, PoliciesStayPolicies, PTL

\* A source on which the native walk stops, not for a person, matches every
\* person online when the call names no harness.
LEMMA NativeStopsOnline ==
    ASSUME NEW src, NEW call, call.harness = Nothing, NEW s, NEW m,
           MatchSrc(src, call), ~Human(src)
    PROVE  SourceMatches(src, call, s, m)
<1>1. CASE src.scheme = "any"
  BY <1>1 DEF SourceMatches, SrcMatch, MatchPrincipal
<1>2. CASE src.scheme = "harness"
  BY <1>2 DEF MatchSrc, SourceMatches
<1>3. CASE src.scheme = "agent"
  BY <1>3 DEF MatchSrc, SourceMatches, SrcMatch, As
<1>. QED
  BY <1>1, <1>2, <1>3 DEF Human

LEMMA OutcomeOfStop ==
    ASSUME NEW native, NEW human, NEW effect, NEW id,
           native = IF human THEN NotRenderable("human_source")
                    ELSE [outcome |-> effect, policy |-> id]
    PROVE  /\ human => native.outcome = "not_renderable"
           /\ ~human => native.outcome = effect /\ native.policy = id
<1>1. human => native = NotRenderable("human_source")
  BY Zenon
<1>2. ~human => native = [outcome |-> effect, policy |-> id]
  BY Zenon
<1>. QED
  BY <1>1, <1>2 DEF NotRenderable

LEMMA OnlineFollowsNative ==
    ASSUME PoliciesHeld, NEW call \in Shells \cup MCPCalls, NEW s,
           NEW held, held \subseteq Range(harnessPolicies),
           \A p \in Range(harnessPolicies) : p.effect = "deny" => p \in held,
           call.argv # << >> => \A p \in held : CountsForShell(p),
           Allowed(HarnessAnswer(held, call, s)),
           NEW native, native = EvaluateWith(call, harnessPolicies, PoliciesThatHold(call.kind),
                                             denyOverrides, TRUE, FALSE)
    PROVE  /\ native.outcome # "unmatched"
           /\ denyOverrides /\ native.outcome = "deny"
                  => \E p \in Range(harnessPolicies) :
                         p.id = native.policy /\ p.effect = "deny" /\ p.elsewhere
<1>. DEFINE m == Memberships(s.user)
            matching == {p \in held :
                /\ InScope(p, call.agent) /\ Holds(p, call.kind) /\ MatchDst(p.dst, call)
                /\ ~Unrenderable(p.dst, call)
                /\ SourceMatches(p.src, call, s, m)}
            stops == PoliciesThatHold(call.kind) \cap Stops(harnessPolicies, call)
            at == FirstStop(harnessPolicies, stops, denyOverrides)
            d == harnessPolicies[at]
<1>1. call.path = << >> /\ call.harness = Nothing
  BY HeldPolicies
<1>2. Allowed(Verdict(matching, "policy_permit")) /\ matching # {}
  BY DEF HarnessAnswer, Allowed, Verdict, Deny
<1>3. stops # {} /\ stops \subseteq Nat /\ stops \subseteq DOMAIN harnessPolicies
  <2>1. PICK p \in matching : TRUE
    BY <1>2
  <2>2. PICK i \in DOMAIN harnessPolicies : harnessPolicies[i] = p
    BY <2>1 DEF Range
  <2>3. MatchSrc(p.src, call) \/ Human(p.src)
    BY <2>1, OnlineStopsNative
  <2>4. i \in stops
    BY <2>1, <2>2, <2>3 DEF Stops, PoliciesThatHold, InScope, CountsForShell
  <2>5. stops \subseteq DOMAIN harnessPolicies /\ DOMAIN harnessPolicies \subseteq Nat
    BY HeldPolicies DEF Stops
  <2>. QED
    BY <2>4, <2>5
<1>4. at \in stops
  <2>1. \A T : T \subseteq stops /\ T # {} => First(T) \in T
    BY <1>3, FirstIsOne
  <2>. HIDE DEF stops
  <2>. QED
    BY <1>3, <2>1 DEF FirstStop
<1>. HIDE DEF at
<1>5. d \in Range(harnessPolicies) /\ d.agent \in {Nothing, call.agent}
      /\ Holds(d, call.kind) /\ MatchDst(d.dst, call)
  BY <1>4 DEF Stops, PoliciesThatHold, Range
<1>6. MatchSrc(d.src, call) \/ Human(d.src)
  BY <1>4 DEF Stops
<1>7. ~Unrenderable(d.dst, call)
  BY <1>1 DEF Unrenderable
<1>8. native = IF Human(d.src) THEN NotRenderable("human_source")
               ELSE [outcome |-> d.effect, policy |-> d.id]
  <2>. HIDE DEF stops, d
  <2>1. EvaluateWith(call, harnessPolicies, PoliciesThatHold(call.kind), denyOverrides, TRUE, FALSE)
          = IF Human(d.src) THEN NotRenderable("human_source")
            ELSE [outcome |-> d.effect, policy |-> d.id]
    BY <1>1, <1>3, <1>7, Zenon DEF EvaluateWith, stops, d, at
  <2>. QED
    BY <2>1
<1>9. d.effect \in {"permit", "deny"}
  BY <1>5, HeldPolicies
<1>10. Human(d.src) => native.outcome = "not_renderable"
  BY <1>8, OutcomeOfStop
<1>11. ~Human(d.src) => native.outcome = d.effect /\ native.policy = d.id
  BY <1>8, OutcomeOfStop
<1>12. native.outcome # "unmatched"
  <2>. HIDE DEF d
  <2>. QED
    BY <1>9, <1>10, <1>11
<1>13. ASSUME denyOverrides, native.outcome = "deny"
       PROVE  d.id = native.policy /\ d.effect = "deny" /\ d.elsewhere
  <2>1. ~Human(d.src) /\ d.effect = "deny" /\ d.id = native.policy
    <3>. HIDE DEF d
    <3>. QED
      BY <1>10, <1>11, <1>13
  <2>2. SourceMatches(d.src, call, s, m)
    BY <1>1, <1>6, <2>1, NativeStopsOnline
  <2>3. ~d.elsewhere => d \in matching
    BY <1>5, <1>7, <2>1, <2>2 DEF InScope
  <2>4. \A p \in matching : p.effect = "permit"
    <3>1. \A p \in matching : p.id \in Nat /\ p.effect \in {"permit", "deny"}
      BY HeldPolicies
    <3>. HIDE DEF matching
    <3>. QED
      BY <1>2, <1>13, <3>1, VerdictPermits
  <2>. QED
    BY <2>1, <2>3, <2>4
<1>. QED
  BY <1>5, <1>12, <1>13

\* What the local PDP permits, no native list passes over, nor refuses under
\* deny_overrides but by a deny of another organization or workspace: for every
\* list of policies and every person.
THEOREM OnlineAgrees == HarnessSpec => []OnlinePermitStandsNatively
<1>1. PoliciesHeld => OnlinePermitStandsNatively
  <2>. SUFFICES ASSUME PoliciesHeld, NEW c \in PDPCalls, NEW s \in Sessions, Allowed(Decision(c, s)),
                       NEW native, native = EvaluateWith(c[2], harnessPolicies,
                                                PoliciesThatHold(c[2].kind), denyOverrides, TRUE, FALSE)
                PROVE  /\ native.outcome # "unmatched"
                       /\ denyOverrides /\ native.outcome = "deny"
                              => \E p \in Range(harnessPolicies) :
                                     p.id = native.policy /\ p.effect = "deny" /\ p.elsewhere
    BY DEF OnlinePermitStandsNatively
  <2>1. PICK held \in SUBSET Range(harnessPolicies) :
               /\ Decision(c, s) = HarnessAnswer(held, c[2], s)
               /\ \A p \in Range(harnessPolicies) : p.effect = "deny" => p \in held
               /\ c[1] = "shell" => \A p \in held : CountsForShell(p)
    BY PDPAnswers
  <2>2. /\ c[2] \in Shells \cup MCPCalls
        /\ c[2].argv # << >> => c[1] = "shell"
    BY HeldPolicies DEF PDPCalls
  <2>. QED
    BY <2>1, <2>2, OnlineFollowsNative
<1>. QED
  BY <1>1, PoliciesStayPolicies, PTL
=============================================================================
