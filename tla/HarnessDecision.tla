-------------------------- MODULE HarnessDecision --------------------------
(***************************************************************************)
(* How a v2 bundle splits the calls of the harnesses: EvaluateHarness      *)
(* decides for the native allowlist of a kind, the local PDP (the          *)
(* evaluators of V2Evaluation) for the kinds that ask call by call, and    *)
(* the kind registry that the bundle may carry says which is which         *)
(* (bundle/bundle.go, bundle/harness_match.go, bundle/deny_overrides.go).  *)
(***************************************************************************)
EXTENDS V2Evaluation

CONSTANTS
    Kinds,          \* harnessmatch.Kinds, the built-in harness kinds
    Harnesses,      \* the bundle's harnesses: records of an agent and a kind
    ShellTools      \* the tool names asked about

VARIABLE registry   \* the bundle's harness_kinds, empty when it carries none

hvars == <<vars, registry>>

KindPool == estate.kindPool         \* the entries a bundle's registry may have
MaxKinds == estate.maxKinds         \* bound on the registry
NativeCalls == estate.nativeCalls   \* calls of the native lists: paths, skills, tools

BuiltInPDP == {"custom", "pi"}
ASSUME KindsAssumption == BuiltInPDP \subseteq Kinds

Entries(list, kind) == {i \in DOMAIN list : list[i].kind = kind}

KnownHarnessKind(list, kind) ==
    IF list = << >> THEN kind \in Kinds ELSE Entries(list, kind) # {}

HarnessKindDecidesViaPDP(kind) ==
    LET said == {i \in Entries(registry, kind) : registry[i].via # Nothing}
    IN IF said = {} THEN kind \in BuiltInPDP ELSE registry[First(said)].via = "pdp"

\* Mutant: a kind that decides natively still lends its shell tool.
KindOfAnyShellTool(tool) ==
    IF registry = << >> THEN {k \in {"pi"} : tool = "pi.bash"}
    ELSE {registry[i].kind : i \in {j \in DOMAIN registry : registry[j].shell = tool}}
\* The kinds whose shell tool this is; the code returns the first of them.
HarnessKindForShellTool(tool) ==
    IF registry = << >> THEN {k \in {"pi"} : tool = "pi.bash"}
    ELSE {registry[i].kind : i \in {j \in DOMAIN registry :
             registry[j].shell = tool /\ HarnessKindDecidesViaPDP(registry[j].kind)}}

\* No kind twice; the names of its tools stand under its prefix.
ValidateHarnessKinds(list) ==
    /\ \A i, j \in DOMAIN list : list[i].kind = list[j].kind => i = j
    /\ \A i \in DOMAIN list : list[i].prefixed /\ list[i].via \in {Nothing, "pdp", "native"}

ValidateHarnesses(list) ==
    /\ ValidateHarnessKinds(list)
    /\ \A h \in Harnesses : KnownHarnessKind(list, h.kind) /\ ~KnownHarnessKind(list, h.agent)

PoliciesThatHold(kind) == {i \in DOMAIN harnessPolicies : Holds(harnessPolicies[i], kind)}

EvaluateHarness(call) ==
    IF ~Fresh THEN NotRenderable("bundle_invalid")
    ELSE EvaluateWith(call, harnessPolicies, PoliciesThatHold(call.kind), denyOverrides,
                      KnownHarnessKind(registry, call.kind), HarnessKindDecidesViaPDP(call.kind))

-----------------------------------------------------------------------------
HarnessInit ==
    /\ Init /\ registry = << >> /\ ValidateHarnesses(registry)

PublishRegistry ==
    /\ Accepted
    /\ registry' \in Edits(registry, KindPool, MaxKinds)
    /\ ValidateHarnesses(registry')
    /\ UNCHANGED <<estate, rows, checks, toolPolicies, harnessPolicies, denyOverrides, planHook, now>>

HarnessNext == PublishRegistry \/ (Next /\ UNCHANGED registry)

HarnessSpec == HarnessInit /\ [][HarnessNext]_hvars

-----------------------------------------------------------------------------
(* Properties.                                                             *)

HarnessCallsAsked == Shells \cup MCPCalls \cup NativeCalls

\* What the local PDP is asked, a command or an MCP tool.
PDPCalls == ({"shell"} \X Shells) \cup ({"mcp"} \X MCPCalls)

\* What a native allowlist permits, no deny would have refused had the local
\* PDP been asked about the same command or MCP tool under deny_overrides: for
\* no person does a matching deny stand behind the permit in the array.
NativePermitStandsOnline ==
    \A c \in PDPCalls, s \in Sessions :
        denyOverrides /\ EvaluateHarness(c[2]).outcome = "permit"
            => Decision(c, s).code # "policy_deny"

\* And what the local PDP permits a person, the list of a kind that decides
\* natively does not pass over, and under deny_overrides does not refuse but by
\* a deny of another organization or workspace: the two walks hold the same
\* policies against a call, and grant a command by the same literal prefixes
\* (harness_match.go 92, harnessmatch.go 134).
OnlinePermitStandsNatively ==
    \A c \in PDPCalls, s \in Sessions :
        LET native == EvaluateWith(c[2], harnessPolicies, PoliciesThatHold(c[2].kind),
                                   denyOverrides, TRUE, FALSE)
        IN Allowed(Decision(c, s)) =>
               /\ native.outcome # "unmatched"
               /\ denyOverrides /\ native.outcome = "deny"
                      => \E p \in Range(harnessPolicies) :
                             p.id = native.policy /\ p.effect = "deny" /\ p.elsewhere

\* A tool whose command line the local PDP decides belongs to a kind whose
\* native list decides nothing, through every change of the registry: no call
\* has two deciders.
ShellToolHasOneDecider ==
    \A tool \in ShellTools, call \in HarnessCallsAsked :
        call.kind \in HarnessKindForShellTool(tool) /\ Fresh
            => EvaluateHarness(call) = NotRenderable("evaluate_via_pdp")
=============================================================================
