--------------------------- MODULE RuleRendering ---------------------------
(***************************************************************************)
(* Render (policy/render.go): the rules that apply to one caller, turned   *)
(* into the native allow and deny entries of a harness.  The rules change  *)
(* as in RuleDecision; at every moment a harness may be rendered to.       *)
(***************************************************************************)
EXTENDS RuleDecision, PathGlobs

CONSTANTS
    Kinds,      \* harnessmatch.Kinds, the known harness kinds
    AnyKind,    \* the kinds a caller may render for, known or not
    Targets     \* the concrete targets a harness may be asked about

ASSUME KindsAssumption == Kinds \subseteq AnyKind
ASSUME RequestsAssumption ==
    \A q \in Requests : DOMAIN q = {"user", "email", "groups", "target", "harness"}
ASSUME PatternsAssumption ==
    Targets \cup {r.target : r \in RulePool} \subseteq [scheme : STRING, toks : Seq(STRING)]

GlobsOverlap(a, b) ==
    LET common == 1..(IF Len(a) < Len(b) THEN Len(a) ELSE Len(b))
        open(n) == \/ {a[n], b[n]} \cap {"**", "~"} # {}
                   \/ a[n] = "*" /\ n = Len(a)
                   \/ b[n] = "*" /\ n = Len(b)
        clash(n) == a[n] # b[n] /\ ~HoldsStar(a[n]) /\ ~HoldsStar(b[n])
    IN \/ \E n \in common : open(n) /\ \A m \in 1..(n - 1) : ~clash(m)
       \/ Len(a) = Len(b) /\ \A n \in common : ~clash(n)

IsWildcard(p) == p.toks = <<"*">> /\ p.scheme # "any"

\* Mutant: only the first pattern may be the shorter one.
ShellPrefixOneWay(a, b) ==
    \/ a = << >> \/ b = << >> \/ Head(a) = "*" \/ Head(b) = "*"
    \/ Len(a) <= Len(b) /\ a = SubSeq(b, 1, Len(a))
ShellOverlap(a, b) ==
    \/ a = << >> \/ b = << >> \/ Head(a) = "*" \/ Head(b) = "*"
    \/ IsPrefix(a, b) \/ IsPrefix(b, a)

TargetsOverlap(a, b) ==
    \/ a = b
    \/ "any" \in {a.scheme, b.scheme}
    \/ /\ a.scheme = b.scheme
       /\ \/ IsWildcard(a) \/ IsWildcard(b)
          \/ a.scheme = "shell" /\ ShellOverlap(a.toks, b.toks)
          \/ a.scheme = "path" /\ GlobsOverlap(a.toks, b.toks)

\* The denies that the harness will not hold: disabled, or for others.
UnrenderedDenies(rs, caller) ==
    {r \in Range(rs) : r.effect = "deny"
                       /\ (~r.enabled \/ ~MatchPrincipal(r.principal, caller))}

\* Mutant: a rule that is switched off is rendered like the others.
DisabledToo(r, rs, caller) ==
    /\ MatchPrincipal(r.principal, caller)
    /\ r.effect = "permit" =>
           ~\E d \in UnrenderedDenies(rs, caller) \ {r} : TargetsOverlap(r.target, d.target)
Renderable(r, rs, caller) ==
    /\ r.enabled
    /\ MatchPrincipal(r.principal, caller)
    /\ r.effect = "permit" =>
           ~\E d \in UnrenderedDenies(rs, caller) : TargetsOverlap(r.target, d.target)

\* The entries, as a set: the denies among them override, in whatever order
\* they stand.  An unknown kind has none.
Render(rs, caller, kind) ==
    {r \in Range(rs) : kind \in Kinds /\ Renderable(r, rs, caller)}

-----------------------------------------------------------------------------
(* What a harness makes of its entries, without the principals and the     *)
(* conditions that chose them.  Connectors are none of its calls, an MCP   *)
(* target is a server or a server and a tool, and a path of the caller's   *)
(* home is one that is written out.                                        *)

HarnessSchemes == {"shell", "path", "mcp", "skill", "tool"}

\* MatchDst of harnessmatch, for a call that is the target x.
HarnessCovers(p, x) ==
    \/ p.scheme = "any"
    \/ /\ p.scheme = x.scheme
       /\ \/ IsWildcard(p)
          \/ p.scheme \in {"shell", "mcp"} /\ p.toks # << >> /\ IsPrefix(p.toks, x.toks)
          \/ p.scheme = "path" /\ GlobMatch(p.toks, x.toks)
          \/ p.scheme \in {"skill", "tool"} /\ p = x

\* Deny entries override; a command is permitted by a literal prefix only.
LocallyPermitted(entries, x) ==
    /\ x.scheme \in HarnessSchemes /\ x.toks # << >>
    /\ \E e \in entries :
           /\ e.effect = "permit" /\ HarnessCovers(e.target, x)
           /\ x.scheme = "shell" => e.target.scheme = "shell" /\ ~IsWildcard(e.target)
    /\ \A e \in entries : e.effect = "deny" => ~HarnessCovers(e.target, x)

-----------------------------------------------------------------------------
(* Properties.                                                             *)

\* A pattern matches a target, by the decision or by the harness.
Covers(p, x) == TargetMatches(p, x) \/ HarnessCovers(p, x)

\* The people that ask, each by one of their requests.
Callers ==
    LET person(q) == <<q.user, q.email, q.groups>>
    IN {CHOOSE q \in Requests : person(q) = someone : someone \in {person(q) : q \in Requests}}

\* A shell pattern whose last token opens a directory.
Opens(p) == p.scheme = "shell" /\ p.toks # << >> /\ p.toks[Len(p.toks)] \in SlashTokens

Conditioned(kind) == {r \in Range(rules) : r.when \notin {AnyHarness, kind}}

\* What a harness lets through on its own, the shared decision permits too, as
\* long as no rule carries a condition on another harness, with two exceptions.
\* Where a permit is a glob, or an MCP server for its tools, which Decide
\* compares whole, it has no rule for the call.  And a command that a deny
\* names by a directory below which it works (decide.go 196), the harness,
\* which compares tokens whole (harnessmatch.go 196), lets through.
RenderedNeverWider ==
    \A q \in Callers, kind \in AnyKind, x \in Targets :
        LET entries == Render(rules, q, kind)
            answer == Decide(rules, [q EXCEPT !.target = x, !.harness = kind]).decision
        IN Conditioned(kind) = {} /\ LocallyPermitted(entries, x) =>
               \/ answer = "permit"
               \/ answer = "no_match" /\ x.scheme \in {"path", "mcp"}
               \/ \E d \in entries : d.effect = "deny" /\ Opens(d.target)
                                       /\ TargetMatches(d.target, x)

\* A permit that overlaps a deny the harness does not hold is withheld (fail
\* closed, README 356): no target is let through by a rendered permit while
\* an unrendered deny, switched off or for someone else, names it.
OverlapWithheld ==
    \A q \in Callers, kind \in AnyKind, x \in Targets :
        \A e \in Render(rules, q, kind), d \in UnrenderedDenies(rules, q) :
            e.effect = "permit" => ~(Covers(e.target, x) /\ Covers(d.target, x))

\* The pairs of patterns whose overlap the test does not find: connector
\* patterns, compared whole (render.go 124); a last shell token that opens a
\* directory, compared as it is (render.go 147); an MCP server and its tools
\* (render.go 151); a glob that goes on with stars which may take no segment at
\* all (render.go 170).
Overlooked(a, b) ==
    LET shorter(c, d) == Len(c) < Len(d) /\ \A i \in (Len(c) + 1)..Len(d) : d[i] = "**"
    IN /\ a.scheme = b.scheme
       /\ \/ a.scheme = "connector" /\ "*" \in Range(a.toks) \cup Range(b.toks)
          \/ a.scheme = "shell" /\ (Opens(a) \/ Opens(b))
          \/ a.scheme = "mcp" /\ (IsPrefix(a.toks, b.toks) \/ IsPrefix(b.toks, a.toks))
          \/ a.scheme = "path" /\ (shorter(a.toks, b.toks) \/ shorter(b.toks, a.toks))

\* With every other pair it is withheld, whatever the rules.
OverlapSeen ==
    \A q \in Callers, kind \in AnyKind, x \in Targets :
        \A e \in Render(rules, q, kind), d \in UnrenderedDenies(rules, q) :
            e.effect = "permit" /\ ~Overlooked(e.target, d.target)
                => ~(Covers(e.target, x) /\ Covers(d.target, x))
=============================================================================
