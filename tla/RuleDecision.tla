---------------------------- MODULE RuleDecision ----------------------------
(***************************************************************************)
(* The shared policy decision (policy/decide.go): rules that administrators*)
(* edit, access grants that run out, and Decide and DecideAt, which answer *)
(* a request from a slice of each.  Who edits the slices, and in what      *)
(* order they come, is outside the package: here any rule may appear,      *)
(* change or vanish at any position while the clock runs.                  *)
(***************************************************************************)
EXTENDS PolicyPatterns, SequencesExt

CONSTANTS
    Catalogs,    \* rules that are held together, and how many: [rules, most]
    GrantPool,   \* the access grants there can be
    Requests,    \* the requests asked about
    MaxGrants,   \* bound on the grants held together
    MaxTime,     \* bound on the clock
    AnyHarness   \* a condition that names no harness, a call of none

Effects == {"permit", "deny"}

RulePool == UNION {catalog.rules : catalog \in Catalogs}

ASSUME RulesAssumption ==
    /\ Catalogs # {}
    /\ \A r \in RulePool : r.id \in Nat /\ r.effect \in Effects /\ r.enabled \in BOOLEAN
    /\ \A catalog \in Catalogs :
           /\ catalog.most \in Nat
           /\ \A r \in catalog.rules, b \in BOOLEAN : [r EXCEPT !.enabled = b] \in catalog.rules
ASSUME GrantsAssumption == \A g \in GrantPool : g.expire \in Nat
ASSUME BoundsAssumption == MaxTime \in Nat /\ MaxGrants \in Nat

VARIABLES
    rules,    \* the rules, in the order the caller happens to hold them
    grants,   \* the access grants, likewise
    now       \* the clock

vars == <<rules, grants, now>>

TypeOK ==
    /\ \E catalog \in Catalogs : rules \in Seq(catalog.rules) /\ Len(rules) <= catalog.most
    /\ grants \in Seq(GrantPool) /\ Len(grants) <= MaxGrants
    /\ now \in 0..MaxTime

-----------------------------------------------------------------------------
WhenMatches(when, q) == when = AnyHarness \/ when = q.harness

Applies(r, q) ==
    /\ r.enabled
    /\ MatchPrincipal(r.principal, q)
    /\ TargetMatches(r.target, q.target)
    /\ WhenMatches(r.when, q)

Matched(rs, q) == {i \in DOMAIN rs : Applies(rs[i], q)}

\* Mutant: permits come first.
PermitFirst(a, b) ==
    \/ a.effect # "deny" /\ b.effect = "deny"
    \/ (a.effect = "deny") = (b.effect = "deny") /\ a.id < b.id
Precedence(a, b) ==
    \/ a.effect = "deny" /\ b.effect # "deny"
    \/ (a.effect = "deny") = (b.effect = "deny") /\ a.id < b.id

\* The stable sort of Decide: rules that tie keep the order of the slice.
\* Mutant: no sort at all, the first match decides.
SliceOrder(rs, i, j) == i < j
Before(rs, i, j) ==
    Precedence(rs[i], rs[j]) \/ (~Precedence(rs[j], rs[i]) /\ i < j)

Decider(rs, q) ==
    CHOOSE i \in Matched(rs, q) : \A j \in Matched(rs, q) \ {i} : Before(rs, i, j)

\* The other matching rules, in that order.
Place(rs, M, i) == Cardinality({j \in M : Before(rs, j, i)})
Outranked(rs, q) ==
    LET M == Matched(rs, q)
    IN [n \in 1..(Cardinality(M) - 1) |-> rs[CHOOSE i \in M : Place(rs, M, i) = n].id]

Decide(rs, q) ==
    IF Matched(rs, q) = {} THEN [decision |-> "no_match", reason |-> ""]
    ELSE [decision |-> rs[Decider(rs, q)].effect, by |-> rs[Decider(rs, q)].id]

GrantMatches(g, q) == MatchPrincipal(g.principal, q) /\ TargetMatches(g.target, q.target)

\* Mutant: a grant counts once its time has come, instead of until then.
LiveFrom(g, t) == t >= g.expire
Live(g, t) == t < g.expire

\* Mutant: the grants are looked at before the rules.
GrantsFirst(rs, gs, q, t) ==
    LET matching == {g \in Range(gs) : GrantMatches(g, q)}
    IN IF \E g \in matching : Live(g, t) THEN [decision |-> "permit", by |-> "grant"]
       ELSE IF Matched(rs, q) # {} THEN Decide(rs, q)
       ELSE IF matching # {} THEN [decision |-> "no_match", reason |-> "access_grant_expired"]
       ELSE [decision |-> "no_match", reason |-> "no_grant_matched"]
DecideAt(rs, gs, q, t) ==
    LET matching == {g \in Range(gs) : GrantMatches(g, q)}
    IN IF Matched(rs, q) # {} THEN Decide(rs, q)
       ELSE IF \E g \in matching : Live(g, t) THEN [decision |-> "permit", by |-> "grant"]
       ELSE IF matching # {} THEN [decision |-> "no_match", reason |-> "access_grant_expired"]
       ELSE [decision |-> "no_match", reason |-> "no_grant_matched"]

-----------------------------------------------------------------------------
Init == rules = << >> /\ grants = << >> /\ now = 0

AddRule(r) ==
    /\ \E catalog \in Catalogs :
           r \in catalog.rules /\ rules \in Seq(catalog.rules) /\ Len(rules) < catalog.most
    /\ \E i \in 1..(Len(rules) + 1) : rules' = InsertAt(rules, i, r)
    /\ UNCHANGED <<grants, now>>

RemoveRule(i) ==
    /\ rules' = RemoveAt(rules, i)
    /\ UNCHANGED <<grants, now>>

SetEnabled(i, enabled) ==
    /\ rules[i].enabled # enabled
    /\ rules' = [rules EXCEPT ![i].enabled = enabled]
    /\ UNCHANGED <<grants, now>>

AddGrant(g) ==
    /\ Len(grants) < MaxGrants
    /\ grants' = Append(grants, g)
    /\ UNCHANGED <<rules, now>>

WithdrawGrant(i) ==
    /\ grants' = RemoveAt(grants, i)
    /\ UNCHANGED <<rules, now>>

Tick ==
    /\ now < MaxTime
    /\ now' = now + 1
    /\ UNCHANGED <<rules, grants>>

Next ==
    \/ \E r \in RulePool : AddRule(r)
    \/ \E i \in DOMAIN rules : RemoveRule(i) \/ \E b \in BOOLEAN : SetEnabled(i, b)
    \/ \E g \in GrantPool : AddGrant(g)
    \/ \E i \in DOMAIN grants : WithdrawGrant(i)
    \/ Tick

Spec == Init /\ [][Next]_vars

-----------------------------------------------------------------------------
(* Properties.                                                             *)

RulesFor(q) == {r \in Range(rules) : Applies(r, q)}
Denying(S) == {r \in S : r.effect = "deny"}

Lowest(S) == CHOOSE r \in S : \A s \in S : r.id <= s.id

\* Deny overrides (README 320): one applicable deny decides against any
\* number of permits, the lowest identifier of the deciding effect is named,
\* and priority and position count for nothing.
DenyOverrides ==
    \A q \in Requests :
        LET deny == Denying(RulesFor(q))
            side == IF deny # {} THEN deny ELSE RulesFor(q)
        IN IF side = {} THEN Decide(rules, q).decision = "no_match"
           ELSE Decide(rules, q) = [decision |-> Lowest(side).effect, by |-> Lowest(side).id]

\* The catalog, the runtime and the CLI may hold the rules in different
\* orders and still give the same answer, the outranked rules included.
OrderIrrelevant ==
    \A q \in Requests :
        Matched(rules, q) # {} =>
            /\ Decide(rules, q) = Decide(Reverse(rules), q)
            /\ Outranked(rules, q) = Outranked(Reverse(rules), q)

\* No grant lifts a deny, however long it runs.
DenyBeatsGrant ==
    \A q \in Requests :
        Denying(RulesFor(q)) # {} => DecideAt(rules, grants, q, now).decision = "deny"

InForce(rs, effect) == {r \in Range(rs) : r.enabled /\ r.effect = effect}

Permitted(rs, gs, q, t) == DecideAt(rs, gs, q, t).decision = "permit"

\* Access widens by a permit, a grant or the end of a deny and by nothing
\* else: not by the passing of time, by one more deny, or by the end of a
\* permit that hid a grant.
NothingElseWidens ==
    [][ (InForce(rules', "permit") \subseteq InForce(rules, "permit")
         /\ InForce(rules, "deny") \subseteq InForce(rules', "deny")
         /\ Range(grants') \subseteq Range(grants))
        => \A q \in Requests :
               Permitted(rules', grants', q, now') => Permitted(rules, grants, q, now) ]_vars
=============================================================================
