------------------------- MODULE RuleDecisionProofs -------------------------
(* Proofs about RuleDecision and RuleRendering for any rules, grants and     *)
(* requests: the sort of Decide finds a decider in every non-empty match and *)
(* gives every rule its place, and from what that decider says it follows    *)
(* that the decision is deny-overrides, moves one way only, is the same in   *)
(* every order of the slice, and is never wider in a rendered list.          *)
EXTENDS RuleRendering, SequenceTheorems, FiniteSetTheorems, FunctionTheorems, TLAPS

\* Every non-empty set of naturals has a least element.
LEMMA LeastNat ==
    ASSUME NEW T, T \subseteq Nat, T # {}
    PROVE  \E x \in T : \A y \in T : x <= y
<1>1. \E x \in T : \A y \in T : ~ (<<y, x>> \in OpToRel(<, Nat))
  BY NatLessThanWellFounded, WFMin
<1>2. PICK x \in T : \A y \in T : ~ (<<y, x>> \in OpToRel(<, Nat))
  BY <1>1
<1>3. \A y \in T : ~ (y < x)
  BY <1>2 DEF OpToRel
<1>. QED
  BY <1>3

\* A rule of the slice is a rule of the pool, with an identifier and an effect.
LEMMA RuleAt ==
    ASSUME NEW rs \in Seq(RulePool), NEW i \in DOMAIN rs
    PROVE  rs[i] \in RulePool /\ rs[i].id \in Nat /\ rs[i].effect \in Effects /\ i \in Nat
<1>1. i \in 1..Len(rs) /\ Len(rs) \in Nat
  BY LenProperties
<1>2. rs[i] \in RulePool
  BY <1>1, ElementOfSeq
<1>. QED
  BY <1>1, <1>2, RulesAssumption

\* Some rule of every non-empty match comes before all the others.
LEMMA FirstExists ==
    ASSUME NEW rs \in Seq(RulePool), NEW M, M \subseteq DOMAIN rs, M # {}
    PROVE  \E i \in M : \A j \in M \ {i} : Before(rs, i, j)
<1>. DEFINE deny == {i \in M : rs[i].effect = "deny"}
            side == IF deny # {} THEN deny ELSE M
            ids == {rs[i].id : i \in side}
<1>1. \A i \in M : rs[i].id \in Nat /\ rs[i].effect \in Effects /\ i \in Nat
  BY RuleAt
<1>2. side # {} /\ side \subseteq M
  OBVIOUS
<1>3. ids # {} /\ ids \subseteq Nat
  BY <1>1, <1>2
<1>. HIDE DEF ids
<1>4. PICK n \in ids : \A y \in ids : n <= y
  BY <1>3, LeastNat
<1>. DEFINE lowest == {i \in side : rs[i].id = n}
<1>5. lowest # {} /\ lowest \subseteq Nat
  BY <1>1, <1>2, <1>4 DEF ids
<1>. HIDE DEF lowest
<1>6. PICK i \in lowest : \A y \in lowest : i <= y
  BY <1>5, LeastNat
<1>7. i \in side /\ i \in M /\ rs[i].id = n
  BY <1>2, <1>6 DEF lowest
<1>8. ASSUME NEW j \in M \ {i} PROVE Before(rs, i, j)
  <2>1. /\ rs[i].id \in Nat /\ rs[j].id \in Nat /\ i \in Nat /\ j \in Nat
        /\ rs[i].effect \in Effects /\ rs[j].effect \in Effects
    BY <1>1, <1>7
  <2>2. CASE j \notin side
    <3>1. rs[i].effect = "deny" /\ rs[j].effect # "deny"
      BY <1>7, <2>2
    <3>. QED
      BY <3>1 DEF Before, Precedence
  <2>3. CASE j \in side
    <3>1. (rs[i].effect = "deny") = (rs[j].effect = "deny")
      BY <1>7, <2>3
    <3>2. n <= rs[j].id
      BY <1>4, <2>3 DEF ids
    <3>3. CASE rs[j].id = n
      <4>1. j \in lowest
        BY <2>3, <3>3 DEF lowest
      <4>2. i < j
        BY <1>6, <2>1, <4>1
      <4>. QED
        BY <1>7, <2>1, <3>1, <3>3, <4>2 DEF Before, Precedence
    <3>4. CASE rs[j].id # n
      <4>1. rs[i].id < rs[j].id
        BY <1>7, <2>1, <3>2, <3>4
      <4>. QED
        BY <3>1, <4>1 DEF Before, Precedence
    <3>. QED
      BY <3>3, <3>4
  <2>. QED
    BY <2>2, <2>3
<1>. QED
  BY <1>7, <1>8

\* What the decider of a non-empty match is: one of the matching rules, a deny
\* if there is one among them, and of its own effect the lowest identifier.
LEMMA DeciderFacts ==
    ASSUME NEW rs \in Seq(RulePool), NEW q, Matched(rs, q) # {}
    PROVE  LET d == Decider(rs, q)
           IN  /\ d \in Matched(rs, q)
               /\ \A j \in Matched(rs, q) :
                      /\ rs[j].effect = "deny" => rs[d].effect = "deny"
                      /\ rs[j].effect = rs[d].effect => rs[d].id <= rs[j].id
<1>. DEFINE d == Decider(rs, q)
<1>1. Matched(rs, q) \subseteq DOMAIN rs
  BY DEF Matched
<1>2. \E i \in Matched(rs, q) : \A j \in Matched(rs, q) \ {i} : Before(rs, i, j)
  BY <1>1, FirstExists
<1>3. d \in Matched(rs, q) /\ \A j \in Matched(rs, q) \ {d} : Before(rs, d, j)
  BY <1>2 DEF Decider
<1>. HIDE DEF d
<1>4. ASSUME NEW j \in Matched(rs, q)
      PROVE  /\ rs[j].effect = "deny" => rs[d].effect = "deny"
             /\ rs[j].effect = rs[d].effect => rs[d].id <= rs[j].id
  <2>1. /\ rs[d].id \in Nat /\ rs[j].id \in Nat
        /\ rs[d].effect \in Effects /\ rs[j].effect \in Effects
    BY <1>1, <1>3, RuleAt
  <2>2. CASE j = d
    BY <2>1, <2>2
  <2>3. CASE j # d
    <3>1. Before(rs, d, j)
      BY <1>3, <2>3
    <3>. QED
      BY <2>1, <3>1 DEF Before, Precedence
  <2>. QED
    BY <2>2, <2>3
<1>. QED
  BY <1>3, <1>4 DEF d

-----------------------------------------------------------------------------
\* Putting a rule in at a position leaves a slice of rules, one longer.
LEMMA InsertType ==
    ASSUME NEW S, NEW s \in Seq(S), NEW e \in S, NEW i \in 1..(Len(s) + 1)
    PROVE  InsertAt(s, i, e) \in Seq(S) /\ Len(InsertAt(s, i, e)) = Len(s) + 1
<1>1. SubSeq(s, 1, i - 1) \in Seq(S) /\ SubSeq(s, i, Len(s)) \in Seq(S) /\ <<e>> \in Seq(S)
  BY SubSeqProperties
<1>2. Len(SubSeq(s, 1, i - 1)) = i - 1 /\ Len(SubSeq(s, i, Len(s))) = Len(s) - i + 1
  BY SubSeqProperties
<1>. DEFINE before == SubSeq(s, 1, i - 1)
            after == SubSeq(s, i, Len(s))
<1>3. Len(s) \in Nat /\ InsertAt(s, i, e) = (before \o <<e>>) \o after
  BY LenProperties DEF InsertAt
<1>4. /\ before \in Seq(S) /\ Len(before) = i - 1
      /\ after \in Seq(S) /\ Len(after) = Len(s) - i + 1
      /\ i \in Int /\ Len(s) \in Int
  BY <1>1, <1>2, <1>3
<1>. HIDE DEF before, after
<1>. DEFINE front == before \o <<e>>
<1>5. front \in Seq(S) /\ Len(front) = i
  BY <1>1, <1>4, ConcatProperties
<1>6. InsertAt(s, i, e) = front \o after
  BY <1>3
<1>. HIDE DEF front
<1>7. front \o after \in Seq(S) /\ Len(front \o after) = Len(s) + 1
  BY <1>4, <1>5, ConcatProperties
<1>. QED
  BY <1>6, <1>7

\* Taking one out leaves a slice that is one shorter, of the same elements.
LEMMA RemoveType ==
    ASSUME NEW S, NEW s \in Seq(S), NEW i \in DOMAIN s
    PROVE  RemoveAt(s, i) \in Seq(S) /\ Len(RemoveAt(s, i)) = Len(s) - 1
<1>1. i \in 1..Len(s)
  BY LenProperties
<1>2. SubSeq(s, 1, i - 1) \in Seq(S) /\ SubSeq(s, i + 1, Len(s)) \in Seq(S)
  BY <1>1, SubSeqProperties
<1>3. Len(SubSeq(s, 1, i - 1)) = i - 1 /\ Len(SubSeq(s, i + 1, Len(s))) = Len(s) - i
  BY <1>1, SubSeqProperties
<1>. DEFINE before == SubSeq(s, 1, i - 1)
            after == SubSeq(s, i + 1, Len(s))
<1>4. Len(s) \in Nat /\ RemoveAt(s, i) = before \o after
  BY LenProperties DEF RemoveAt
<1>5. /\ before \in Seq(S) /\ Len(before) = i - 1
      /\ after \in Seq(S) /\ Len(after) = Len(s) - i
      /\ i \in Int /\ Len(s) \in Int
  <2>1. before \in Seq(S) /\ after \in Seq(S)
    BY <1>2
  <2>2. Len(before) = i - 1 /\ Len(after) = Len(s) - i
    BY <1>3
  <2>3. i \in Int /\ Len(s) \in Int
    BY <1>1, <1>4
  <2>. QED
    BY <2>1, <2>2, <2>3
<1>. HIDE DEF before, after
<1>6. before \o after \in Seq(S) /\ Len(before \o after) = Len(before) + Len(after)
  BY <1>5, ConcatProperties
<1>. QED
  BY <1>4, <1>5, <1>6

\* Putting another element in the place of one keeps the slice and its length.
LEMMA ReplaceType ==
    ASSUME NEW S, NEW s \in Seq(S), NEW i \in 1..Len(s), NEW e \in S
    PROVE  [s EXCEPT ![i] = e] \in Seq(S) /\ Len([s EXCEPT ![i] = e]) = Len(s)
BY ExceptSeq

\* The rules of one catalog are rules of the pool.
LEMMA PoolRules ==
    ASSUME NEW catalog \in Catalogs, NEW rs \in Seq(catalog.rules)
    PROVE  rs \in Seq(RulePool)
<1>1. catalog.rules \subseteq RulePool
  BY DEF RulePool
<1>2. \A i \in 1..Len(rs) : rs[i] \in RulePool
  BY <1>1, ElementOfSeq
<1>. QED
  BY <1>2, LenProperties, SeqDef

\* Rules, grants and the clock stay in their ranges.
THEOREM TypeCorrect == Spec => []TypeOK
<1>1. Init => TypeOK
  <2>. SUFFICES ASSUME Init PROVE TypeOK
    OBVIOUS
  <2>1. PICK catalog \in Catalogs : catalog.most \in Nat
    BY RulesAssumption
  <2>2. rules \in Seq(catalog.rules) /\ Len(rules) <= catalog.most
    BY <2>1, EmptySeq DEF Init
  <2>. QED
    BY <2>2, BoundsAssumption, EmptySeq DEF Init, TypeOK
<1>2. TypeOK /\ [Next]_vars => TypeOK'
  <2>. SUFFICES ASSUME TypeOK, [Next]_vars PROVE TypeOK'
    OBVIOUS
  <2>. USE BoundsAssumption DEF TypeOK
  <2>0. PICK catalog \in Catalogs : rules \in Seq(catalog.rules) /\ Len(rules) <= catalog.most
    OBVIOUS
  <2>. DEFINE Held(seq) == \E cat \in Catalogs : seq \in Seq(cat.rules) /\ Len(seq) <= cat.most
  <2>1. CASE \E r \in RulePool : AddRule(r)
    <3>1. PICK r \in RulePool : AddRule(r)
      BY <2>1
    <3>2. PICK cat \in Catalogs :
              r \in cat.rules /\ rules \in Seq(cat.rules) /\ Len(rules) < cat.most
      BY <3>1 DEF AddRule
    <3>3. PICK i \in 1..(Len(rules) + 1) : rules' = InsertAt(rules, i, r)
      BY <3>1 DEF AddRule
    <3>4. rules' \in Seq(cat.rules) /\ Len(rules') = Len(rules) + 1
      BY <3>2, <3>3, InsertType
    <3>5. Len(rules') <= cat.most
      BY <3>2, <3>4, LenProperties, RulesAssumption
    <3>6. Held(rules')
      BY <3>2, <3>4, <3>5
    <3>. QED
      BY <3>1, <3>6 DEF AddRule
  <2>2. CASE \E i \in DOMAIN rules : RemoveRule(i)
    <3>1. PICK i \in DOMAIN rules : RemoveRule(i)
      BY <2>2
    <3>2. rules' \in Seq(catalog.rules) /\ Len(rules') = Len(rules) - 1
      BY <2>0, <3>1, RemoveType DEF RemoveRule
    <3>3. Len(rules') <= catalog.most
      BY <2>0, <3>2, LenProperties, RulesAssumption
    <3>4. Held(rules')
      BY <3>2, <3>3
    <3>. QED
      BY <3>1, <3>4 DEF RemoveRule
  <2>3. CASE \E i \in DOMAIN rules : \E b \in BOOLEAN : SetEnabled(i, b)
    <3>1. PICK i \in DOMAIN rules, b \in BOOLEAN : SetEnabled(i, b)
      BY <2>3
    <3>2. i \in 1..Len(rules) /\ rules[i] \in catalog.rules
      BY <2>0, LenProperties, ElementOfSeq
    <3>. DEFINE flipped == [rules[i] EXCEPT !.enabled = b]
                pool == catalog.rules
    <3>3. flipped \in pool
      BY <3>2, RulesAssumption
    <3>4. rules' = [rules EXCEPT ![i] = flipped]
      BY <3>1 DEF SetEnabled
    <3>5. rules' \in Seq(catalog.rules) /\ Len(rules') = Len(rules)
      <4>1. rules \in Seq(pool) /\ i \in 1..Len(rules)
        BY <2>0, <3>2
      <4>. HIDE DEF flipped, pool
      <4>2. rules' \in Seq(pool) /\ Len(rules') = Len(rules)
        BY <3>3, <3>4, <4>1, ReplaceType
      <4>. QED
        BY <4>2 DEF pool
    <3>6. Held(rules')
      BY <2>0, <3>5
    <3>. QED
      BY <3>1, <3>6 DEF SetEnabled
  <2>4. CASE \E g \in GrantPool : AddGrant(g)
    BY <2>4 DEF AddGrant
  <2>5. CASE \E i \in DOMAIN grants : WithdrawGrant(i)
    <3>1. PICK i \in DOMAIN grants : WithdrawGrant(i)
      BY <2>5
    <3>2. grants' \in Seq(GrantPool) /\ Len(grants') = Len(grants) - 1
      BY <3>1, RemoveType DEF WithdrawGrant
    <3>. QED
      BY <3>1, <3>2 DEF WithdrawGrant
  <2>6. CASE Tick
    BY <2>6 DEF Tick
  <2>7. CASE UNCHANGED vars
    BY <2>7 DEF vars
  <2>. QED
    BY <2>1, <2>2, <2>3, <2>4, <2>5, <2>6, <2>7 DEF Next
<1>. QED
  BY <1>1, <1>2, PTL DEF Spec

-----------------------------------------------------------------------------
\* One effect says "deny", and of two rules whose effects agree on that the
\* effects are the same.
LEMMA TwoEffects ==
    ASSUME NEW a \in Effects, NEW b \in Effects, (a = "deny") = (b = "deny")
    PROVE  a = b
BY DEF Effects

\* The rules of the slice that apply are those at the matching positions.
LEMMA RulesAndPositions ==
    ASSUME NEW q
    PROVE  /\ \A i \in Matched(rules, q) : rules[i] \in RulesFor(q)
           /\ \A r \in RulesFor(q) : \E i \in Matched(rules, q) : rules[i] = r
BY DEF RulesFor, Matched, Range

\* In every reachable state the decision is the deny-overrides one.
THEOREM DecisionIsDenyOverrides == Spec => []DenyOverrides
<1>1. TypeOK => DenyOverrides
  <2>. SUFFICES ASSUME TypeOK, NEW q \in Requests
       PROVE  LET deny == Denying(RulesFor(q))
                  side == IF deny # {} THEN deny ELSE RulesFor(q)
              IN IF side = {} THEN Decide(rules, q).decision = "no_match"
                 ELSE Decide(rules, q) = [decision |-> Lowest(side).effect, by |-> Lowest(side).id]
    BY DEF DenyOverrides
  <2>. DEFINE deny == Denying(RulesFor(q))
              side == IF deny # {} THEN deny ELSE RulesFor(q)
              d == Decider(rules, q)
  <2>1. rules \in Seq(RulePool) /\ Matched(rules, q) \subseteq DOMAIN rules
    BY PoolRules DEF TypeOK, Matched
  <2>2. CASE Matched(rules, q) = {}
    <3>1. RulesFor(q) = {}
      BY <2>2, RulesAndPositions
    <3>2. side = {} /\ Decide(rules, q).decision = "no_match"
      BY <2>2, <3>1 DEF Denying, Decide
    <3>. QED
      BY <3>2
  <2>3. CASE Matched(rules, q) # {}
    <3>1. /\ d \in Matched(rules, q)
          /\ \A j \in Matched(rules, q) :
                 /\ rules[j].effect = "deny" => rules[d].effect = "deny"
                 /\ rules[j].effect = rules[d].effect => rules[d].id <= rules[j].id
      BY <2>1, <2>3, DeciderFacts
    <3>2. Decide(rules, q) = [decision |-> rules[d].effect, by |-> rules[d].id]
      BY <2>3 DEF Decide
    <3>. HIDE DEF d
    <3>3. \A r \in RulesFor(q) : r.id \in Nat /\ r.effect \in Effects
      BY <2>1, RulesAndPositions, RuleAt
    <3>4. rules[d] \in RulesFor(q)
      BY <3>1, RulesAndPositions
    <3>5. \A r \in RulesFor(q) :
              /\ r.effect = "deny" => rules[d].effect = "deny"
              /\ r.effect = rules[d].effect => rules[d].id <= r.id
      BY <3>1, RulesAndPositions
    <3>6. rules[d] \in side /\ side \subseteq RulesFor(q)
      BY <3>4, <3>5 DEF Denying
    <3>7. \A r \in side : r.effect = rules[d].effect
      <4>1. \A r \in side : (r.effect = "deny") = (rules[d].effect = "deny")
        BY <3>5, <3>6 DEF Denying
      <4>. QED
        BY <3>3, <3>4, <3>6, <4>1, TwoEffects
    <3>. HIDE DEF side
    <3>8. \A r \in side : rules[d].id <= r.id
      BY <3>5, <3>6, <3>7
    <3>9. Lowest(side) \in side /\ \A r \in side : Lowest(side).id <= r.id
      BY <3>6, <3>8 DEF Lowest
    <3>10. Lowest(side).id = rules[d].id /\ Lowest(side).effect = rules[d].effect
      BY <3>3, <3>4, <3>6, <3>7, <3>8, <3>9
    <3>11. side # {} /\ Decide(rules, q) = [decision |-> Lowest(side).effect, by |-> Lowest(side).id]
      BY <3>2, <3>6, <3>10
    <3>. QED
      BY <3>11 DEF side
  <2>. QED
    BY <2>2, <2>3
<1>. QED
  BY <1>1, TypeCorrect, PTL

-----------------------------------------------------------------------------
\* A request is permitted when no applicable rule denies it and one permits
\* it or a live grant does.
LEMMA PermittedWhen ==
    ASSUME NEW rs \in Seq(RulePool), NEW gs, NEW q, NEW t
    PROVE  Permitted(rs, gs, q, t) <=>
               /\ \A i \in Matched(rs, q) : rs[i].effect # "deny"
               /\ \/ Matched(rs, q) # {}
                  \/ \E g \in Range(gs) : GrantMatches(g, q) /\ Live(g, t)
<1>. DEFINE d == Decider(rs, q)
<1>1. \A i \in Matched(rs, q) : rs[i].effect \in Effects
  BY RuleAt DEF Matched
<1>2. CASE Matched(rs, q) = {}
  BY <1>2 DEF Permitted, DecideAt
<1>3. CASE Matched(rs, q) # {}
  <2>1. d \in Matched(rs, q)
        /\ \A j \in Matched(rs, q) : rs[j].effect = "deny" => rs[d].effect = "deny"
    BY <1>3, DeciderFacts
  <2>2. Permitted(rs, gs, q, t) <=> rs[d].effect = "permit"
    BY <1>3 DEF Permitted, DecideAt, Decide
  <2>. HIDE DEF d
  <2>3. rs[d].effect = "permit" <=> \A i \in Matched(rs, q) : rs[i].effect # "deny"
    BY <1>1, <2>1 DEF Effects
  <2>. QED
    BY <1>3, <2>2, <2>3
<1>. QED
  BY <1>2, <1>3

\* An applicable deny decides, whatever grants there are.
THEOREM GrantsLiftNoDeny == Spec => []DenyBeatsGrant
<1>1. TypeOK => DenyBeatsGrant
  <2>. SUFFICES ASSUME TypeOK, NEW q \in Requests, Denying(RulesFor(q)) # {}
       PROVE  DecideAt(rules, grants, q, now).decision = "deny"
    BY DEF DenyBeatsGrant
  <2>. DEFINE d == Decider(rules, q)
  <2>1. PICK i \in Matched(rules, q) : rules[i].effect = "deny"
    BY RulesAndPositions DEF Denying
  <2>2. rules[d].effect = "deny"
    BY <2>1, PoolRules, DeciderFacts DEF TypeOK
  <2>. QED
    BY <2>1, <2>2 DEF DecideAt, Decide
<1>. QED
  BY <1>1, TypeCorrect, PTL

\* Nothing but a permit, a grant or the end of a deny widens access.
THEOREM AccessWidensOnlyByGrant == Spec => NothingElseWidens
<1>. DEFINE narrower == /\ InForce(rules', "permit") \subseteq InForce(rules, "permit")
                        /\ InForce(rules, "deny") \subseteq InForce(rules', "deny")
                        /\ Range(grants') \subseteq Range(grants)
            Step == narrower => \A q \in Requests :
                        Permitted(rules', grants', q, now') => Permitted(rules, grants, q, now)
<1>1. TypeOK /\ TypeOK' /\ [Next]_vars => [Step]_vars
  <2>. SUFFICES ASSUME TypeOK, TypeOK', Next, narrower, NEW q \in Requests,
                       Permitted(rules', grants', q, now')
                PROVE  Permitted(rules, grants, q, now)
    OBVIOUS
  <2>1. rules \in Seq(RulePool) /\ rules' \in Seq(RulePool)
    BY PoolRules DEF TypeOK
  <2>2. /\ \A i \in Matched(rules', q) : rules'[i].effect # "deny"
        /\ \/ Matched(rules', q) # {}
           \/ \E g \in Range(grants') : GrantMatches(g, q) /\ Live(g, now')
    BY <2>1, PermittedWhen
  <2>3. \A i \in Matched(rules, q) : rules[i].effect # "deny"
    <3>. SUFFICES ASSUME NEW i \in Matched(rules, q), rules[i].effect = "deny" PROVE FALSE
      OBVIOUS
    <3>1. rules[i] \in InForce(rules, "deny") /\ Applies(rules[i], q)
      BY DEF Matched, InForce, Applies, Range
    <3>2. PICK j \in DOMAIN rules' : rules'[j] = rules[i]
      BY <3>1 DEF InForce, Range
    <3>3. j \in Matched(rules', q) /\ rules'[j].effect = "deny"
      BY <3>1, <3>2 DEF Matched
    <3>. QED
      BY <2>2, <3>3
  <2>4. CASE Matched(rules', q) # {}
    <3>1. PICK i \in Matched(rules', q) : rules'[i].effect = "permit"
      BY <2>1, <2>2, <2>4, RuleAt DEF Matched, Effects
    <3>2. rules'[i] \in InForce(rules, "permit") /\ Applies(rules'[i], q)
      BY <3>1 DEF Matched, InForce, Applies, Range
    <3>3. PICK j \in DOMAIN rules : rules[j] = rules'[i]
      BY <3>2 DEF InForce, Range
    <3>4. j \in Matched(rules, q)
      BY <3>2, <3>3 DEF Matched
    <3>. QED
      BY <2>1, <2>3, <3>4, PermittedWhen
  <2>5. CASE Matched(rules', q) = {}
    <3>1. PICK g \in Range(grants') : GrantMatches(g, q) /\ Live(g, now')
      BY <2>2, <2>5
    <3>2. now \in Nat /\ now' \in Nat /\ now <= now'
      BY DEF TypeOK, Next, AddRule, RemoveRule, SetEnabled, AddGrant, WithdrawGrant, Tick
    <3>3. g \in Range(grants) /\ g.expire \in Nat
      BY LenProperties, ElementOfSeq, GrantsAssumption DEF TypeOK, Range
    <3>4. Live(g, now)
      BY <3>1, <3>2, <3>3 DEF Live
    <3>. QED
      BY <2>1, <2>3, <3>1, <3>3, <3>4, PermittedWhen
  <2>. QED
    BY <2>4, <2>5
<1>2. [][Step]_vars <=> NothingElseWidens
  BY PTL DEF NothingElseWidens
<1>. QED
  BY <1>1, <1>2, TypeCorrect, PTL DEF Spec

-----------------------------------------------------------------------------
\* The order of a match, and the places in it.

LEMMA ReverseFacts ==
    ASSUME NEW rs \in Seq(RulePool)
    PROVE  /\ Reverse(rs) \in Seq(RulePool) /\ Len(Reverse(rs)) = Len(rs)
           /\ \A i \in 1..Len(rs) : Reverse(rs)[i] = rs[Len(rs) - i + 1]
<1>1. Len(rs) \in Nat
  BY LenProperties
<1>2. \A i \in 1..Len(rs) : Len(rs) - i + 1 \in 1..Len(rs)
  BY <1>1
<1>3. \A i \in 1..Len(rs) : rs[Len(rs) - i + 1] \in RulePool
  BY <1>2, ElementOfSeq
<1>4. Reverse(rs) = [i \in 1..Len(rs) |-> rs[Len(rs) - i + 1]]
  BY DEF Reverse
<1>5. Reverse(rs) \in Seq(RulePool) /\ Len(Reverse(rs)) = Len(rs)
  BY <1>1, <1>3, <1>4, SeqDef
<1>. QED
  BY <1>4, <1>5

\* The matching positions of the slice, mirrored, are those of its reverse.
Mirrors(rs, M, sr, N, n) ==
    /\ rs \in Seq(RulePool) /\ sr \in Seq(RulePool) /\ n \in Nat /\ Len(rs) = n /\ Len(sr) = n
    /\ M \subseteq 1..n /\ N \subseteq 1..n
    /\ \A i \in 1..n : sr[i] = rs[n - i + 1] /\ (i \in N <=> n - i + 1 \in M)

LEMMA MatchedMirrors ==
    ASSUME NEW rs \in Seq(RulePool), NEW q
    PROVE  /\ Mirrors(rs, Matched(rs, q), Reverse(rs), Matched(Reverse(rs), q), Len(rs))
           /\ Mirrors(Reverse(rs), Matched(Reverse(rs), q), rs, Matched(rs, q), Len(rs))
<1>. DEFINE n == Len(rs)
            sr == Reverse(rs)
<1>1. /\ n \in Nat /\ sr \in Seq(RulePool) /\ Len(sr) = n
      /\ \A i \in 1..n : sr[i] = rs[n - i + 1]
  BY ReverseFacts, LenProperties
<1>2. DOMAIN rs = 1..n /\ DOMAIN sr = 1..n
  BY <1>1, LenProperties
<1>. HIDE DEF sr, n
<1>3. \A i \in 1..n : n - i + 1 \in 1..n /\ n - (n - i + 1) + 1 = i
  BY <1>1
<1>4. \A i \in 1..n : rs[i] = sr[n - i + 1]
  BY <1>1, <1>3
<1>5. Matched(rs, q) \subseteq 1..n /\ Matched(sr, q) \subseteq 1..n
  BY <1>2 DEF Matched
<1>6. \A i \in 1..n : i \in Matched(sr, q) <=> n - i + 1 \in Matched(rs, q)
  BY <1>1, <1>2, <1>3 DEF Matched
<1>7. \A i \in 1..n : i \in Matched(rs, q) <=> n - i + 1 \in Matched(sr, q)
  BY <1>3, <1>6
<1>8. Len(rs) = n
  BY DEF n
<1>9. Mirrors(rs, Matched(rs, q), sr, Matched(sr, q), n)
  BY <1>1, <1>5, <1>6, <1>8 DEF Mirrors
<1>10. Mirrors(sr, Matched(sr, q), rs, Matched(rs, q), n)
  BY <1>1, <1>4, <1>5, <1>7, <1>8 DEF Mirrors
<1>. QED
  BY <1>9, <1>10 DEF sr, n

Mirror(L, n) == {n - i + 1 : i \in L}

\* Positions are finitely many, and a set of them and its mirror are as many.
LEMMA MirrorsCount ==
    ASSUME NEW rs, NEW M, NEW sr, NEW N, NEW n, Mirrors(rs, M, sr, N, n),
           NEW L \in SUBSET M
    PROVE  /\ IsFiniteSet(L) /\ IsFiniteSet(Mirror(L, n))
           /\ Cardinality(Mirror(L, n)) = Cardinality(L)
           /\ Mirror(L, n) \subseteq N
<1>. DEFINE K == {n - i + 1 : i \in L}
            f == [i \in L |-> n - i + 1]
<1>1. n \in Nat /\ L \subseteq 1..n
  BY DEF Mirrors
<1>2. IsFiniteSet(L)
  <2>1. IsFiniteSet(1..n)
    BY <1>1, FS_Interval
  <2>. QED
    BY <1>1, <2>1, FS_Subset
<1>3. f \in Bijection(L, K)
  <2>1. f \in [L -> K] /\ \A t \in K : \E s \in L : f[s] = t
    OBVIOUS
  <2>2. \A a, b \in L : f[a] = f[b] => a = b
    BY <1>1
  <2>. QED
    BY <2>1, <2>2, Fun_IsBij
<1>4. IsFiniteSet(K) /\ Cardinality(K) = Cardinality(L)
  BY <1>2, <1>3, FS_Bijection DEF ExistsBijection
<1>5. \A i \in L : n - i + 1 \in 1..n /\ n - (n - i + 1) + 1 = i
  BY <1>1
<1>6. K \subseteq N
  BY <1>5 DEF Mirrors
<1>. QED
  BY <1>2, <1>4, <1>6 DEF Mirror

\* A rule does not rank before one that has its place in the reverse.
LEMMA SamePlace ==
    ASSUME NEW rs, NEW M, NEW sr, NEW N, NEW n, Mirrors(rs, M, sr, N, n),
           NEW i \in M, NEW j \in N, Place(rs, M, i) = Place(sr, N, j)
    PROVE  ~Precedence(rs[i], sr[j])
<1>. SUFFICES ASSUME Precedence(rs[i], sr[j]) PROVE FALSE
  OBVIOUS
<1>0. /\ n \in Nat /\ M \subseteq 1..n /\ N \subseteq 1..n
      /\ \A k \in M : rs[k].id \in Nat /\ k \in Nat
      /\ \A k \in N : sr[k].id \in Nat /\ k \in Nat
  BY RuleAt, LenProperties DEF Mirrors
<1>. DEFINE L == {k \in M : ~Precedence(rs[i], rs[k])}
            K == Mirror(L, n)
            ahead == {k \in M : Before(rs, k, i)}
            before == {k \in N : Before(sr, k, j)}
<1>1. IsFiniteSet(L) /\ IsFiniteSet(K) /\ Cardinality(K) = Cardinality(L) /\ K \subseteq N
  <2>1. L \in SUBSET M
    OBVIOUS
  <2>. HIDE DEF L
  <2>. QED
    BY <2>1, MirrorsCount
<1>2. ahead \cup {i} \subseteq L /\ i \notin ahead
  <2>1. i \in L /\ i \notin ahead
    BY <1>0 DEF Before, Precedence
  <2>2. ASSUME NEW k \in M, Before(rs, k, i) PROVE ~Precedence(rs[i], rs[k])
    <3>1. rs[k].id \in Nat /\ rs[i].id \in Nat
      BY <1>0
    <3>. QED
      BY <2>2, <3>1 DEF Before, Precedence
  <2>. QED
    BY <2>1, <2>2
<1>3. IsFiniteSet(ahead) /\ Cardinality(ahead \cup {i}) = Cardinality(ahead) + 1
  <2>1. IsFiniteSet(ahead)
    BY <1>1, <1>2, FS_Subset
  <2>. QED
    BY <1>2, <2>1, FS_AddElement
<1>4. Cardinality(ahead) + 1 <= Cardinality(L)
  BY <1>1, <1>2, <1>3, FS_Subset
<1>5. \A k \in K : sr[k] \in {rs[m] : m \in L}
  <2>. TAKE k \in K
  <2>1. PICK m \in L : k = n - m + 1
    BY DEF Mirror
  <2>2. k \in 1..n /\ n - k + 1 = m
    BY <1>0, <2>1
  <2>. QED
    BY <2>1, <2>2 DEF Mirrors
<1>6. K \subseteq before
  <2>. SUFFICES ASSUME NEW k \in K PROVE Before(sr, k, j)
    BY <1>1
  <2>1. PICK m \in L : sr[k] = rs[m]
    BY <1>5
  <2>. QED
    BY <1>0, <1>1, <2>1 DEF Before, Precedence
<1>7. IsFiniteSet(before)
  <2>1. before \in SUBSET (1..n)
    BY <1>0
  <2>2. IsFiniteSet(1..n)
    BY <1>0, FS_Interval
  <2>. HIDE DEF before
  <2>. QED
    BY <2>1, <2>2, FS_Subset
<1>8. Cardinality(K) <= Cardinality(before)
  BY <1>6, <1>7, FS_Subset
<1>9. Cardinality(ahead) = Cardinality(before)
  BY DEF Place
<1>. QED
  BY <1>1, <1>3, <1>4, <1>7, <1>8, <1>9, FS_CardinalityType

\* Every place of a match is some rule's.
LEMMA PlacesTaken ==
    ASSUME NEW rs \in Seq(RulePool), NEW M \in SUBSET DOMAIN rs
    PROVE  /\ IsFiniteSet(M)
           /\ \A p \in 0..(Cardinality(M) - 1) : \E i \in M : Place(rs, M, i) = p
<1>0. /\ \A k \in M : rs[k].id \in Nat /\ k \in Nat
      /\ \A k \in M : rs[k].effect \in Effects
  BY RuleAt
<1>1. IsFiniteSet(M)
  BY LenProperties, FS_Interval, FS_Subset
<1>. DEFINE c == Cardinality(M)
            ahead(i) == {k \in M : Before(rs, k, i)}
            f == [i \in M |-> Place(rs, M, i)]
<1>2. c \in Nat
  BY <1>1, FS_CardinalityType
<1>3. \A i \in M : IsFiniteSet(ahead(i)) /\ Cardinality(ahead(i)) \in Nat
  BY <1>1, FS_Subset, FS_CardinalityType
<1>. DEFINE size(i) == Cardinality(ahead(i))
<1>4. \A i \in M : Place(rs, M, i) = size(i) /\ size(i) \in Nat
  BY <1>3 DEF Place
<1>5. ASSUME NEW i \in M, NEW k \in M, Before(rs, i, k)
      PROVE  Place(rs, M, i) < Place(rs, M, k)
  <2>1. ahead(i) \cup {i} \subseteq ahead(k) /\ i \notin ahead(i)
    <3>1. i \notin ahead(i) /\ i \in ahead(k)
      BY <1>0, <1>5 DEF Before, Precedence
    <3>2. ASSUME NEW m \in M, Before(rs, m, i) PROVE Before(rs, m, k)
      BY <1>0, <1>5, <3>2 DEF Before, Precedence
    <3>. QED
      BY <3>1, <3>2
  <2>2. Cardinality(ahead(i) \cup {i}) = Cardinality(ahead(i)) + 1
    BY <1>3, <2>1, FS_AddElement
  <2>3. Cardinality(ahead(i) \cup {i}) <= Cardinality(ahead(k))
    BY <1>3, <2>1, FS_Subset
  <2>4. size(i) + 1 <= size(k)
    BY <2>2, <2>3
  <2>. HIDE DEF size
  <2>. QED
    BY <1>4, <2>4
<1>6. \A i, k \in M : i # k => Before(rs, i, k) \/ Before(rs, k, i)
  BY <1>0 DEF Before, Precedence
<1>7. ASSUME NEW i \in M PROVE Place(rs, M, i) \in 0..(c - 1)
  <2>1. ahead(i) \subseteq M \ {i}
    BY <1>0 DEF Before, Precedence
  <2>2. IsFiniteSet(M \ {i}) /\ Cardinality(M \ {i}) = c - 1
    BY <1>1, FS_RemoveElement
  <2>3. Cardinality(ahead(i)) <= c - 1
    BY <2>1, <2>2, FS_Subset
  <2>4. size(i) <= c - 1
    BY <2>3
  <2>. HIDE DEF size, c
  <2>. QED
    BY <1>2, <1>4, <2>4
<1>8. f \in Injection(M, 0..(c - 1))
  <2>1. f \in [M -> 0..(c - 1)]
    BY <1>7
  <2>2. \A i, k \in M : f[i] = f[k] => i = k
    <3>. SUFFICES ASSUME NEW i \in M, NEW k \in M, f[i] = f[k], i # k PROVE FALSE
      OBVIOUS
    <3>1. Place(rs, M, i) = Place(rs, M, k) /\ Place(rs, M, i) \in Int
      BY <1>7
    <3>. QED
      BY <1>5, <1>6, <3>1
  <2>. QED
    BY <2>1, <2>2, Fun_IsInj
<1>9. IsFiniteSet(0..(c - 1)) /\ Cardinality(0..(c - 1)) = c
  <2>. HIDE DEF c
  <2>1. 0 \in Int /\ c - 1 \in Int
    BY <1>2
  <2>2. /\ IsFiniteSet(0..(c - 1))
        /\ Cardinality(0..(c - 1)) = IF 0 > c - 1 THEN 0 ELSE (c - 1) - 0 + 1
    BY <2>1, FS_Interval
  <2>. QED
    BY <1>2, <2>2
<1>10. f \in Surjection(M, 0..(c - 1))
  BY <1>8, <1>9, FS_Injection
<1>11. \A p \in 0..(c - 1) : \E i \in M : f[i] = p
  BY <1>10 DEF Surjection
<1>. QED
  BY <1>1, <1>11

\* The rules of one place, of a match and of its mirror, have one identifier.
LEMMA SameIdentifier ==
    ASSUME NEW rs, NEW M, NEW sr, NEW N, NEW n, Mirrors(rs, M, sr, N, n), Mirrors(sr, N, rs, M, n),
           NEW i \in M, NEW j \in N, Place(rs, M, i) = Place(sr, N, j)
    PROVE  rs[i].id = sr[j].id
<1>1. ~Precedence(rs[i], sr[j]) /\ ~Precedence(sr[j], rs[i])
  BY SamePlace
<1>2. rs[i].id \in Nat /\ sr[j].id \in Nat
  BY RuleAt, LenProperties DEF Mirrors
<1>. QED
  BY <1>1, <1>2 DEF Precedence

\* However the rules are ordered when they arrive, the answer is the same, the
\* rule that decides and the rules it outranks are named alike (decide.go 97).
THEOREM OrderCountsForNothing == Spec => []OrderIrrelevant
<1>1. TypeOK => OrderIrrelevant
  <2>. SUFFICES ASSUME TypeOK, NEW q \in Requests, Matched(rules, q) # {}
                PROVE  /\ Decide(rules, q) = Decide(Reverse(rules), q)
                       /\ Outranked(rules, q) = Outranked(Reverse(rules), q)
    BY DEF OrderIrrelevant
  <2>. DEFINE rs == rules
              sr == Reverse(rules)
              M == Matched(rs, q)
              N == Matched(sr, q)
              n == Len(rs)
  <2>1. rs \in Seq(RulePool)
    BY PoolRules DEF TypeOK
  <2>2. Mirrors(rs, M, sr, N, n) /\ Mirrors(sr, N, rs, M, n)
    BY <2>1, MatchedMirrors
  <2>3. sr \in Seq(RulePool) /\ M \in SUBSET DOMAIN rs /\ N \in SUBSET DOMAIN sr
    BY <2>2 DEF Mirrors, Matched
  <2>4. IsFiniteSet(M) /\ IsFiniteSet(N) /\ Cardinality(M) = Cardinality(N)
    <3>. HIDE DEF M, N, n, sr
    <3>1. Cardinality(Mirror(M, n)) = Cardinality(M) /\ Mirror(M, n) \subseteq N
      BY <2>2, MirrorsCount
    <3>2. Cardinality(Mirror(N, n)) = Cardinality(N) /\ Mirror(N, n) \subseteq M
      BY <2>2, MirrorsCount
    <3>3. IsFiniteSet(M) /\ IsFiniteSet(N)
      BY <2>1, <2>3, PlacesTaken
    <3>4. Cardinality(M) <= Cardinality(N) /\ Cardinality(N) <= Cardinality(M)
      BY <3>1, <3>2, <3>3, FS_Subset
    <3>. QED
      BY <3>3, <3>4, FS_CardinalityType
  <2>5. Decide(rules, q) = Decide(Reverse(rules), q)
    <3>1. N # {}
      BY <2>2 DEF Mirrors
    <3>. DEFINE d == Decider(rs, q)
                e == Decider(sr, q)
    <3>2. /\ d \in M
          /\ \A j \in M : /\ rs[j].effect = "deny" => rs[d].effect = "deny"
                          /\ rs[j].effect = rs[d].effect => rs[d].id <= rs[j].id
      BY <2>1, DeciderFacts
    <3>3. /\ e \in N
          /\ \A j \in N : /\ sr[j].effect = "deny" => sr[e].effect = "deny"
                          /\ sr[j].effect = sr[e].effect => sr[e].id <= sr[j].id
      BY <2>3, <3>1, DeciderFacts
    <3>4. /\ Decide(rs, q) = [decision |-> rs[d].effect, by |-> rs[d].id]
          /\ Decide(sr, q) = [decision |-> sr[e].effect, by |-> sr[e].id]
      BY <3>1 DEF Decide
    <3>. HIDE DEF d, e
    <3>5. (\E j \in N : sr[j] = rs[d]) /\ (\E j \in M : rs[j] = sr[e])
      BY <2>2, <3>2, <3>3 DEF Mirrors
    <3>6. /\ rs[d].effect \in Effects /\ sr[e].effect \in Effects
          /\ rs[d].id \in Nat /\ sr[e].id \in Nat
      BY <2>1, <2>3, <3>2, <3>3, RuleAt
    <3>7. rs[d].effect = sr[e].effect
      BY <3>2, <3>3, <3>5, <3>6 DEF Effects
    <3>8. rs[d].id = sr[e].id
      BY <3>2, <3>3, <3>5, <3>6, <3>7
    <3>. QED
      BY <3>4, <3>7, <3>8
  <2>6. Outranked(rules, q) = Outranked(Reverse(rules), q)
    <3>. DEFINE c == Cardinality(M)
                At(x, P, p) == CHOOSE i \in P : Place(x, P, i) = p
    <3>1. c \in Nat
      BY <2>4, FS_CardinalityType
    <3>2. ASSUME NEW p \in 1..(c - 1) PROVE rs[At(rs, M, p)].id = sr[At(sr, N, p)].id
      <4>1. p \in 0..(c - 1)
        BY <3>1
      <4>2. At(rs, M, p) \in M /\ Place(rs, M, At(rs, M, p)) = p
        BY <2>1, <2>3, <4>1, PlacesTaken
      <4>3. At(sr, N, p) \in N /\ Place(sr, N, At(sr, N, p)) = p
        BY <2>3, <2>4, <4>1, PlacesTaken
      <4>. QED
        BY <2>2, <4>2, <4>3, SameIdentifier
    <3>3. /\ Outranked(rs, q) = [p \in 1..(c - 1) |-> rs[At(rs, M, p)].id]
          /\ Outranked(sr, q) = [p \in 1..(c - 1) |-> sr[At(sr, N, p)].id]
      BY <2>4 DEF Outranked
    <3>4. [p \in 1..(c - 1) |-> rs[At(rs, M, p)].id] = [p \in 1..(c - 1) |-> sr[At(sr, N, p)].id]
      BY <3>2
    <3>. QED
      BY <3>3, <3>4
  <2>. QED
    BY <2>5, <2>6
<1>. QED
  BY <1>1, TypeCorrect, PTL

-----------------------------------------------------------------------------
(* Path globs.  globMatch is a recursion over the segments of a glob; what  *)
(* it says is that of a function which says of every place of the glob what *)
(* it says of the later ones.                                               *)

\* The places from which the pattern matches from its place i on, if f says so
\* of its later places.
Starts(p, s, f, i) ==
    IF i > Len(p) THEN {Len(s) + 1}
    ELSE IF p[i] = "**" THEN {j \in 1..(Len(s) + 1) : \E k \in f[i + 1] : j <= k}
    ELSE {j \in 1..Len(s) : SegmentMatch(p[i], s[j]) /\ j + 1 \in f[i + 1]}

\* The recursion of globMatch ends: some function says of every place what it
\* says of the later ones.
LEMMA StartsExist ==
    ASSUME NEW p, Len(p) \in Nat, NEW s
    PROVE  \E f : f = [i \in 1..(Len(p) + 1) |-> Starts(p, s, f, i)]
<1>. DEFINE last == Len(p) + 1
            Says(f, k) == f = [i \in (last - k)..last |-> Starts(p, s, f, i)]
            unsaid == {k \in 0..Len(p) : ~ \E f : Says(f, k)}
<1>1. SUFFICES unsaid = {}
  <2>1. Len(p) \in 0..Len(p) /\ last - Len(p) = 1
    OBVIOUS
  <2>2. \E f : Says(f, Len(p))
    BY <1>1, <2>1
  <2>. QED
    BY <2>1, <2>2
<1>2. SUFFICES ASSUME unsaid # {} PROVE FALSE
  OBVIOUS
<1>3. PICK k \in unsaid : \A m \in unsaid : k <= m
  <2>1. unsaid \subseteq Nat
    OBVIOUS
  <2>. HIDE DEF unsaid
  <2>. QED
    BY <1>2, <2>1, LeastNat
<1>4. CASE k = 0
  <2>. DEFINE f == [i \in last..last |-> {Len(s) + 1}]
  <2>1. \A i \in last..last : Starts(p, s, f, i) = {Len(s) + 1}
    BY DEF Starts
  <2>2. [i \in last..last |-> Starts(p, s, f, i)] = f
    BY <2>1
  <2>3. (last - 0)..last = last..last
    OBVIOUS
  <2>. HIDE DEF f, last
  <2>4. Says(f, 0)
    BY <2>2, <2>3
  <2>. QED
    BY <1>3, <1>4, <2>4
<1>5. CASE k # 0
  <2>1. k - 1 \in 0..Len(p) /\ k - 1 \notin unsaid
    <3>1. k \in 0..Len(p)
      OBVIOUS
    <3>. HIDE DEF unsaid
    <3>2. ~(k <= k - 1)
      BY <3>1
    <3>. QED
      BY <1>3, <1>5, <3>1, <3>2
  <2>2. PICK g : Says(g, k - 1)
    BY <2>1
  <2>. DEFINE first == last - k
              h == [i \in first..last |-> Starts(p, s, g, i)]
  <2>3. \A i \in (first + 1)..last : g[i] = Starts(p, s, g, i)
    <3>1. last - (k - 1) = first + 1
      BY <1>3
    <3>. HIDE DEF first
    <3>. QED
      BY <2>2, <3>1
  <2>4. first \in Int /\ k \in 0..Len(p)
    BY <1>3
  <2>5. \A i \in first..last : Starts(p, s, h, i) = Starts(p, s, g, i)
    <3>1. ASSUME NEW i \in first..last, i <= Len(p) PROVE h[i + 1] = g[i + 1]
      <4>1. i + 1 \in first..last /\ i + 1 \in (first + 1)..last
        BY <2>4, <3>1
      <4>. QED
        BY <2>3, <4>1
    <3>2. \A i \in first..last : i \in Int
      BY <2>4
    <3>. HIDE DEF h, first
    <3>. SUFFICES ASSUME NEW i \in first..last PROVE Starts(p, s, h, i) = Starts(p, s, g, i)
      OBVIOUS
    <3>3. CASE i > Len(p)
      BY <3>3 DEF Starts
    <3>4. CASE ~(i > Len(p))
      <4>1. h[i + 1] = g[i + 1]
        BY <3>1, <3>2, <3>4
      <4>. QED
        BY <4>1, Zenon DEF Starts
    <3>. QED
      BY <3>3, <3>4
  <2>6. [i \in first..last |-> Starts(p, s, h, i)] = h
    BY <2>5
  <2>7. Says(h, k)
    BY <2>6
  <2>. QED
    BY <1>3, <2>7
<1>. QED
  BY <1>4, <1>5

\* A glob matches as globMatch says of its places.
LEMMA GlobStarts ==
    ASSUME NEW p, Len(p) \in Nat, NEW s
    PROVE  \E f : (GlobMatch(p, s) <=> 1 \in f[1]) /\ \A i \in 1..(Len(p) + 1) : f[i] = Starts(p, s, f, i)
<1>. DEFINE Row(f, i) == IF i > Len(p) THEN {Len(s) + 1}
            ELSE IF p[i] = "**" THEN {j \in 1..(Len(s) + 1) : \E k \in f[i + 1] : j <= k}
            ELSE {j \in 1..Len(s) : SegmentMatch(p[i], s[j]) /\ j + 1 \in f[i + 1]}
            Says(f) == f = [i \in 1..(Len(p) + 1) |-> Row(f, i)]
            starts == CHOOSE f : Says(f)
<1>1. GlobMatch(p, s) <=> 1 \in starts[1]
  BY DEF GlobMatch
<1>2. \E f : Says(f)
  <2>1. PICK f : f = [i \in 1..(Len(p) + 1) |-> Starts(p, s, f, i)]
    BY StartsExist
  <2>2. \A i : Starts(p, s, f, i) = Row(f, i)
    BY DEF Starts
  <2>3. Says(f)
    BY <2>1, <2>2
  <2>. QED
    BY <2>3
<1>3. Says(starts)
  BY <1>2, Zenon
<1>. HIDE DEF starts
<1>4. \A i \in 1..(Len(p) + 1) : starts[i] = Row(starts, i)
  BY <1>3
<1>5. \A i : Row(starts, i) = Starts(p, s, starts, i)
  BY DEF Starts
<1>. QED
  BY <1>1, <1>4, <1>5

\* A function that says from which places of s the places of p match.
Tells(p, s, f) == 1 \in f[1] /\ \A i \in 1..(Len(p) + 1) : f[i] = Starts(p, s, f, i)

\* Every glob matches the path that is spelt as it is.
LEMMA GlobReflexive ==
    ASSUME NEW p, Len(p) \in Nat
    PROVE  GlobMatch(p, p)
<1>1. PICK f : /\ GlobMatch(p, p) <=> 1 \in f[1]
               /\ \A i \in 1..(Len(p) + 1) : f[i] = Starts(p, p, f, i)
  BY GlobStarts
<1>. DEFINE last == Len(p) + 1
            missed == {k \in 0..Len(p) : last - k \notin f[last - k]}
<1>2. missed = {}
  <2>. SUFFICES ASSUME missed # {} PROVE FALSE
    OBVIOUS
  <2>1. PICK k \in missed : \A m \in missed : k <= m
    <3>1. missed \subseteq Nat
      OBVIOUS
    <3>. HIDE DEF missed
    <3>. QED
      BY <3>1, LeastNat
  <2>. DEFINE n == last - k
  <2>2. k \in 0..Len(p) /\ n \in 1..last /\ n \notin f[n] /\ f[n] = Starts(p, p, f, n)
    BY <1>1, <2>1
  <2>3. k # 0
    BY <2>2 DEF Starts
  <2>4. k - 1 \in 0..Len(p) /\ k - 1 \notin missed
    <3>. HIDE DEF missed
    <3>1. ~(k <= k - 1) /\ k - 1 \in 0..Len(p)
      BY <2>2, <2>3
    <3>. QED
      BY <2>1, <3>1
  <2>5. n + 1 \in f[n + 1]
    <3>1. last - (k - 1) = n + 1
      BY <2>2
    <3>. QED
      BY <2>4, <3>1
  <2>6. n \in 1..Len(p) /\ ~(n > Len(p)) /\ n <= n + 1
    BY <2>2, <2>3
  <2>. HIDE DEF n, last
  <2>. QED
    BY <2>2, <2>5, <2>6 DEF Starts, SegmentMatch
<1>3. Len(p) \in 0..Len(p) /\ last - Len(p) = 1
  OBVIOUS
<1>. QED
  BY <1>1, <1>2, <1>3

\* Up to the first two stars, a glob matches segment by segment.
LEMMA SegmentBySegment ==
    ASSUME NEW p, Len(p) \in Nat, NEW s, Len(s) \in Nat, NEW f, Tells(p, s, f),
           NEW n \in 1..(Len(p) + 1), \A m \in 1..(n - 1) : p[m] # "**"
    PROVE  n \in f[n] /\ \A m \in 1..(n - 1) : m <= Len(s) /\ SegmentMatch(p[m], s[m])
<1>. DEFINE Fits(m) == m <= Len(s) /\ SegmentMatch(p[m], s[m])
            missed == {m \in 1..n : m \notin f[m]}
<1>1. ASSUME NEW m \in 1..(n - 1), m \in f[m] PROVE Fits(m) /\ m + 1 \in f[m + 1]
  <2>1. m \in 1..(Len(p) + 1) /\ ~(m > Len(p))
    OBVIOUS
  <2>2. f[m] = Starts(p, s, f, m)
    BY <2>1 DEF Tells
  <2>3. f[m] = {j \in 1..Len(s) : SegmentMatch(p[m], s[j]) /\ j + 1 \in f[m + 1]}
    BY <2>1, <2>2 DEF Starts
  <2>. QED
    BY <1>1, <2>3
<1>2. missed = {}
  <2>. SUFFICES ASSUME missed # {} PROVE FALSE
    OBVIOUS
  <2>1. PICK m \in missed : \A k \in missed : m <= k
    <3>1. missed \subseteq Nat
      OBVIOUS
    <3>. HIDE DEF missed
    <3>. QED
      BY <3>1, LeastNat
  <2>2. m # 1
    BY DEF Tells
  <2>3. m - 1 \in 1..(n - 1) /\ m - 1 \notin missed
    BY <2>1, <2>2
  <2>4. m - 1 \in f[m - 1]
    BY <2>3
  <2>5. (m - 1) + 1 \in f[(m - 1) + 1]
    BY <1>1, <2>3, <2>4
  <2>. QED
    BY <2>5
<1>. QED
  BY <1>1, <1>2

\* Where nothing is left to match, two stars are all that a glob may go on with.
LEMMA OnlyStarsAreLeft ==
    ASSUME NEW p, Len(p) \in Nat, NEW s, Len(s) \in Nat, NEW f, Tells(p, s, f),
           NEW n \in 1..(Len(p) + 1), Len(s) + 1 \in f[n]
    PROVE  \A i \in n..Len(p) : p[i] = "**"
<1>. DEFINE missed == {m \in n..(Len(p) + 1) : Len(s) + 1 \notin f[m]}
<1>1. ASSUME NEW m \in n..Len(p), Len(s) + 1 \in f[m]
      PROVE  p[m] = "**" /\ Len(s) + 1 \in f[m + 1]
  <2>1. /\ m \in 1..(Len(p) + 1) /\ ~(m > Len(p))
        /\ m + 1 \in 1..(Len(p) + 1)
    OBVIOUS
  <2>2. f[m] = Starts(p, s, f, m) /\ f[m + 1] = Starts(p, s, f, m + 1)
    BY <2>1 DEF Tells
  <2>3. p[m] = "**"
    <3>. SUFFICES ASSUME p[m] # "**" PROVE FALSE
      OBVIOUS
    <3>1. Len(s) + 1 \in 1..Len(s)
      BY <1>1, <2>1, <2>2 DEF Starts
    <3>. QED
      BY <3>1
  <2>4. PICK k \in f[m + 1] : Len(s) + 1 <= k
    BY <1>1, <2>1, <2>2, <2>3 DEF Starts
  <2>5. k \in 1..(Len(s) + 1)
    BY <2>2 DEF Starts
  <2>6. k = Len(s) + 1
    BY <2>4, <2>5
  <2>. QED
    BY <2>3, <2>6
<1>2. missed = {}
  <2>. SUFFICES ASSUME missed # {} PROVE FALSE
    OBVIOUS
  <2>1. PICK m \in missed : \A k \in missed : m <= k
    <3>1. missed \subseteq Nat
      OBVIOUS
    <3>. HIDE DEF missed
    <3>. QED
      BY <3>1, LeastNat
  <2>2. m # n
    OBVIOUS
  <2>3. m - 1 \in n..Len(p) /\ m - 1 \notin missed
    BY <2>1, <2>2
  <2>4. Len(s) + 1 \in f[m - 1]
    BY <2>3
  <2>5. Len(s) + 1 \in f[(m - 1) + 1]
    BY <1>1, <2>3, <2>4
  <2>. QED
    BY <2>5
<1>. QED
  BY <1>1, <1>2

-----------------------------------------------------------------------------
\* Two globs that match one path and do not go on with two stars within the
\* length of the shorter: if the other is longer, it goes on with nothing else.
LEMMA LongerGoesOn ==
    ASSUME NEW a, NEW b, NEW x, NEW f, NEW g, Tells(a, x, f), Tells(b, x, g),
           Len(a) \in Nat, Len(b) \in Nat, Len(x) \in Nat, Len(a) < Len(b),
           \A m \in 1..Len(a) : a[m] # "**" /\ b[m] # "**"
    PROVE  \A i \in (Len(a) + 1)..Len(b) : b[i] = "**"
<1>1. Len(a) + 1 \in 1..(Len(a) + 1) /\ Len(a) + 1 \in 1..(Len(b) + 1)
      /\ (Len(a) + 1) - 1 = Len(a)
  OBVIOUS
<1>2. Len(a) + 1 \in f[Len(a) + 1] /\ Len(a) + 1 \in g[Len(a) + 1]
  BY <1>1, SegmentBySegment
<1>3. f[Len(a) + 1] = {Len(x) + 1}
  <2>1. f[Len(a) + 1] = Starts(a, x, f, Len(a) + 1)
    BY <1>1 DEF Tells
  <2>2. Len(a) + 1 > Len(a)
    OBVIOUS
  <2>. QED
    BY <2>1, <2>2 DEF Starts
<1>4. Len(x) + 1 \in g[Len(a) + 1]
  BY <1>2, <1>3
<1>. QED
  BY <1>1, <1>4, OnlyStarsAreLeft

\* An overlap of globs that the test does not find is one of these.
LEMMA GlobOverlapFound ==
    ASSUME NEW a, NEW b, NEW x, Len(a) \in Nat, Len(b) \in Nat, Len(x) \in Nat,
           GlobMatch(a, x), GlobMatch(b, x), ~GlobsOverlap(a, b)
    PROVE  \/ Len(a) < Len(b) /\ \A i \in (Len(a) + 1)..Len(b) : b[i] = "**"
           \/ Len(b) < Len(a) /\ \A i \in (Len(b) + 1)..Len(a) : a[i] = "**"
<1>1. PICK f : Tells(a, x, f)
  BY GlobStarts DEF Tells
<1>2. PICK g : Tells(b, x, g)
  BY GlobStarts DEF Tells
<1>. DEFINE least == IF Len(a) < Len(b) THEN Len(a) ELSE Len(b)
            clash(n) == a[n] # b[n] /\ ~HoldsStar(a[n]) /\ ~HoldsStar(b[n])
            stars == {n \in 1..least : a[n] = "**" \/ b[n] = "**"}
<1>3. least \in Nat /\ least <= Len(a) /\ least <= Len(b)
  OBVIOUS
<1>4. /\ \A n \in 1..least : (a[n] = "**" \/ b[n] = "**") => \E m \in 1..(n - 1) : clash(m)
      /\ Len(a) = Len(b) => \E n \in 1..least : clash(n)
  BY DEF GlobsOverlap
<1>5. ASSUME NEW n \in 1..(least + 1), \A m \in 1..(n - 1) : a[m] # "**" /\ b[m] # "**"
      PROVE  \A m \in 1..(n - 1) : ~clash(m)
  <2>1. n \in 1..(Len(a) + 1) /\ n \in 1..(Len(b) + 1)
    BY <1>3
  <2>2. \A m \in 1..(n - 1) : SegmentMatch(a[m], x[m]) /\ SegmentMatch(b[m], x[m])
    BY <1>1, <1>2, <1>5, <2>1, SegmentBySegment
  <2>3. \A p, s : SegmentMatch(p, s) => p = s \/ HoldsStar(p)
    BY DEF SegmentMatch, HoldsStar
  <2>. QED
    BY <2>2, <2>3
<1>. HIDE DEF clash
<1>6. stars = {}
  <2>. SUFFICES ASSUME stars # {} PROVE FALSE
    OBVIOUS
  <2>1. PICK n \in stars : \A m \in stars : n <= m
    <3>1. stars \subseteq Nat
      OBVIOUS
    <3>. HIDE DEF stars
    <3>. QED
      BY <3>1, LeastNat
  <2>2. n \in 1..(least + 1) /\ n \in 1..least
    BY <1>3
  <2>3. \A m \in 1..(n - 1) : m \in 1..least /\ ~(n <= m)
    BY <1>3
  <2>4. \A m \in 1..(n - 1) : a[m] # "**" /\ b[m] # "**"
    BY <2>1, <2>3
  <2>. HIDE DEF least
  <2>. QED
    BY <1>4, <1>5, <2>2, <2>4
<1>7. \A m \in 1..least : a[m] # "**" /\ b[m] # "**"
  BY <1>6
<1>8. \A m \in 1..least : ~clash(m)
  <2>1. least + 1 \in 1..(least + 1) /\ (least + 1) - 1 = least
    BY <1>3
  <2>. HIDE DEF least
  <2>. QED
    BY <1>5, <1>7, <2>1
<1>9. Len(a) # Len(b)
  BY <1>4, <1>8
<1>10. CASE Len(a) < Len(b)
  <2>1. \A m \in 1..Len(a) : a[m] # "**" /\ b[m] # "**"
    BY <1>7, <1>10
  <2>. QED
    BY <1>1, <1>2, <1>10, <2>1, LongerGoesOn
<1>11. CASE Len(b) < Len(a)
  <2>1. \A m \in 1..Len(b) : a[m] # "**" /\ b[m] # "**"
    BY <1>7, <1>11
  <2>. QED
    BY <1>1, <1>2, <1>11, <2>1, LongerGoesOn
<1>. QED
  BY <1>9, <1>10, <1>11

-----------------------------------------------------------------------------
(* The overlap test, scheme by scheme.                                     *)

Pattern == [scheme : STRING, toks : Seq(STRING)]

LEMMA ShellPrefixes ==
    ASSUME NEW a \in Seq(STRING), NEW b \in Seq(STRING), NEW x \in Seq(STRING),
           Len(a) <= Len(b), Len(b) <= Len(x),
           \A i \in 1..Len(a) : x[i] = a[i], \A i \in 1..Len(b) : x[i] = b[i]
    PROVE  IsPrefix(a, b)
<1>1. Len(a) \in Nat /\ Len(b) \in Nat
  BY LenProperties
<1>2. \A i \in 1..Len(a) : a[i] = b[i] /\ a[i] \in STRING
  BY <1>1, ElementOfSeq
<1>3. /\ SubSeq(a, 1, Len(a)) \in Seq(STRING) /\ Len(SubSeq(a, 1, Len(a))) = Len(a)
      /\ \A i \in 1..Len(a) : SubSeq(a, 1, Len(a))[i] = a[i]
  BY <1>1, <1>2, SubSeqProperties
<1>4. /\ SubSeq(b, 1, Len(a)) \in Seq(STRING) /\ Len(SubSeq(b, 1, Len(a))) = Len(a)
      /\ \A i \in 1..Len(a) : SubSeq(b, 1, Len(a))[i] = b[i]
  BY <1>1, <1>2, SubSeqProperties
<1>5. SubSeq(a, 1, Len(a)) = SubSeq(b, 1, Len(a))
  BY <1>2, <1>3, <1>4, SeqEqual
<1>. QED
  BY <1>5 DEF IsPrefix

\* A shell pattern that opens no directory covers what it leads.
LEMMA ShellLeads ==
    ASSUME NEW p \in Pattern, NEW x \in Pattern, p.scheme = "shell", p.toks # <<"*">>,
           p.toks = << >> \/ p.toks[Len(p.toks)] \notin SlashTokens, Covers(p, x)
    PROVE  Len(p.toks) <= Len(x.toks) /\ \A i \in 1..Len(p.toks) : x.toks[i] = p.toks[i]
<1>1. CASE p = x
  <2>1. Len(x.toks) \in Nat
    BY LenProperties DEF Pattern
  <2>. QED
    BY <1>1, <2>1
<1>2. CASE p # x /\ ~TargetMatches(p, x)
  <2>1. p.toks # << >> /\ IsPrefix(p.toks, x.toks)
    BY <1>2 DEF Covers, HarnessCovers, IsWildcard
  <2>2. /\ Len(p.toks) \in Nat /\ Len(x.toks) \in Nat /\ Len(p.toks) <= Len(x.toks)
        /\ SubSeq(p.toks, 1, Len(p.toks)) = SubSeq(x.toks, 1, Len(p.toks))
    BY <2>1, LenProperties DEF Pattern, IsPrefix
  <2>3. /\ \A i \in 1..Len(p.toks) : SubSeq(p.toks, 1, Len(p.toks))[i] = p.toks[i]
        /\ \A i \in 1..Len(p.toks) : SubSeq(x.toks, 1, Len(p.toks))[i] = x.toks[i]
    BY <2>2 DEF Pattern
  <2>. QED
    BY <2>2, <2>3
<1>3. CASE p # x /\ TargetMatches(p, x)
  <2>1. ShellMatches(p.toks, x.toks)
    BY <1>3 DEF TargetMatches
  <2>2. Len(p.toks) \in 1..Len(x.toks) /\ Len(x.toks) \in Nat
    BY <2>1, LenProperties DEF ShellMatches, Pattern
  <2>3. p.toks # << >>
    BY <2>2
  <2>4. ASSUME NEW i \in 1..Len(p.toks) PROVE x.toks[i] = p.toks[i]
    BY <2>1, <2>3 DEF ShellMatches
  <2>. QED
    BY <2>2, <2>4
<1>. QED
  BY <1>1, <1>2, <1>3

\* A connector pattern without a star covers itself, as do the names of every
\* other scheme.
LEMMA NamesThemselves ==
    ASSUME NEW p \in Pattern, NEW x \in Pattern, ~IsWildcard(p), Covers(p, x),
           \/ p.scheme \notin {"any", "shell", "path", "mcp", "connector"}
           \/ p.scheme = "connector" /\ "*" \notin Range(p.toks)
    PROVE  p = x
<1>1. p = x \/ (TargetMatches(p, x) /\ p.toks # <<"*">>)
  BY DEF Covers, HarnessCovers, IsWildcard
<1>2. CASE p.scheme # "connector"
  BY <1>1, <1>2 DEF TargetMatches
<1>3. CASE p.scheme = "connector"
  <2>1. \A n \in 1..Len(p.toks) : p.toks[n] # "*"
    BY <1>3, LenProperties DEF Range, Pattern
  <2>2. p = x \/ (x.scheme = "connector" /\ p.toks = x.toks)
    BY <1>1, <1>3, <2>1 DEF TargetMatches, ConnectorMatches
  <2>. QED
    BY <1>3, <2>2 DEF Pattern
<1>. QED
  BY <1>2, <1>3

\* A pattern covers targets of its own scheme.
LEMMA OneScheme ==
    ASSUME NEW p, NEW x, p.scheme # "any", Covers(p, x)
    PROVE  p.scheme = x.scheme
BY DEF Covers, TargetMatches, HarnessCovers

\* A glob that covers a path matches it.
LEMMA GlobCovers ==
    ASSUME NEW p \in Pattern, NEW x \in Pattern, p.scheme = "path", ~IsWildcard(p), Covers(p, x)
    PROVE  GlobMatch(p.toks, x.toks)
<1>1. Len(x.toks) \in Nat
  BY LenProperties DEF Pattern
<1>2. GlobMatch(x.toks, x.toks)
  BY <1>1, GlobReflexive
<1>. QED
  BY <1>2 DEF Covers, TargetMatches, HarnessCovers, IsWildcard

\* An MCP pattern that covers a target leads it.
LEMMA McpLeads ==
    ASSUME NEW p \in Pattern, NEW x \in Pattern, p.scheme = "mcp", ~IsWildcard(p), Covers(p, x)
    PROVE  Len(p.toks) <= Len(x.toks) /\ \A i \in 1..Len(p.toks) : x.toks[i] = p.toks[i]
<1>0. Len(p.toks) \in Nat /\ Len(x.toks) \in Nat
  BY LenProperties DEF Pattern
<1>1. CASE p = x
  BY <1>0, <1>1
<1>2. CASE IsPrefix(p.toks, x.toks)
  <2>1. /\ Len(p.toks) <= Len(x.toks)
        /\ SubSeq(p.toks, 1, Len(p.toks)) = SubSeq(x.toks, 1, Len(p.toks))
    BY <1>2 DEF IsPrefix
  <2>2. /\ \A i \in 1..Len(p.toks) : SubSeq(p.toks, 1, Len(p.toks))[i] = p.toks[i]
        /\ \A i \in 1..Len(p.toks) : SubSeq(x.toks, 1, Len(p.toks))[i] = x.toks[i]
    BY <1>0, <2>1 DEF Pattern
  <2>. QED
    BY <2>1, <2>2
<1>. QED
  BY <1>1, <1>2 DEF Covers, TargetMatches, HarnessCovers, IsWildcard

\* Whatever overlaps is found or is one of the pairs that are overlooked.
LEMMA OverlapFound ==
    ASSUME NEW a \in Pattern, NEW b \in Pattern, NEW x \in Pattern,
           Covers(a, x), Covers(b, x), ~Overlooked(a, b)
    PROVE  TargetsOverlap(a, b)
<1>. SUFFICES ASSUME ~TargetsOverlap(a, b) PROVE FALSE
  OBVIOUS
<1>1. a # b /\ a.scheme # "any" /\ b.scheme # "any"
  BY DEF TargetsOverlap
<1>2. a.scheme = b.scheme
  BY <1>1, OneScheme
<1>3. ~IsWildcard(a) /\ ~IsWildcard(b)
  BY <1>2 DEF TargetsOverlap
<1>4. a.toks # <<"*">> /\ b.toks # <<"*">>
  BY <1>1, <1>3 DEF IsWildcard
<1>5. CASE a.scheme = "shell"
  <2>1. /\ a.toks = << >> \/ a.toks[Len(a.toks)] \notin SlashTokens
        /\ b.toks = << >> \/ b.toks[Len(b.toks)] \notin SlashTokens
    BY <1>2, <1>5 DEF Overlooked, Opens
  <2>2. /\ Len(a.toks) <= Len(x.toks) /\ \A i \in 1..Len(a.toks) : x.toks[i] = a.toks[i]
        /\ Len(b.toks) <= Len(x.toks) /\ \A i \in 1..Len(b.toks) : x.toks[i] = b.toks[i]
    BY <1>2, <1>4, <1>5, <2>1, ShellLeads
  <2>3. a.toks \in Seq(STRING) /\ b.toks \in Seq(STRING) /\ x.toks \in Seq(STRING)
    BY DEF Pattern
  <2>4. Len(a.toks) <= Len(b.toks) \/ Len(b.toks) <= Len(a.toks)
    BY <2>3, LenProperties
  <2>5. IsPrefix(a.toks, b.toks) \/ IsPrefix(b.toks, a.toks)
    BY <2>2, <2>3, <2>4, ShellPrefixes
  <2>. QED
    BY <1>2, <1>5, <2>5 DEF TargetsOverlap, ShellOverlap
<1>6. CASE a.scheme = "path"
  <2>1. GlobMatch(a.toks, x.toks) /\ GlobMatch(b.toks, x.toks)
    BY <1>2, <1>3, <1>6, GlobCovers
  <2>2. Len(a.toks) \in Nat /\ Len(b.toks) \in Nat /\ Len(x.toks) \in Nat
    BY LenProperties DEF Pattern
  <2>3. ~GlobsOverlap(a.toks, b.toks)
    BY <1>2, <1>6 DEF TargetsOverlap
  <2>. QED
    BY <1>2, <1>6, <2>1, <2>2, <2>3, GlobOverlapFound DEF Overlooked
<1>7. CASE a.scheme = "mcp"
  <2>1. /\ Len(a.toks) <= Len(x.toks) /\ \A i \in 1..Len(a.toks) : x.toks[i] = a.toks[i]
        /\ Len(b.toks) <= Len(x.toks) /\ \A i \in 1..Len(b.toks) : x.toks[i] = b.toks[i]
    BY <1>2, <1>3, <1>7, McpLeads
  <2>2. a.toks \in Seq(STRING) /\ b.toks \in Seq(STRING) /\ x.toks \in Seq(STRING)
    BY DEF Pattern
  <2>3. Len(a.toks) <= Len(b.toks) \/ Len(b.toks) <= Len(a.toks)
    BY <2>2, LenProperties
  <2>4. IsPrefix(a.toks, b.toks) \/ IsPrefix(b.toks, a.toks)
    BY <2>1, <2>2, <2>3, ShellPrefixes
  <2>. QED
    BY <1>2, <1>7, <2>4 DEF Overlooked
<1>8. CASE a.scheme \notin {"shell", "path", "mcp"}
  <2>1. a.scheme = "connector" => "*" \notin Range(a.toks) /\ "*" \notin Range(b.toks)
    BY <1>2 DEF Overlooked
  <2>2. a = x /\ b = x
    BY <1>1, <1>2, <1>3, <1>8, <2>1, NamesThemselves
  <2>. QED
    BY <1>1, <2>2
<1>. QED
  BY <1>5, <1>6, <1>7, <1>8

\* Whatever the rules, a permit is rendered only while no deny that the harness
\* does not hold covers what it lets through (fail closed, render.go 93), but
\* for the pairs of patterns that the test overlooks.
THEOREM OverlapsWithheld == Spec => []OverlapSeen
<1>1. TypeOK => OverlapSeen
  <2>. SUFFICES ASSUME TypeOK, NEW q \in Callers, NEW kind \in AnyKind, NEW x \in Targets,
                       NEW e \in Render(rules, q, kind), NEW d \in UnrenderedDenies(rules, q),
                       e.effect = "permit", ~Overlooked(e.target, d.target),
                       Covers(e.target, x), Covers(d.target, x)
                PROVE  FALSE
    BY DEF OverlapSeen
  <2>1. rules \in Seq(RulePool)
    BY PoolRules DEF TypeOK
  <2>2. e \in RulePool /\ d \in RulePool
    BY <2>1, RuleAt DEF Render, UnrenderedDenies, Range
  <2>3. e.target \in Pattern /\ d.target \in Pattern /\ x \in Pattern
    BY <2>2, PatternsAssumption DEF Pattern
  <2>4. TargetsOverlap(e.target, d.target)
    BY <2>3, OverlapFound
  <2>. QED
    BY <2>4 DEF Render, Renderable
<1>. QED
  BY <1>1, TypeCorrect, PTL

-----------------------------------------------------------------------------
(* What a harness lets through.                                            *)

\* A literal prefix that the harness matches the decision matches too.
LEMMA PrefixMatches ==
    ASSUME NEW p \in Pattern, NEW x \in Pattern, p.scheme = "shell", x.scheme = "shell",
           p.toks # << >>, IsPrefix(p.toks, x.toks)
    PROVE  TargetMatches(p, x)
<1>1. /\ Len(p.toks) \in Nat /\ Len(x.toks) \in Nat /\ Len(p.toks) <= Len(x.toks)
      /\ SubSeq(p.toks, 1, Len(p.toks)) = SubSeq(x.toks, 1, Len(p.toks))
  BY LenProperties DEF Pattern, IsPrefix
<1>2. Len(p.toks) # 0
  BY EmptySeq DEF Pattern
<1>3. \A i \in 1..Len(p.toks) : p.toks[i] = x.toks[i]
  <2>1. p.toks \in Seq(STRING) /\ x.toks \in Seq(STRING)
    BY DEF Pattern
  <2>2. /\ \A i \in 1..Len(p.toks) : SubSeq(p.toks, 1, Len(p.toks))[i] = p.toks[i]
        /\ \A i \in 1..Len(p.toks) : SubSeq(x.toks, 1, Len(p.toks))[i] = x.toks[i]
    BY <1>1, <2>1
  <2>. QED
    BY <1>1, <2>2
<1>4. \A t \in SlashTokens : <<t, t>> \in SlashPrefixes
  BY SlashPrefixesAssumption DEF SlashTokens
<1>5. ShellMatches(p.toks, x.toks)
  BY <1>1, <1>2, <1>3, <1>4 DEF ShellMatches
<1>. QED
  BY <1>5 DEF TargetMatches

\* What the decision matches the harness matches too, but for a command below a
\* directory that a pattern opens.
LEMMA MatchedByHarness ==
    ASSUME NEW p \in Pattern, NEW x \in Pattern, TargetMatches(p, x), ~Opens(p),
           x.scheme \in HarnessSchemes, x.toks # << >>
    PROVE  HarnessCovers(p, x)
<1>0. x.toks \in Seq(STRING) /\ Len(x.toks) \in Nat
  BY LenProperties DEF Pattern
<1>1. CASE p = x
  <2>1. IsPrefix(x.toks, x.toks)
    BY <1>0 DEF IsPrefix
  <2>2. GlobMatch(x.toks, x.toks)
    BY <1>0, GlobReflexive
  <2>. QED
    BY <1>1, <2>1, <2>2 DEF HarnessCovers, HarnessSchemes
<1>2. CASE p.toks = <<"*">> /\ p.scheme = x.scheme
  BY <1>2 DEF HarnessCovers, IsWildcard
<1>3. CASE p # x /\ p.scheme = "shell" /\ x.scheme = "shell" /\ ShellMatches(p.toks, x.toks)
  <2>1. Len(p.toks) \in 1..Len(x.toks) /\ p.toks # << >>
    BY <1>3 DEF ShellMatches
  <2>2. \A i \in 1..Len(p.toks) : x.toks[i] = p.toks[i]
    BY <1>3, <2>1 DEF ShellMatches, Opens
  <2>3. \A i \in 1..Len(x.toks) : x.toks[i] = x.toks[i]
    OBVIOUS
  <2>4. IsPrefix(p.toks, x.toks)
    BY <1>0, <2>1, <2>2, <2>3, ShellPrefixes DEF Pattern
  <2>. QED
    BY <1>3, <2>1, <2>4 DEF HarnessCovers
<1>. QED
  BY <1>1, <1>2, <1>3 DEF TargetMatches, HarnessCovers, HarnessSchemes

\* A permit that lets a call through is one that the decision matches, unless it
\* is a glob or an MCP server.
LEMMA PermitMatches ==
    ASSUME NEW p \in Pattern, NEW x \in Pattern, HarnessCovers(p, x),
           x.scheme \in HarnessSchemes \ {"path", "mcp"}, x.toks # << >>
    PROVE  TargetMatches(p, x)
BY PrefixMatches DEF HarnessCovers, TargetMatches, IsWildcard, HarnessSchemes

\* What a harness lets through by the entries rendered to it, the decision
\* permits as well, for any rules, patterns, people and targets, while no rule
\* has a condition on another harness (render.go 50): except that it has no rule
\* for what a glob or an MCP server covers, and that a deny which opens a
\* directory denies more than the harness takes it to say.
THEOREM RenderingNeverWidens == Spec => []RenderedNeverWider
<1>1. TypeOK => RenderedNeverWider
  <2>. SUFFICES ASSUME TypeOK, NEW q \in Callers, NEW kind \in AnyKind, NEW x \in Targets,
                       Conditioned(kind) = {}, LocallyPermitted(Render(rules, q, kind), x),
                       ~ \E d \in Render(rules, q, kind) :
                             d.effect = "deny" /\ Opens(d.target) /\ TargetMatches(d.target, x)
                PROVE  LET answer == Decide(rules, [q EXCEPT !.target = x, !.harness = kind]).decision
                       IN  answer = "permit" \/ (answer = "no_match" /\ x.scheme \in {"path", "mcp"})
    BY DEF RenderedNeverWider
  <2>. DEFINE asked == [q EXCEPT !.target = x, !.harness = kind]
              d == Decider(rules, asked)
  <2>1. q \in Requests
    <3>1. PICK one \in Requests : q = CHOOSE other \in Requests :
              <<other.user, other.email, other.groups>> = <<one.user, one.email, one.groups>>
      BY DEF Callers
    <3>. QED
      BY <3>1
  <2>2. DOMAIN q = {"user", "email", "groups", "target", "harness"}
    BY <2>1, RequestsAssumption
  <2>3. /\ asked.user = q.user /\ asked.email = q.email /\ asked.groups = q.groups
        /\ asked.target = x /\ asked.harness = kind
    BY <2>2
  <2>. HIDE DEF asked
  <2>4. \A p : MatchPrincipal(p, asked) <=> MatchPrincipal(p, q)
    BY <2>3 DEF MatchPrincipal, Inputs
  <2>5. rules \in Seq(RulePool)
    BY PoolRules DEF TypeOK
  <2>6. \A i \in DOMAIN rules :
            Applies(rules[i], asked) <=> /\ rules[i].enabled /\ MatchPrincipal(rules[i].principal, q)
                                         /\ TargetMatches(rules[i].target, x)
    BY <2>3, <2>4 DEF Applies, WhenMatches, Conditioned, Range
  <2>7. PICK e \in Render(rules, q, kind) : e.effect = "permit" /\ HarnessCovers(e.target, x)
    BY DEF LocallyPermitted
  <2>8. kind \in Kinds /\ Renderable(e, rules, q) /\ \E i \in DOMAIN rules : rules[i] = e
    BY <2>7 DEF Render, Range
  <2>9. /\ x \in Pattern /\ x.scheme \in HarnessSchemes /\ x.toks # << >>
        /\ \A i \in DOMAIN rules : rules[i].target \in Pattern /\ rules[i].effect \in Effects
    <3>1. \A i \in DOMAIN rules : rules[i] \in RulePool /\ rules[i].effect \in Effects
      BY <2>5, RuleAt
    <3>. QED
      BY <3>1, PatternsAssumption DEF Pattern, LocallyPermitted
  <2>10. CASE Matched(rules, asked) = {}
    <3>1. Decide(rules, asked).decision = "no_match"
      BY <2>10 DEF Decide
    <3>2. ~TargetMatches(e.target, x)
      BY <2>6, <2>8, <2>10 DEF Matched, Renderable
    <3>3. x.scheme \in {"path", "mcp"}
      BY <2>7, <2>8, <2>9, <3>2, PermitMatches
    <3>. QED
      BY <3>1, <3>3 DEF asked
  <2>11. CASE Matched(rules, asked) # {}
    <3>1. d \in Matched(rules, asked)
      BY <2>5, <2>11, DeciderFacts
    <3>2. Decide(rules, asked).decision = rules[d].effect
      BY <2>11 DEF Decide
    <3>. HIDE DEF d
    <3>3. /\ d \in DOMAIN rules /\ rules[d].enabled /\ MatchPrincipal(rules[d].principal, q)
          /\ TargetMatches(rules[d].target, x)
      BY <2>6, <3>1 DEF Matched
    <3>4. rules[d].effect # "deny"
      <4>. SUFFICES ASSUME rules[d].effect = "deny" PROVE FALSE
        OBVIOUS
      <4>1. rules[d] \in Render(rules, q, kind)
        BY <2>8, <3>3 DEF Render, Renderable, Range
      <4>2. HarnessCovers(rules[d].target, x)
        BY <2>9, <3>3, <4>1, MatchedByHarness
      <4>. QED
        BY <4>1, <4>2 DEF LocallyPermitted
    <3>5. rules[d].effect \in Effects
      BY <2>9, <3>3
    <3>. QED
      BY <3>2, <3>4, <3>5 DEF Effects, asked
  <2>. QED
    BY <2>10, <2>11
<1>. QED
  BY <1>1, TypeCorrect, PTL
=============================================================================
