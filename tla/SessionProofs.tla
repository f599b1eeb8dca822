---------------------------- MODULE SessionProofs ----------------------------
(* Proofs about SessionEvaluation for every bundle, call, person and clock:  *)
(* what is decided without knowing the person, or the memberships, or after  *)
(* a while, against what is decided with them.                               *)
EXTENDS SessionEvaluation, SequenceTheorems, WellFoundedInduction, TLAPS

-----------------------------------------------------------------------------
(* Types.                                                                  *)

\* The policies and the rows are sequences, and the clock a natural number.
TypeOK ==
    /\ policies \in Seq(PolicyPool)
    /\ order \in Orders
    /\ rows \in Seq(RowPool)
    /\ now \in 0..MaxTime

\* Putting an element in at a position leaves a sequence.
LEMMA InsertType ==
    ASSUME NEW S, NEW s \in Seq(S), NEW e \in S, NEW i \in 1..(Len(s) + 1)
    PROVE  InsertAt(s, i, e) \in Seq(S)
<1>. DEFINE before == SubSeq(s, 1, i - 1)
            after == SubSeq(s, i, Len(s))
<1>1. before \in Seq(S) /\ after \in Seq(S) /\ <<e>> \in Seq(S)
  BY SubSeqProperties
<1>2. InsertAt(s, i, e) = (before \o <<e>>) \o after
  BY DEF InsertAt
<1>. HIDE DEF before, after
<1>. QED
  BY <1>1, <1>2, ConcatProperties

\* So does taking one out.
LEMMA RemoveType ==
    ASSUME NEW S, NEW s \in Seq(S), NEW i \in DOMAIN s
    PROVE  RemoveAt(s, i) \in Seq(S)
<1>. DEFINE before == SubSeq(s, 1, i - 1)
            after == SubSeq(s, i + 1, Len(s))
<1>1. i \in 1..Len(s)
  BY LenProperties
<1>2. before \in Seq(S) /\ after \in Seq(S)
  BY <1>1, SubSeqProperties
<1>3. RemoveAt(s, i) = before \o after
  BY DEF RemoveAt
<1>. HIDE DEF before, after
<1>. QED
  BY <1>2, <1>3, ConcatProperties

\* In every reachable state the bundle held is well-typed.
THEOREM TypeCorrect == Spec => []TypeOK
<1>1. Init => TypeOK
  BY EmptySeq, BoundsAssumption DEF Init, TypeOK
<1>2. TypeOK /\ [Next]_vars => TypeOK'
  <2>. SUFFICES ASSUME TypeOK, [Next]_vars PROVE TypeOK'
    OBVIOUS
  <2>. USE BoundsAssumption DEF TypeOK
  <2>1. ASSUME NEW p \in PolicyPool, AddPolicy(p) PROVE TypeOK'
    <3>1. PICK i \in 1..(Len(policies) + 1) : policies' = InsertAt(policies, i, p)
      BY <2>1 DEF AddPolicy
    <3>2. policies' \in Seq(PolicyPool)
      BY <3>1, InsertType
    <3>. QED
      BY <2>1, <3>2 DEF AddPolicy
  <2>2. ASSUME NEW i \in DOMAIN policies, RemovePolicy(i) PROVE TypeOK'
    <3>1. policies' \in Seq(PolicyPool)
      BY <2>2, RemoveType DEF RemovePolicy
    <3>. QED
      BY <2>2, <3>1 DEF RemovePolicy
  <2>3. ASSUME NEW o \in Orders, SetOrder(o) PROVE TypeOK'
    BY <2>3 DEF SetOrder
  <2>4. ASSUME NEW row \in RowPool, AddRow(row) PROVE TypeOK'
    BY <2>4, AppendProperties DEF AddRow
  <2>5. ASSUME NEW i \in DOMAIN rows, RemoveRow(i) PROVE TypeOK'
    <3>1. rows' \in Seq(RowPool)
      BY <2>5, RemoveType DEF RemoveRow
    <3>. QED
      BY <2>5, <3>1 DEF RemoveRow
  <2>6. CASE Tick
    BY <2>6 DEF Tick
  <2>7. CASE UNCHANGED vars
    BY <2>7 DEF vars
  <2>. QED
    BY <2>1, <2>2, <2>3, <2>4, <2>5, <2>6, <2>7 DEF Next
<1>. QED
  BY <1>1, <1>2, PTL DEF Spec

-----------------------------------------------------------------------------
(* The first of a set of positions, and what a source matches without      *)
(* knowing the person or the memberships.                                  *)

\* Every non-empty set of naturals has a least element.
LEMMA LeastNat ==
    ASSUME NEW T, T \subseteq Nat, T # {}
    PROVE  \E x \in T : \A y \in T : x <= y
<1>1. PICK x \in T : \A y \in T : ~ (<<y, x>> \in OpToRel(<, Nat))
  BY NatLessThanWellFounded, WFMin
<1>2. \A y \in T : ~ (y < x)
  BY <1>1 DEF OpToRel
<1>. QED
  BY <1>2

\* First answers the least position of a set, and only that.
LEMMA FirstIsLeast ==
    ASSUME NEW S, S \subseteq Nat, S # {}
    PROVE  First(S) \in S /\ \A j \in S : First(S) <= j
BY LeastNat DEF First

LEMMA LeastIsFirst ==
    ASSUME NEW S, S \subseteq Nat, NEW f \in S, \A j \in S : f <= j
    PROVE  First(S) = f
<1>1. First(S) \in S /\ First(S) <= f /\ f <= First(S)
  BY FirstIsLeast
<1>2. First(S) \in Nat /\ f \in Nat
  BY <1>1
<1>. QED
  BY <1>1, <1>2

\* Two sets of positions have the same first one when the first of the one
\* is in the other, which lies within the one.
LEMMA FirstOfSubset ==
    ASSUME NEW S, S \subseteq Nat, NEW T, T \subseteq S, S # {}, First(S) \in T
    PROVE  First(T) = First(S)
<1>1. \A j \in S : First(S) <= j
  BY FirstIsLeast
<1>. QED
  BY <1>1, LeastIsFirst

\* The positions reached are positions of the array.
LEMMA ReachedNat ==
    ASSUME TypeOK, NEW call, NEW tool
    PROVE  Reached(call, tool) \subseteq Nat
BY LenProperties DEF TypeOK, Reached

\* A source that requires no subject matches whoever acts.
LEMMA SourceOfNoOne ==
    ASSUME NEW p, ~RequiresSubject(p), NEW a, NEW b, a.agent = b.agent,
           NEW groups, NEW roles, NEW others, NEW posts
    PROVE  SrcMatch(p, a, groups, roles) = SrcMatch(p, b, others, posts)
BY DEF SrcMatch, MatchPrincipal, RequiresSubject

\* One that needs no memberships matches whatever they are.
LEMMA SourceOfPerson ==
    ASSUME NEW p, ~NeedsMemberships(p), NEW call,
           NEW groups, NEW roles, NEW others, NEW posts
    PROVE  SrcMatch(p, call, groups, roles) = SrcMatch(p, call, others, posts)
BY DEF SrcMatch, MatchPrincipal, NeedsMemberships, Inputs

-----------------------------------------------------------------------------
(* Calls, and the person that acts.                                        *)

\* What the evaluators handle: a call with its fields.
CallOf(t, a, r, g, o, k, u, e, v) ==
    [tool |-> t, action |-> a, resource |-> r, agent |-> g, connector |-> o,
     capability |-> k, user |-> u, email |-> e, viaConnector |-> v]

IsCall(c) ==
    c = CallOf(c.tool, c.action, c.resource, c.agent, c.connector, c.capability, c.user,
               c.email, c.viaConnector)

\* The same call of another person.
Acting(c, user, email) == [c EXCEPT !.user = user, !.email = email]
As(c, user) == [c EXCEPT !.user = user]

\* The same call at another connector and capability.
Registered(c, x, y) == [c EXCEPT !.connector = x, !.capability = y]

\* What a call becomes when one of its fields, or two, are set.
LEMMA AgentField ==
    ASSUME NEW t, NEW a, NEW r, NEW g, NEW o, NEW k, NEW u, NEW e, NEW v, NEW x
    PROVE  [CallOf(t, a, r, g, o, k, u, e, v) EXCEPT !.agent = x]
               = CallOf(t, a, r, x, o, k, u, e, v)
BY DEF CallOf

LEMMA ActingFields ==
    ASSUME NEW t, NEW a, NEW r, NEW g, NEW o, NEW k, NEW u, NEW e, NEW v, NEW x, NEW y
    PROVE  Acting(CallOf(t, a, r, g, o, k, u, e, v), x, y) = CallOf(t, a, r, g, o, k, x, y, v)
<1>. DEFINE c == CallOf(t, a, r, g, o, k, u, e, v)
            d == CallOf(t, a, r, g, o, k, x, e, v)
<1>1. Acting(c, x, y) = [[c EXCEPT !.user = x] EXCEPT !.email = y]
  BY DEF Acting
<1>2. [c EXCEPT !.user = x] = d
  BY DEF CallOf
<1>3. [d EXCEPT !.email = y] = CallOf(t, a, r, g, o, k, x, y, v)
  BY DEF CallOf
<1>. QED
  BY <1>1, <1>2, <1>3

LEMMA RegisteredFields ==
    ASSUME NEW t, NEW a, NEW r, NEW g, NEW o, NEW k, NEW u, NEW e, NEW v, NEW x, NEW y
    PROVE  Registered(CallOf(t, a, r, g, o, k, u, e, v), x, y)
               = CallOf(t, a, r, g, x, y, u, e, v)
<1>. DEFINE c == CallOf(t, a, r, g, o, k, u, e, v)
            d == CallOf(t, a, r, g, x, k, u, e, v)
<1>1. Registered(c, x, y) = [[c EXCEPT !.connector = x] EXCEPT !.capability = y]
  BY DEF Registered
<1>2. [c EXCEPT !.connector = x] = d
  BY DEF CallOf
<1>3. [d EXCEPT !.capability = y] = CallOf(t, a, r, g, x, y, u, e, v)
  BY DEF CallOf
<1>. QED
  BY <1>1, <1>2, <1>3

LEMMA UserField ==
    ASSUME NEW t, NEW a, NEW r, NEW g, NEW o, NEW k, NEW u, NEW e, NEW v, NEW x
    PROVE  [CallOf(t, a, r, g, o, k, u, e, v) EXCEPT !.user = x]
               = CallOf(t, a, r, g, o, k, x, e, v)
BY DEF CallOf

\* Who acts last acts, and a call without a person is no one's.
LEMMA ActingAgain ==
    ASSUME NEW c, IsCall(c), NEW u, NEW e
    PROVE  /\ Acting(c, u, e).user = u /\ Acting(c, u, e).email = e
           /\ Acting(c, u, e).agent = c.agent
           /\ \A x, y : Acting(Acting(c, u, e), x, y) = Acting(c, x, y)
           /\ \A x : As(Acting(c, u, e), x) = Acting(c, x, e)
           /\ c.user = u /\ c.email = e => Acting(c, u, e) = c
<1>. DEFINE b == CallOf(c.tool, c.action, c.resource, c.agent, c.connector, c.capability, u, e,
                        c.viaConnector)
<1>1. c = CallOf(c.tool, c.action, c.resource, c.agent, c.connector, c.capability, c.user,
                 c.email, c.viaConnector)
  BY DEF IsCall
<1>2. Acting(c, u, e) = b
  BY <1>1, ActingFields
<1>3. b.user = u /\ b.email = e /\ b.agent = c.agent
  BY DEF CallOf
<1>4. \A x, y : Acting(c, x, y) = CallOf(c.tool, c.action, c.resource, c.agent, c.connector,
                                         c.capability, x, y, c.viaConnector)
  BY <1>1, ActingFields
<1>5. \A x, y : Acting(b, x, y) = Acting(c, x, y)
  BY <1>4, ActingFields
<1>6. \A x : As(b, x) = Acting(c, x, e)
  BY <1>4, UserField DEF As
<1>. HIDE DEF b
<1>7. c.user = u /\ c.email = e => Acting(c, u, e) = c
  BY <1>1, <1>2 DEF b
<1>. QED
  BY <1>2, <1>3, <1>5, <1>6, <1>7

\* The agent and the registry complete a call whoever acts.
LEMMA CompletedCall ==
    ASSUME NEW c, IsCall(c), NEW tool
    PROVE  /\ IsCall(WithAgent(c)) /\ IsCall(Completed(c, tool))
           /\ WithAgent(c).user = c.user /\ WithAgent(c).email = c.email
           /\ Completed(c, tool).user = c.user /\ Completed(c, tool).email = c.email
<1>1. c = CallOf(c.tool, c.action, c.resource, c.agent, c.connector, c.capability, c.user,
                 c.email, c.viaConnector)
  BY DEF IsCall
<1>2. /\ IsCall(WithAgent(c))
      /\ WithAgent(c).user = c.user /\ WithAgent(c).email = c.email
  BY <1>1 DEF IsCall, CallOf, WithAgent
<1>. DEFINE x == IF c.connector = Nothing THEN tool.connector ELSE c.connector
            y == IF c.capability = Nothing THEN tool.capability ELSE c.capability
<1>3. Completed(c, tool) = Registered(c, x, y)
  BY DEF Completed, Registered
<1>. HIDE DEF x, y
<1>4. Registered(c, x, y) =
          CallOf(c.tool, c.action, c.resource, c.agent, x, y, c.user, c.email, c.viaConnector)
  BY <1>1, RegisteredFields
<1>5. /\ IsCall(Completed(c, tool))
      /\ Completed(c, tool).user = c.user /\ Completed(c, tool).email = c.email
  BY <1>3, <1>4 DEF IsCall, CallOf
<1>. QED
  BY <1>2, <1>5

LEMMA ActingCompleted ==
    ASSUME NEW c, IsCall(c), NEW user, NEW email, NEW tool
    PROVE  /\ IsCall(Acting(c, user, email))
           /\ WithAgent(Acting(c, user, email)) = Acting(WithAgent(c), user, email)
           /\ Completed(Acting(c, user, email), tool) = Acting(Completed(c, tool), user, email)
<1>. DEFINE b == Acting(c, user, email)
<1>1. c = CallOf(c.tool, c.action, c.resource, c.agent, c.connector, c.capability, c.user,
                 c.email, c.viaConnector)
  BY DEF IsCall
<1>2. b = CallOf(c.tool, c.action, c.resource, c.agent, c.connector, c.capability, user,
                 email, c.viaConnector)
  BY <1>1, ActingFields
<1>3. IsCall(b) /\ b.agent = c.agent /\ b.viaConnector = c.viaConnector
      /\ b.connector = c.connector /\ b.capability = c.capability
  BY <1>2 DEF IsCall, CallOf
<1>. HIDE DEF b
<1>4. WithAgent(b) = Acting(WithAgent(c), user, email)
  <2>1. CASE c.agent # Nothing
    BY <1>3, <2>1 DEF WithAgent, b
  <2>2. CASE c.agent = Nothing
    <3>. DEFINE d == [c EXCEPT !.agent = DefaultAgent]
    <3>1. WithAgent(b) = [b EXCEPT !.agent = DefaultAgent] /\ WithAgent(c) = d
      BY <1>3, <2>2 DEF WithAgent
    <3>2. [b EXCEPT !.agent = DefaultAgent] =
              CallOf(c.tool, c.action, c.resource, DefaultAgent, c.connector, c.capability,
                     user, email, c.viaConnector)
      BY <1>2, AgentField
    <3>3. d = CallOf(c.tool, c.action, c.resource, DefaultAgent, c.connector, c.capability,
                     c.user, c.email, c.viaConnector)
      BY <1>1, AgentField
    <3>4. Acting(d, user, email) =
              CallOf(c.tool, c.action, c.resource, DefaultAgent, c.connector, c.capability,
                     user, email, c.viaConnector)
      BY <3>3, ActingFields
    <3>. QED
      BY <3>1, <3>2, <3>4
  <2>. QED
    BY <2>1, <2>2
<1>5. Completed(b, tool) = Acting(Completed(c, tool), user, email)
  <2>. DEFINE x == IF c.connector = Nothing THEN tool.connector ELSE c.connector
              y == IF c.capability = Nothing THEN tool.capability ELSE c.capability
              d == Registered(c, x, y)
  <2>1. Completed(c, tool) = d /\ Completed(b, tool) = Registered(b, x, y)
    BY <1>3 DEF Completed, Registered
  <2>. HIDE DEF x, y
  <2>2. Registered(b, x, y) =
            CallOf(c.tool, c.action, c.resource, c.agent, x, y, user, email, c.viaConnector)
    BY <1>2, RegisteredFields
  <2>3. d = CallOf(c.tool, c.action, c.resource, c.agent, x, y, c.user, c.email,
                   c.viaConnector)
    BY <1>1, RegisteredFields
  <2>4. Acting(d, user, email) =
            CallOf(c.tool, c.action, c.resource, c.agent, x, y, user, email, c.viaConnector)
    BY <2>3, ActingFields
  <2>. QED
    BY <2>1, <2>2, <2>4
<1>. QED
  BY <1>3, <1>4, <1>5 DEF b

\* A call is refused, or finds its registration, whoever acts.
LEMMA ActingRefused ==
    ASSUME NEW c, IsCall(c), NEW user, NEW email
    PROVE  /\ Registrations(Acting(c, user, email)) = Registrations(c)
           /\ Refusal(Acting(c, user, email)) = Refusal(c)
<1>. DEFINE b == Acting(c, user, email)
<1>1. /\ b.tool = c.tool /\ b.action = c.action /\ b.agent = c.agent
      /\ b.connector = c.connector /\ b.capability = c.capability
      /\ b.viaConnector = c.viaConnector
  BY DEF IsCall, CallOf, Acting
<1>2. Registrations(b) = Registrations(c)
  BY <1>1 DEF Registrations, ToolsNamed, ToolsBound
<1>. DEFINE tool == Tools[First(Registrations(c))]
<1>3. /\ Completed(b, tool).connector = Completed(c, tool).connector
      /\ Completed(b, tool).capability = Completed(c, tool).capability
  BY ActingCompleted DEF Acting, Completed, IsCall, CallOf
<1>. HIDE DEF b, tool
<1>4. Refusal(b) = Refusal(c)
  BY <1>1, <1>2, <1>3 DEF Refusal, RefusalOf, tool
<1>. QED
  BY <1>2, <1>4 DEF b

\* It reaches the same policies.
LEMMA ActingReached ==
    ASSUME NEW c, IsCall(c), NEW user, NEW email, NEW tool
    PROVE  Reached(Acting(c, user, email), tool) = Reached(c, tool)
<1>. DEFINE b == Acting(c, user, email)
<1>1. /\ b.action = c.action /\ b.resource = c.resource /\ b.agent = c.agent
      /\ b.connector = c.connector /\ b.capability = c.capability
      /\ b.viaConnector = c.viaConnector
  BY DEF IsCall, CallOf, Acting
<1>. HIDE DEF b
<1>2. Candidates(b, tool) = Candidates(c, tool)
  BY <1>1 DEF Candidates, OnResource
<1>3. Reached(b, tool) = Reached(c, tool)
  BY <1>1, <1>2 DEF Reached
<1>. QED
  BY <1>3 DEF b

-----------------------------------------------------------------------------
(* The two walks by what they find.                                        *)

\* The positions that name a person, that match, and that end the walk.
Naming(call, tool) == {i \in Reached(call, tool) : RequiresSubject(policies[i].src)}
Grouping(call, tool) == {i \in Reached(call, tool) : NeedsMemberships(policies[i].src)}
Matching(call, tool, groups, roles) ==
    {i \in Reached(call, tool) : SrcMatch(policies[i].src, call, groups, roles)}
Ending(S) == {i \in S : policies[i].action = "deny" \/ order # "deny_overrides"}

\* What the online walk answers when no policy is left unresolved.
Found(matching) ==
    IF Ending(matching) # {} THEN By(policies[First(Ending(matching))])
    ELSE IF matching # {} THEN By(policies[First(matching)])
    ELSE Deny("no_matching_policy")

\* With a subject the online walk resolves every policy.
LEMMA WalkOfSomeone ==
    ASSUME NEW call, NEW tool, NEW subject, subject # Nothing
    PROVE  Walk(call, tool, subject)
               = Found(Matching(call, tool, subject.groups, subject.roles))
<1>. DEFINE reached == Reached(call, tool)
            matching == {i \in reached :
                            SrcMatch(policies[i].src, call, subject.groups, subject.roles)}
            unresolved == {i \in reached : subject = Nothing /\ RequiresSubject(policies[i].src)}
            ending == {i \in matching : policies[i].action = "deny" \/ order # "deny_overrides"}
<1>1. unresolved = {} /\ unresolved \cup ending = ending
  OBVIOUS
<1>2. Walk(call, tool, subject) =
          IF unresolved \cup ending # {}
          THEN IF First(unresolved \cup ending) \in unresolved
               THEN Deny("subject_resolution_unavailable")
               ELSE By(policies[First(unresolved \cup ending)])
          ELSE IF matching # {} THEN By(policies[First(matching)])
          ELSE Deny("no_matching_policy")
  BY DEF Walk
<1>3. matching = Matching(call, tool, subject.groups, subject.roles)
      /\ ending = Ending(matching)
  BY DEF Matching, Ending
<1>. HIDE DEF unresolved, ending, matching
<1>. QED
  BY <1>1, <1>2, <1>3 DEF Found

\* Without one it ends at a policy that names a person, whichever comes first.
LEMMA WalkOfNoOne ==
    ASSUME NEW call, NEW tool
    PROVE  LET matching == Matching(call, tool, {}, {})
               ends == Naming(call, tool) \cup Ending(matching)
           IN Walk(call, tool, Nothing) =
                  IF ends # {} THEN IF First(ends) \in Naming(call, tool)
                                    THEN Deny("subject_resolution_unavailable")
                                    ELSE By(policies[First(ends)])
                  ELSE IF matching # {} THEN By(policies[First(matching)])
                  ELSE Deny("no_matching_policy")
<1>. DEFINE reached == Reached(call, tool)
            unresolved == {i \in reached : Nothing = Nothing /\ RequiresSubject(policies[i].src)}
            matching == {i \in reached : SrcMatch(policies[i].src, call, {}, {})}
            ending == {i \in matching : policies[i].action = "deny" \/ order # "deny_overrides"}
<1>1. Walk(call, tool, Nothing) =
          IF unresolved \cup ending # {}
          THEN IF First(unresolved \cup ending) \in unresolved
               THEN Deny("subject_resolution_unavailable")
               ELSE By(policies[First(unresolved \cup ending)])
          ELSE IF matching # {} THEN By(policies[First(matching)])
          ELSE Deny("no_matching_policy")
  BY DEF Walk
<1>2. unresolved = Naming(call, tool) /\ matching = Matching(call, tool, {}, {})
      /\ ending = Ending(matching)
  BY DEF Naming, Matching, Ending
<1>. HIDE DEF unresolved, ending, matching
<1>. QED
  BY <1>1, <1>2

\* The walk of a session ends at the first policy that matches or that it
\* cannot resolve.
SessionFound(unresolved, matching, code) ==
    LET ends == unresolved \cup matching
    IN IF ends = {} THEN Deny("no_matching_policy")
       ELSE IF First(ends) \notin unresolved THEN By(policies[First(ends)]) ELSE Deny(code)

LEMMA SessionWalkOfNoOne ==
    ASSUME NEW call, NEW tool
    PROVE  SessionWalk(call, tool, Nothing, Unknown) =
               SessionFound(Naming(call, tool), Matching(call, tool, {}, {}), "subject_unlinked")
<1>. DEFINE reached == Reached(call, tool)
            unresolved == {i \in reached : /\ RequiresSubject(policies[i].src)
                                           /\ \/ Nothing = Nothing
                                              \/ /\ NeedsMemberships(policies[i].src)
                                                 /\ ~Unknown.known}
            matching == {i \in reached :
                            SrcMatch(policies[i].src, call, Unknown.groups, Unknown.roles)}
<1>1. SessionWalk(call, tool, Nothing, Unknown) =
          IF unresolved \cup matching = {} THEN Deny("no_matching_policy")
          ELSE IF First(unresolved \cup matching) \notin unresolved
          THEN By(policies[First(unresolved \cup matching)])
          ELSE IF Nothing = Nothing THEN Deny("subject_unlinked") ELSE Deny("subject_pending")
  BY DEF SessionWalk
<1>2. unresolved = Naming(call, tool) /\ matching = Matching(call, tool, {}, {})
  BY DEF Naming, Matching, Unknown
<1>. HIDE DEF unresolved, matching
<1>. QED
  BY <1>1, <1>2 DEF SessionFound

LEMMA SessionWalkOfSomeone ==
    ASSUME NEW call, NEW tool, NEW subject, subject # Nothing, NEW m
    PROVE  SessionWalk(call, tool, subject, m) =
               SessionFound(IF m.known THEN {} ELSE Grouping(call, tool),
                            Matching(call, tool, m.groups, m.roles), "subject_pending")
<1>. DEFINE reached == Reached(call, tool)
            unresolved == {i \in reached : /\ RequiresSubject(policies[i].src)
                                           /\ \/ subject = Nothing
                                              \/ NeedsMemberships(policies[i].src) /\ ~m.known}
            matching == {i \in reached : SrcMatch(policies[i].src, call, m.groups, m.roles)}
<1>1. SessionWalk(call, tool, subject, m) =
          IF unresolved \cup matching = {} THEN Deny("no_matching_policy")
          ELSE IF First(unresolved \cup matching) \notin unresolved
          THEN By(policies[First(unresolved \cup matching)])
          ELSE IF subject = Nothing THEN Deny("subject_unlinked") ELSE Deny("subject_pending")
  BY DEF SessionWalk
<1>2. unresolved = (IF m.known THEN {} ELSE Grouping(call, tool))
  BY DEF Grouping, NeedsMemberships, RequiresSubject
<1>3. matching = Matching(call, tool, m.groups, m.roles)
  BY DEF Matching
<1>. HIDE DEF unresolved, matching
<1>. QED
  BY <1>1, <1>2, <1>3 DEF SessionFound

-----------------------------------------------------------------------------
(* What does not depend on the person.                                     *)

\* A policy that names no one matches for everyone if it matches for no one.
LEMMA NamelessMatch ==
    ASSUME NEW a, NEW b, NEW tool, Reached(a, tool) = Reached(b, tool), a.agent = b.agent,
           NEW groups, NEW roles, NEW others, NEW posts
    PROVE  Matching(a, tool, groups, roles) \subseteq
               Matching(b, tool, others, posts) \cup Naming(b, tool)
BY SourceOfNoOne DEF Matching, Naming

\* So does one that asks for no membership, of one person.
LEMMA GrouplessMatch ==
    ASSUME NEW call, NEW tool, NEW groups, NEW roles, NEW others, NEW posts
    PROVE  Matching(call, tool, groups, roles) \subseteq
               Matching(call, tool, others, posts) \cup Grouping(call, tool)
BY SourceOfPerson DEF Matching, Grouping

\* What is unresolved, what matches with less knowledge and what with more:
\* the two matches differ by unresolved policies only.
Differ(unresolved, some, all) ==
    /\ unresolved \subseteq Nat /\ some \subseteq Nat
    /\ all \subseteq some \cup unresolved
    /\ some \subseteq all \cup unresolved

\* When the session's walk ends at a policy with less knowledge, it ends there
\* with more: what it could not resolve stands behind, if anywhere.
LEMMA MoreIsKnown ==
    ASSUME NEW unresolved, NEW some, NEW all, Differ(unresolved, some, all)
    PROVE  \A code, word :
               Allowed(SessionFound(unresolved, some, code))
                   => SessionFound({}, all, word) = SessionFound(unresolved, some, code)
<1>. SUFFICES ASSUME NEW code, NEW word, Allowed(SessionFound(unresolved, some, code))
     PROVE  SessionFound({}, all, word) = SessionFound(unresolved, some, code)
  OBVIOUS
<1>. DEFINE ends == unresolved \cup some
            f == First(ends)
<1>1. ends # {} /\ f \notin unresolved /\ SessionFound(unresolved, some, code) = By(policies[f])
  BY DEF SessionFound, Allowed, Deny
<1>2. f \in ends
  BY <1>1, FirstIsLeast DEF Differ
<1>3. f \in all
  BY <1>1, <1>2 DEF Differ
<1>4. First(all) = f
  BY <1>1, <1>3, FirstOfSubset DEF Differ
<1>5. {} \cup all = all
  OBVIOUS
<1>6. SessionFound({}, all, word) = By(policies[First(all)])
  BY <1>3, <1>5 DEF SessionFound
<1>. QED
  BY <1>1, <1>4, <1>6

-----------------------------------------------------------------------------
(* The evaluators: a refusal, or a walk for whoever acts.                  *)

\* The registration that a call finds, and the call as it is walked with.
Tool(c) == Tools[First(Registrations(WithAgent(c)))]
Asked(c) == Completed(WithAgent(c), Tool(c))

\* What an evaluator answers that walks with an outcome.
Unless(c, outcome) ==
    IF Refusal(WithAgent(c)) # "ok" THEN Deny(Refusal(WithAgent(c))) ELSE outcome

LEMMA CallEvaluated ==
    ASSUME NEW c, IsCall(c), NEW subject
    PROVE  EvaluateCall(c, subject) = Unless(c, EvaluatePolicies(Asked(c), Tool(c), subject))
<1>1. WithAgent(c).viaConnector = c.viaConnector
  BY DEF IsCall, CallOf, WithAgent
<1>. QED
  BY <1>1, Zenon DEF EvaluateCall, Evaluate, EvaluateConnector, EvaluateRegistered, Refusal,
                     Registrations, Unless, Asked, Tool

LEMMA AskedCall ==
    ASSUME NEW c, IsCall(c)
    PROVE  IsCall(WithAgent(c)) /\ IsCall(Asked(c))
BY CompletedCall DEF Asked

\* The online evaluator with an approved person.
LEMMA EvaluatedOnline ==
    ASSUME NEW c, IsCall(c), NEW user, NEW email,
           NEW subject, subject # Nothing, subject.status = "linked_approved"
    PROVE  EvaluateCall(Acting(c, user, email), subject) =
               Unless(c, Walk(Acting(Asked(c), IF user = NoOne THEN subject.user ELSE user, email),
                              Tool(c), subject))
<1>. DEFINE b == Acting(c, user, email)
            asked == WithAgent(c)
            done == Asked(c)
            actor == IF user = NoOne THEN subject.user ELSE user
<1>1. IsCall(asked) /\ IsCall(done)
  BY AskedCall
<1>2. WithAgent(b) = Acting(asked, user, email)
  BY ActingCompleted
<1>3. /\ Registrations(WithAgent(b)) = Registrations(asked)
      /\ Refusal(WithAgent(b)) = Refusal(asked)
  BY <1>1, <1>2, ActingRefused
<1>4. Completed(WithAgent(b), Tool(c)) = Acting(done, user, email)
  BY <1>1, <1>2, ActingCompleted DEF Asked
<1>. HIDE DEF done, asked, b
<1>5. EvaluateCall(b, subject) =
          IF Refusal(asked) # "ok" THEN Deny(Refusal(asked))
          ELSE EvaluatePolicies(Acting(done, user, email), Tool(c), subject)
  <2>1. IsCall(b)
    BY ActingCompleted DEF b
  <2>2. Tool(b) = Tool(c) /\ Asked(b) = Acting(done, user, email)
    BY <1>3, <1>4 DEF Tool, Asked, asked
  <2>. QED
    BY <1>3, <2>1, <2>2, CallEvaluated DEF Unless
<1>6. /\ Acting(done, user, email).user = user
      /\ As(Acting(done, user, email), subject.user) = Acting(done, subject.user, email)
  BY <1>1, ActingAgain
<1>7. EvaluatePolicies(Acting(done, user, email), Tool(c), subject) =
          Walk(Acting(done, actor, email), Tool(c), subject)
  BY <1>6 DEF EvaluatePolicies, As
<1>. QED
  BY <1>5, <1>7 DEF Unless, asked, done, b

\* The session evaluator, with a linked person and without one.
LEMMA EvaluatedInSession ==
    ASSUME NEW c, IsCall(c), NEW m
    PROVE  /\ \A subject :
                  subject # Nothing /\ SubjectGate(subject) = "ok" /\ ~(m.known /\ ~m.granted)
                  => EvaluateSessionWith(c, subject, m) =
                         Unless(c, SessionWalk(Acting(Asked(c), subject.user, subject.email),
                                               Tool(c), subject, m))
           /\ EvaluateSessionWith(c, Nothing, m) =
                  Unless(c, SessionWalk(Acting(Asked(c), NoOne, NoOne), Tool(c), Nothing, Unknown))
<1>. DEFINE asked == WithAgent(c)
            b == Acting(asked, NoOne, NoOne)
            done == Asked(c)
<1>1. IsCall(asked) /\ IsCall(done)
  BY AskedCall
<1>2. Anonymous(asked) = b
  BY DEF Anonymous, Acting
<1>3. Registrations(b) = Registrations(asked) /\ Refusal(b) = Refusal(asked)
  BY <1>1, ActingRefused
<1>4. Completed(b, Tool(c)) = Acting(done, NoOne, NoOne)
  BY <1>1, ActingCompleted DEF Asked
<1>5. Tools[First(Registrations(b))] = Tool(c)
  BY <1>3 DEF Tool
<1>. HIDE DEF done, b, asked
<1>6. ASSUME NEW subject
      PROVE  EvaluateSessionWith(c, subject, m) =
                 IF Refusal(asked) # "ok" THEN Deny(Refusal(asked))
                 ELSE IF subject = Nothing
                 THEN SessionWalk(Acting(done, NoOne, NoOne), Tool(c), subject, Unknown)
                 ELSE IF SubjectGate(subject) # "ok" THEN Deny(SubjectGate(subject))
                 ELSE IF m.known /\ ~m.granted THEN Deny("subject_revoked")
                 ELSE SessionWalk(Acting(Acting(done, NoOne, NoOne), subject.user, subject.email),
                                  Tool(c), subject, m)
  BY <1>2, <1>3, <1>4, <1>5 DEF EvaluateSessionWith, Acting, asked
<1>7. \A x, y : Acting(Acting(done, NoOne, NoOne), x, y) = Acting(done, x, y)
  BY <1>1, ActingAgain
<1>. QED
  BY <1>6, <1>7 DEF Unless, asked, done

\* What is known of a person comes from a row of the pool.
LEMMA KnownFromRow ==
    ASSUME TypeOK, NEW user, Lookup(user) # Unknown
    PROVE  \E row \in RowPool :
               Lookup(user) = [groups |-> row.groups, roles |-> row.roles,
                               granted |-> row.status = "linked", known |-> TRUE]
<1>. DEFINE mine == {i \in DOMAIN rows : rows[i].user = user}
<1>1. mine # {} /\ Lookup(user) = [groups |-> rows[First(mine)].groups,
                                   roles |-> rows[First(mine)].roles,
                                   granted |-> rows[First(mine)].status = "linked",
                                   known |-> TRUE]
  BY DEF Lookup
<1>2. mine \subseteq Nat /\ mine \subseteq 1..Len(rows)
  BY LenProperties DEF TypeOK
<1>3. First(mine) \in 1..Len(rows)
  BY <1>1, <1>2, FirstIsLeast
<1>4. rows[First(mine)] \in RowPool
  BY <1>3, ElementOfSeq DEF TypeOK
<1>. QED
  BY <1>1, <1>4

-----------------------------------------------------------------------------
(* The theorems.                                                           *)

\* Who a session speaks for, as the online resolution would answer.
PersonOf(s, m) ==
    [user |-> s.user, groups |-> m.groups, roles |-> m.roles, status |-> "linked_approved"]

\* Under array order the session decides as the online resolution would.
THEOREM SessionIsOnline == Spec => []SessionAgreesWithOnline
<1>1. TypeOK => SessionAgreesWithOnline
  <2>. SUFFICES ASSUME TypeOK, NEW call \in Calls, NEW s \in Linked,
                       order # "deny_overrides", Lookup(s.user).granted
       PROVE  EvaluateSession(call, s) =
                  EvaluateCall([call EXCEPT !.user = s.user, !.email = s.email],
                               PersonOf(s, Lookup(s.user)))
    BY DEF SessionAgreesWithOnline, PersonOf
  <2>. DEFINE m == Lookup(s.user)
              person == PersonOf(s, m)
              their == Acting(Asked(call), s.user, s.email)
              matching == Matching(their, Tool(call), m.groups, m.roles)
  <2>1. IsCall(call) /\ s \in Sessions /\ s # Nothing /\ SubjectGate(s) = "ok"
    BY CallsAssumption, SomeoneAssumption DEF IsCall, CallOf, Linked
  <2>2. m # Unknown
    BY DEF Unknown
  <2>3. PICK row \in RowPool : m = [groups |-> row.groups, roles |-> row.roles,
                                    granted |-> row.status = "linked", known |-> TRUE]
    BY <2>2, KnownFromRow
  <2>4. m.known = TRUE /\ m.granted = TRUE
    BY <2>3
  <2>5. person # Nothing /\ person.status = "linked_approved"
        /\ person.groups = m.groups /\ person.roles = m.roles /\ person.user = s.user
    BY <2>1, <2>3, SomeoneAssumption DEF PersonOf
  <2>. HIDE DEF m, person, their
  <2>6. EvaluateSession(call, s) = Unless(call, SessionWalk(their, Tool(call), s, m))
    BY <2>1, <2>4, EvaluatedInSession DEF EvaluateSession, m, their
  <2>7. SessionWalk(their, Tool(call), s, m) = SessionFound({}, matching, "subject_pending")
    BY <2>1, <2>4, SessionWalkOfSomeone
  <2>8. EvaluateCall(Acting(call, s.user, s.email), person)
            = Unless(call, Walk(their, Tool(call), person))
    BY <2>1, <2>5, EvaluatedOnline DEF their
  <2>9. Walk(their, Tool(call), person) = Found(matching)
    BY <2>5, WalkOfSomeone
  <2>. HIDE DEF matching
  <2>10. Ending(matching) = matching /\ {} \cup matching = matching
    BY DEF Ending
  <2>11. SessionFound({}, matching, "subject_pending") = Found(matching)
    BY <2>10 DEF SessionFound, Found
  <2>. QED
    BY <2>6, <2>7, <2>8, <2>9, <2>11 DEF Acting, m, person
<1>. QED
  BY <1>1, TypeCorrect, PTL

\* What is decided without a session, or without the memberships, stands when
\* they are known: the lemma, for any memberships that grant.
LEMMA KnowingKeeps ==
    ASSUME TypeOK, NEW call, IsCall(call), NEW s \in Linked, NEW m, m.known = TRUE, m.granted = TRUE,
           NEW partial \in {EvaluateSession(call, Nothing), EvaluateSessionWith(call, s, Unknown)},
           Allowed(partial)
    PROVE  EvaluateSessionWith(call, s, m) = partial
<1>. DEFINE their == Acting(Asked(call), s.user, s.email)
            noones == Acting(Asked(call), NoOne, NoOne)
            tool == Tool(call)
            all == Matching(their, tool, m.groups, m.roles)
<1>1. s # Nothing /\ SubjectGate(s) = "ok" /\ IsCall(Asked(call))
  BY SomeoneAssumption, AskedCall DEF Linked
<1>2. EvaluateSessionWith(call, s, m) = Unless(call, SessionFound({}, all, "subject_pending"))
  <2>1. EvaluateSessionWith(call, s, m) = Unless(call, SessionWalk(their, tool, s, m))
    BY <1>1, EvaluatedInSession
  <2>2. SessionWalk(their, tool, s, m) = SessionFound({}, all, "subject_pending")
    BY <1>1, SessionWalkOfSomeone
  <2>. QED
    BY <2>1, <2>2
<1>3. /\ Reached(their, tool) = Reached(Asked(call), tool)
      /\ Reached(noones, tool) = Reached(Asked(call), tool)
      /\ their.agent = noones.agent
  BY <1>1, ActingReached, ActingAgain
<1>4. Reached(their, tool) \subseteq Nat /\ Reached(noones, tool) \subseteq Nat
  BY ReachedNat
<1>. HIDE DEF their, noones, tool
<1>5. CASE partial = EvaluateSession(call, Nothing)
  <2>. DEFINE some == Matching(noones, tool, {}, {})
              unresolved == Naming(noones, tool)
  <2>1. partial = Unless(call, SessionFound(unresolved, some, "subject_unlinked"))
    <3>1. partial = Unless(call, SessionWalk(noones, tool, Nothing, Unknown))
      BY <1>5, EvaluatedInSession DEF EvaluateSession, noones, tool
    <3>. QED
      BY <3>1, SessionWalkOfNoOne
  <2>2. Naming(their, tool) = unresolved /\ unresolved \subseteq Nat /\ some \subseteq Nat
    BY <1>3, <1>4 DEF Naming, Matching
  <2>3. all \subseteq some \cup unresolved /\ some \subseteq all \cup unresolved
    <3>1. all \subseteq some \cup unresolved
      BY <1>3, NamelessMatch
    <3>2. some \subseteq all \cup Naming(their, tool)
      BY <1>3, NamelessMatch
    <3>. QED
      BY <2>2, <3>1, <3>2
  <2>. HIDE DEF some, unresolved, all
  <2>0. Differ(unresolved, some, all)
    BY <2>2, <2>3 DEF Differ
  <2>4. Refusal(WithAgent(call)) = "ok"
        /\ Allowed(SessionFound(unresolved, some, "subject_unlinked"))
    BY <2>1 DEF Unless, Allowed, Deny
  <2>5. SessionFound({}, all, "subject_pending")
            = SessionFound(unresolved, some, "subject_unlinked")
    BY <2>0, <2>4, MoreIsKnown
  <2>. QED
    BY <1>2, <2>1, <2>5
<1>6. CASE partial = EvaluateSessionWith(call, s, Unknown)
  <2>. DEFINE some == Matching(their, tool, {}, {})
              unresolved == Grouping(their, tool)
  <2>1. partial = Unless(call, SessionFound(unresolved, some, "subject_pending"))
    <3>1. partial = Unless(call, SessionWalk(their, tool, s, Unknown))
      BY <1>1, <1>6, EvaluatedInSession DEF Unknown, their, tool
    <3>2. Unknown.known = FALSE /\ Unknown.groups = {} /\ Unknown.roles = {}
      BY DEF Unknown
    <3>. QED
      BY <1>1, <3>1, <3>2, SessionWalkOfSomeone
  <2>2. unresolved \subseteq Nat /\ some \subseteq Nat
    BY <1>4 DEF Grouping, Matching
  <2>3. all \subseteq some \cup unresolved /\ some \subseteq all \cup unresolved
    BY GrouplessMatch
  <2>. HIDE DEF some, unresolved, all
  <2>0. Differ(unresolved, some, all)
    BY <2>2, <2>3 DEF Differ
  <2>4. Refusal(WithAgent(call)) = "ok"
        /\ Allowed(SessionFound(unresolved, some, "subject_pending"))
    BY <2>1 DEF Unless, Allowed, Deny
  <2>5. SessionFound({}, all, "subject_pending") = SessionFound(unresolved, some, "subject_pending")
    BY <2>0, <2>4, MoreIsKnown
  <2>. QED
    BY <1>2, <2>1, <2>5
<1>. QED
  BY <1>5, <1>6

\* What is not known never helps, whoever is linked and whatever is known then.
THEOREM IgnoranceHelpsNoOne == Spec => []IgnoranceNeverHelps
<1>1. TypeOK => IgnoranceNeverHelps
  <2>. SUFFICES ASSUME TypeOK, NEW call \in Calls, NEW s \in Linked, NEW m \in Memberships,
                       NEW partial \in {EvaluateSession(call, Nothing),
                                        EvaluateSessionWith(call, s, Unknown)},
                       Allowed(partial)
       PROVE  EvaluateSessionWith(call, s, m) = partial
    BY DEF IgnoranceNeverHelps
  <2>1. IsCall(call)
    BY CallsAssumption DEF IsCall, CallOf
  <2>2. m.known = TRUE /\ m.granted = TRUE
    BY DEF Memberships
  <2>. QED
    BY <2>1, <2>2, KnowingKeeps
<1>. QED
  BY <1>1, TypeCorrect, PTL

-----------------------------------------------------------------------------
\* A call or a route without a person.
LEMMA NoOneActs ==
    ASSUME NEW c, IsCall(c), Inputs(c) = {}
    PROVE  /\ c.user = NoOne /\ c.email = NoOne
           /\ Acting(c, NoOne, NoOne) = c /\ Anonymous(c) = c
           /\ WithAgent(c).user = NoOne /\ WithAgent(c).email = NoOne
           /\ Inputs(WithAgent(c)) = {}
           /\ Asked(c).user = NoOne /\ Asked(c).email = NoOne /\ Inputs(Asked(c)) = {}
<1>1. c.user = NoOne /\ c.email = NoOne
  BY DEF Inputs
<1>2. Acting(c, NoOne, NoOne) = c
  BY <1>1, ActingAgain
<1>3. WithAgent(c).user = NoOne /\ WithAgent(c).email = NoOne
  BY <1>1, CompletedCall
<1>4. Asked(c).user = NoOne /\ Asked(c).email = NoOne
  BY <1>3, AskedCall, CompletedCall DEF Asked
<1>. QED
  BY <1>1, <1>2, <1>3, <1>4 DEF Inputs, Anonymous, Acting

\* What the runtime's own operations are answered: a refusal, or a walk.
Routed(call, outcome) ==
    IF call.action # "model:invoke" THEN Deny("tool_not_registered")
    ELSE IF call.agent \notin Agents \cup {Nothing} THEN Deny("agent_not_assigned")
    ELSE outcome

LEMMA EvaluatedRoute ==
    ASSUME NEW c, IsCall(c), Inputs(c) = {}
    PROVE  /\ IsCall(WithAgent(c)) /\ Inputs(WithAgent(c)) = {}
           /\ \A s : EvaluateAction(c, s) =
                         Routed(WithAgent(c), EvaluatePolicies(WithAgent(c), NoTool, s))
BY CompletedCall, NoOneActs DEF EvaluateAction, Routed

\* What a call without a person is answered: the walk for no one, the walk
\* for one who is approved, and the refusal of another.
LEMMA PoliciesEvaluated ==
    ASSUME NEW call, IsCall(call), Inputs(call) = {}, NEW tool
    PROVE  /\ EvaluatePolicies(call, tool, Nothing) = Walk(call, tool, Nothing)
           /\ \A s \in OnlineSubjects :
                  EvaluatePolicies(call, tool, s) =
                      IF s \in Approved THEN Walk(Acting(call, s.user, NoOne), tool, s)
                      ELSE NotApproved(s)
<1>1. EvaluatePolicies(call, tool, Nothing) = Walk(call, tool, Nothing)
  BY DEF EvaluatePolicies
<1>2. ASSUME NEW s \in OnlineSubjects
      PROVE  EvaluatePolicies(call, tool, s) =
                 IF s \in Approved THEN Walk(Acting(call, s.user, NoOne), tool, s)
                 ELSE NotApproved(s)
  <2>1. s # Nothing /\ (s \in Approved <=> s.status = "linked_approved")
    BY SomeoneAssumption DEF Approved
  <2>2. call.user = NoOne /\ Acting(call, NoOne, NoOne) = call
    BY NoOneActs
  <2>3. As(call, s.user) = Acting(call, s.user, NoOne)
    BY <2>2, ActingAgain
  <2>. QED
    BY <2>1, <2>2, <2>3 DEF EvaluatePolicies, As
<1>. QED
  BY <1>1, <1>2

\* A call without a person, for one who is approved.
LEMMA EvaluatedForSomeone ==
    ASSUME NEW c, IsCall(c), Inputs(c) = {}, NEW s \in Approved
    PROVE  EvaluateCall(c, s) = Unless(c, Walk(Acting(Asked(c), s.user, NoOne), Tool(c), s))
<1>1. IsCall(Asked(c)) /\ Inputs(Asked(c)) = {}
  BY AskedCall, NoOneActs
<1>2. EvaluatePolicies(Asked(c), Tool(c), s) = Walk(Acting(Asked(c), s.user, NoOne), Tool(c), s)
  BY <1>1, PoliciesEvaluated DEF Approved
<1>. QED
  BY <1>2, CallEvaluated

-----------------------------------------------------------------------------
\* Under deny_overrides a matching deny is what the walk finds.
LEMMA DenyIsFound ==
    ASSUME TypeOK, order = "deny_overrides", NEW call, IsCall(call), NEW tool, NEW user,
           NEW s, s # Nothing,
           DeniedBySome(call, tool, user, NoOne, s.groups, s.roles)
    PROVE  ~Allowed(Walk(Acting(call, user, NoOne), tool, s))
<1>. DEFINE their == Acting(call, user, NoOne)
            matching == Matching(their, tool, s.groups, s.roles)
<1>1. PICK i \in Reached(call, tool) :
          policies[i].action = "deny" /\ SrcMatch(policies[i].src, their, s.groups, s.roles)
  BY DEF DeniedBySome, Acting
<1>2. Reached(their, tool) = Reached(call, tool)
  BY ActingReached
<1>. HIDE DEF their
<1>3. i \in Ending(matching)
  BY <1>1, <1>2 DEF Ending, Matching
<1>4. Ending(matching) \subseteq Nat
  BY ReachedNat DEF Ending, Matching
<1>5. First(Ending(matching)) \in Ending(matching)
  BY <1>3, <1>4, FirstIsLeast
<1>6. policies[First(Ending(matching))].action = "deny"
  BY <1>5 DEF Ending
<1>7. Walk(their, tool, s) = Found(matching)
  BY WalkOfSomeone
<1>8. ~Allowed(Walk(their, tool, s))
  BY <1>3, <1>6, <1>7 DEF Found, By, Allowed
<1>. QED
  BY <1>8 DEF their

\* Online, a bundle that declares deny_overrides gets it.
THEOREM DenyOverridesOnline == Spec => []OnlineDenyOverrides
<1>1. TypeOK => OnlineDenyOverrides
  <2>. SUFFICES ASSUME TypeOK, order = "deny_overrides", NEW s \in Approved
       PROVE  /\ \A call \in Calls :
                     Inputs(call) = {} /\ Refusal(WithAgent(call)) = "ok"
                     /\ DeniedBySome(Asked(call), Tool(call), s.user, NoOne, s.groups, s.roles)
                         => ~Allowed(EvaluateCall(call, s))
              /\ \A route \in Routes :
                     DeniedBySome(WithAgent(route), NoTool, s.user, NoOne, s.groups, s.roles)
                         => ~Allowed(EvaluateAction(route, s))
    BY DEF OnlineDenyOverrides, Asked, Tool
  <2>1. s # Nothing
    BY SomeoneAssumption DEF Approved
  <2>2. ASSUME NEW call \in Calls, Inputs(call) = {}, Refusal(WithAgent(call)) = "ok",
               DeniedBySome(Asked(call), Tool(call), s.user, NoOne, s.groups, s.roles)
        PROVE  ~Allowed(EvaluateCall(call, s))
    <3>1. IsCall(call) /\ IsCall(Asked(call))
      BY CallsAssumption, AskedCall DEF IsCall, CallOf
    <3>2. ~Allowed(Walk(Acting(Asked(call), s.user, NoOne), Tool(call), s))
      BY <2>1, <2>2, <3>1, DenyIsFound
    <3>. QED
      BY <2>2, <3>1, <3>2, EvaluatedForSomeone DEF Unless
  <2>3. ASSUME NEW route \in Routes,
               DeniedBySome(WithAgent(route), NoTool, s.user, NoOne, s.groups, s.roles)
        PROVE  ~Allowed(EvaluateAction(route, s))
    <3>1. IsCall(route) /\ Inputs(route) = {} /\ IsCall(WithAgent(route))
      BY CallsAssumption, AskedCall DEF IsCall, CallOf
    <3>2. ~Allowed(Walk(Acting(WithAgent(route), s.user, NoOne), NoTool, s))
      BY <2>1, <2>3, <3>1, DenyIsFound
    <3>3. EvaluatePolicies(WithAgent(route), NoTool, s)
              = Walk(Acting(WithAgent(route), s.user, NoOne), NoTool, s)
      BY <3>1, EvaluatedRoute, PoliciesEvaluated DEF Approved
    <3>. QED
      BY <3>1, <3>2, <3>3, EvaluatedRoute DEF Routed, Allowed, Deny
  <2>. QED
    BY <2>2, <2>3
<1>. QED
  BY <1>1, TypeCorrect, PTL

-----------------------------------------------------------------------------
\* What the online walk answers without a subject.
FoundForNoOne(naming, some) ==
    LET ends == naming \cup Ending(some)
    IN IF ends # {} THEN IF First(ends) \in naming
                         THEN Deny("subject_resolution_unavailable")
                         ELSE By(policies[First(ends)])
       ELSE IF some # {} THEN By(policies[First(some)])
       ELSE Deny("no_matching_policy")

\* If that is an answer at all, it is the answer with any subject.
LEMMA FinalForNoOne ==
    ASSUME NEW naming, NEW some, NEW all, Differ(naming, some, all),
           FoundForNoOne(naming, some) # Deny("subject_resolution_unavailable")
    PROVE  Found(all) = FoundForNoOne(naming, some)
<1>. DEFINE ends == naming \cup Ending(some)
            f == First(ends)
<1>1. ends \subseteq Nat /\ Ending(all) \subseteq ends /\ Ending(some) \subseteq ends
  BY DEF Differ, Ending
<1>2. CASE ends # {}
  <2>1. f \notin naming /\ FoundForNoOne(naming, some) = By(policies[f])
    BY <1>2 DEF FoundForNoOne
  <2>2. f \in ends
    BY <1>1, <1>2, FirstIsLeast
  <2>3. f \in Ending(all)
    BY <2>1, <2>2 DEF Differ, Ending
  <2>4. First(Ending(all)) = f
    BY <1>1, <1>2, <2>3, FirstOfSubset
  <2>. QED
    BY <2>1, <2>3, <2>4 DEF Found
<1>3. CASE ends = {}
  <2>1. naming = {} /\ Ending(some) = {} /\ Ending(all) = {}
    BY <1>1, <1>3
  <2>2. all = some
    BY <2>1 DEF Differ
  <2>. QED
    BY <1>3, <2>1, <2>2 DEF Found, FoundForNoOne
<1>. QED
  BY <1>2, <1>3

LEMMA WalkIsFinal ==
    ASSUME TypeOK, NEW call, IsCall(call), Inputs(call) = {}, NEW tool, NEW user,
           NEW s, s # Nothing,
           Walk(call, tool, Nothing) # Deny("subject_resolution_unavailable")
    PROVE  Walk(Acting(call, user, NoOne), tool, s) = Walk(call, tool, Nothing)
<1>. DEFINE their == Acting(call, user, NoOne)
            naming == Naming(call, tool)
            some == Matching(call, tool, {}, {})
            all == Matching(their, tool, s.groups, s.roles)
<1>1. Reached(their, tool) = Reached(call, tool) /\ their.agent = call.agent
  BY ActingReached, ActingAgain
<1>2. Walk(call, tool, Nothing) = FoundForNoOne(naming, some)
  BY WalkOfNoOne DEF FoundForNoOne
<1>3. Walk(their, tool, s) = Found(all)
  BY WalkOfSomeone
<1>. HIDE DEF their
<1>4. naming \subseteq Nat /\ some \subseteq Nat /\ Naming(their, tool) = naming
  BY <1>1, ReachedNat DEF Naming, Matching
<1>5. all \subseteq some \cup naming
  BY <1>1, NamelessMatch
<1>6. some \subseteq all \cup Naming(their, tool)
  BY <1>1, NamelessMatch
<1>. HIDE DEF naming, some, all
<1>7. Differ(naming, some, all)
  BY <1>4, <1>5, <1>6 DEF Differ
<1>8. Found(all) = FoundForNoOne(naming, some)
  BY <1>2, <1>7, FinalForNoOne
<1>. QED
  BY <1>2, <1>3, <1>8 DEF their

LEMMA PoliciesFinal ==
    ASSUME TypeOK, NEW call, IsCall(call), Inputs(call) = {}, NEW tool, NEW s \in OnlineSubjects,
           EvaluatePolicies(call, tool, Nothing) # Deny("subject_resolution_unavailable")
    PROVE  Same(EvaluatePolicies(call, tool, Nothing), EvaluatePolicies(call, tool, s), s)
<1>1. s # Nothing
  BY SomeoneAssumption
<1>2. EvaluatePolicies(call, tool, Nothing) = Walk(call, tool, Nothing)
  BY PoliciesEvaluated
<1>3. CASE s \in Approved
  <2>1. EvaluatePolicies(call, tool, s) = Walk(Acting(call, s.user, NoOne), tool, s)
    BY <1>3, PoliciesEvaluated
  <2>2. Walk(Acting(call, s.user, NoOne), tool, s) = Walk(call, tool, Nothing)
    BY <1>1, <1>2, WalkIsFinal
  <2>. QED
    BY <1>2, <2>1, <2>2 DEF Same
<1>4. CASE s \notin Approved
  BY <1>4, PoliciesEvaluated DEF Same
<1>. QED
  BY <1>3, <1>4

\* A decision that Evaluate reaches without a person is the one it would reach
\* with any, or the refusal that the person's status gives.
THEOREM FinalWithoutSubject == Spec => []SubjectFreeIsFinal
<1>1. TypeOK => SubjectFreeIsFinal
  <2>. SUFFICES ASSUME TypeOK, NEW s \in OnlineSubjects
       PROVE  /\ \A call \in Calls :
                     Inputs(call) = {} /\ ~SubjectRequired(call)
                         => Same(Evaluate(call, Nothing), Evaluate(call, s), s)
              /\ \A route \in Routes :
                     EvaluateAction(route, Nothing) # Deny("subject_resolution_unavailable")
                         => Same(EvaluateAction(route, Nothing), EvaluateAction(route, s), s)
    BY DEF SubjectFreeIsFinal
  <2>1. ASSUME NEW c \in Calls, Inputs(c) = {}, ~SubjectRequired(c)
        PROVE  Same(Evaluate(c, Nothing), Evaluate(c, s), s)
    <3>. DEFINE call == WithAgent(c)
                named == ToolsNamed(call)
                tool == Tools[First(named)]
                done == Completed(call, tool)
                refusal == RefusalOf(call, named)
    <3>1. IsCall(c) /\ Anonymous(c) = c
      BY <2>1, CallsAssumption, NoOneActs DEF IsCall, CallOf
    <3>2. IsCall(call) /\ Inputs(call) = {} /\ IsCall(done)
      BY <2>1, <3>1, CompletedCall, NoOneActs
    <3>3. Inputs(done) = {}
      BY <3>2, CompletedCall DEF Inputs
    <3>4. \A subject : Evaluate(c, subject) =
              IF refusal # "ok" THEN Deny(refusal) ELSE EvaluatePolicies(done, tool, subject)
      BY DEF Evaluate, EvaluateRegistered
    <3>5. Evaluate(c, Nothing) # Deny("subject_resolution_unavailable")
      BY <2>1, <3>1 DEF SubjectRequired
    <3>. HIDE DEF call, named, tool, done, refusal
    <3>6. CASE refusal # "ok"
      BY <3>4, <3>6 DEF Same
    <3>7. CASE refusal = "ok"
      <4>1. Same(EvaluatePolicies(done, tool, Nothing), EvaluatePolicies(done, tool, s), s)
        BY <3>2, <3>3, <3>4, <3>5, <3>7, PoliciesFinal
      <4>. QED
        BY <3>4, <3>7, <4>1
    <3>. QED
      BY <3>6, <3>7
  <2>2. ASSUME NEW route \in Routes,
               EvaluateAction(route, Nothing) # Deny("subject_resolution_unavailable")
        PROVE  Same(EvaluateAction(route, Nothing), EvaluateAction(route, s), s)
    <3>. DEFINE call == WithAgent(route)
    <3>1. IsCall(route) /\ Inputs(route) = {}
      BY CallsAssumption DEF IsCall, CallOf
    <3>2. /\ IsCall(call) /\ Inputs(call) = {}
          /\ \A subject : EvaluateAction(route, subject) =
                               Routed(call, EvaluatePolicies(call, NoTool, subject))
      BY <3>1, EvaluatedRoute
    <3>. HIDE DEF call
    <3>3. CASE EvaluatePolicies(call, NoTool, Nothing) # Deny("subject_resolution_unavailable")
      <4>1. Same(EvaluatePolicies(call, NoTool, Nothing), EvaluatePolicies(call, NoTool, s), s)
        BY <3>2, <3>3, PoliciesFinal
      <4>. QED
        BY <3>2, <4>1 DEF Routed, Same
    <3>4. CASE EvaluatePolicies(call, NoTool, Nothing) = Deny("subject_resolution_unavailable")
      BY <2>2, <3>2, <3>4 DEF Routed, Same
    <3>. QED
      BY <3>3, <3>4
  <2>. QED
    BY <2>1, <2>2
<1>. QED
  BY <1>1, TypeCorrect, PTL

-----------------------------------------------------------------------------
\* The session's decision is one of the policies and what is known of the
\* person: while the policies stay, the same knowledge gives the same decision.
LEMMA SamePolicies ==
    ASSUME policies' = policies, NEW call, NEW subject, NEW m
    PROVE  EvaluateSessionWith(call, subject, m)' = EvaluateSessionWith(call, subject, m)
<1>1. \A c, tool : Reached(c, tool)' = Reached(c, tool)
  BY DEF Reached
<1>2. ASSUME NEW c, NEW tool, NEW s, NEW w
      PROVE  SessionWalk(c, tool, s, w)' = SessionWalk(c, tool, s, w)
  <2>. DEFINE unresolved == {i \in Reached(c, tool) :
                                /\ RequiresSubject(policies[i].src)
                                /\ \/ s = Nothing
                                   \/ NeedsMemberships(policies[i].src) /\ ~w.known}
              ends == unresolved \cup {i \in Reached(c, tool) :
                          SrcMatch(policies[i].src, c, w.groups, w.roles)}
              Answer(open, all) ==
                  IF all = {} THEN Deny("no_matching_policy")
                  ELSE IF First(all) \notin open THEN By(policies[First(all)])
                  ELSE IF s = Nothing THEN Deny("subject_unlinked") ELSE Deny("subject_pending")
  <2>1. unresolved' = unresolved /\ ends' = ends
    BY <1>1
  <2>2. SessionWalk(c, tool, s, w) = Answer(unresolved, ends)
    BY DEF SessionWalk
  <2>3. SessionWalk(c, tool, s, w)' = Answer(unresolved, ends)'
    BY DEF SessionWalk
  <2>. HIDE DEF unresolved, ends
  <2>4. Answer(unresolved, ends)' = Answer(unresolved, ends)
    BY <2>1
  <2>. QED
    BY <2>2, <2>3, <2>4
<1>. QED
  BY <1>2, Zenon DEF EvaluateSessionWith

\* When only time passes, what is known of a person stays or is lost.
LEMMA TimeForgets ==
    ASSUME TypeOK, Tick, NEW user
    PROVE  Lookup(user)' \in {Lookup(user), Unknown}
<1>. DEFINE mine == {i \in DOMAIN rows : rows[i].user = user}
<1>1. rows' = rows /\ now \in Nat /\ now' = now + 1
  BY BoundsAssumption DEF Tick, TypeOK
<1>2. ASSUME mine # {}, Expired(rows[First(mine)]) PROVE Expired(rows[First(mine)])'
  <2>1. mine \subseteq Nat /\ mine \subseteq 1..Len(rows)
    BY LenProperties DEF TypeOK
  <2>2. rows[First(mine)] \in RowPool
    BY <1>2, <2>1, FirstIsLeast, ElementOfSeq DEF TypeOK
  <2>. DEFINE row == rows[First(mine)]
  <2>3. row' = row /\ row.expire # Nothing /\ now >= row.expire
    BY <1>1, <1>2 DEF Expired
  <2>4. row.expire \in Nat
    BY <2>2, <2>3, RowsAssumption
  <2>. HIDE DEF row
  <2>5. now' >= row.expire
    BY <1>1, <2>3, <2>4
  <2>. QED
    BY <2>3, <2>5 DEF Expired, row
<1>. QED
  BY <1>1, <1>2 DEF Lookup, Unknown

\* Time alone gives no one access, but for the end of a row that revokes.
THEOREM TimeGrantsNothing == Spec => ClockNeverGrants
<1>. DEFINE Step == now' # now =>
                \A call \in Calls, s \in Linked :
                    Allowed(EvaluateSession(call, s))' =>
                        \/ Allowed(EvaluateSession(call, s))
                        \/ Lookup(s.user).known /\ ~Lookup(s.user).granted
<1>1. TypeOK /\ [Next]_vars => [Step]_vars
  <2>. SUFFICES ASSUME TypeOK, Next, now' # now, NEW call \in Calls, NEW s \in Linked,
                       Allowed(EvaluateSession(call, s))',
                       ~(Lookup(s.user).known /\ ~Lookup(s.user).granted)
                PROVE  Allowed(EvaluateSession(call, s))
    OBVIOUS
  <2>1. Tick
    BY DEF Next, AddPolicy, RemovePolicy, SetOrder, AddRow, RemoveRow
  <2>2. policies' = policies
    BY <2>1 DEF Tick
  <2>3. IsCall(call) /\ s # Nothing
    BY CallsAssumption, SomeoneAssumption DEF IsCall, CallOf, Linked
  <2>4. PICK then : Lookup(s.user)' = then
    OBVIOUS
  <2>5. PICK first : Lookup(s.user) = first
    OBVIOUS
  <2>6. then \in {first, Unknown}
    BY <2>1, <2>4, <2>5, TimeForgets
  <2>7. EvaluateSession(call, s)' = EvaluateSessionWith(call, s, then)'
    BY <2>3, <2>4 DEF EvaluateSession
  <2>8. EvaluateSession(call, s) = EvaluateSessionWith(call, s, first)
    BY <2>3, <2>5 DEF EvaluateSession
  <2>9. EvaluateSessionWith(call, s, then)' = EvaluateSessionWith(call, s, then)
    BY <2>2, SamePolicies
  <2>10. Allowed(EvaluateSessionWith(call, s, then))
    BY <2>7, <2>9 DEF Allowed
  <2>11. CASE then = first
    BY <2>8, <2>10, <2>11
  <2>12. CASE then = Unknown /\ first # Unknown
    <3>1. PICK row \in RowPool :
              first = [groups |-> row.groups, roles |-> row.roles,
                       granted |-> row.status = "linked", known |-> TRUE]
      BY <2>5, <2>12, KnownFromRow
    <3>2. first.known = TRUE /\ first.granted = TRUE
      BY <2>5, <3>1
    <3>3. EvaluateSessionWith(call, s, first) = EvaluateSessionWith(call, s, Unknown)
      BY <2>3, <2>10, <2>12, <3>2, KnowingKeeps
    <3>. QED
      BY <2>8, <2>10, <2>12, <3>3
  <2>. QED
    BY <2>6, <2>11, <2>12
<1>2. [][Step]_vars <=> ClockNeverGrants
  BY PTL DEF ClockNeverGrants
<1>. QED
  BY <1>1, <1>2, TypeCorrect, PTL DEF Spec
=============================================================================
