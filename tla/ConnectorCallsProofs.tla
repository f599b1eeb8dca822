------------------------ MODULE ConnectorCallsProofs ------------------------
(***************************************************************************)
(* Proofs about ConnectorCalls for any connector, any requests and any     *)
(* number of calls: the two gates agree, no write passes as a read, the    *)
(* account a call uses is the caller's or the connector's own, and writes  *)
(* under idempotency keys implement WriteOnce.                             *)
(***************************************************************************)
EXTENDS ConnectorCalls, TLAPS

\* What the control plane is shown of an HTTP call.
Unseen(in) == [in EXCEPT !.http = Nothing]

\* Taking the HTTP request out leaves the other fields.
LEMMA UnseenFields ==
    ASSUME NEW in, DOMAIN in = InvocationFields
    PROVE  /\ Unseen(in).place = in.place /\ Unseen(in).subject = in.subject
           /\ Unseen(in).capability = in.capability /\ Unseen(in).action = in.action
           /\ Unseen(in).resource = in.resource /\ Unseen(in).key = in.key
           /\ Unseen(in).trace = in.trace /\ Unseen(in).http = Nothing
BY DEF Unseen, InvocationFields

\* A declared capability has an action that the contract knows.
LEMMA DeclaredAction ==
    ASSUME NEW m, NEW in, Validate(m), Declares(m, in)
    PROVE  /\ in.action \in Actions
           /\ <<in.capability, in.action>> \in Range(m.capabilities)
<1>1. PICK i \in DOMAIN m.capabilities : m.capabilities[i] = <<in.capability, in.action>>
  BY DEF Declares
<1>2. <<in.capability, in.action>> \in Range(m.capabilities)
  BY <1>1 DEF Range
<1>3. <<in.capability, in.action>>[2] \in Actions
  BY <1>2 DEF Validate
<1>. QED
  BY <1>2, <1>3

\* What the runtime would execute, the control plane allows without seeing
\* the request, when the request is for the resource.
LEMMA GuardImpliesDecide ==
    ASSUME NEW m, NEW in, DOMAIN in = InvocationFields, Guard(m, in), WellFormed(in.key),
           in.http # Nothing => in.http.path = in.resource
    PROVE  Decide(m, Unseen(in)) = "allow"
<1>1. Validate(m) /\ CallScope(m, in) /\ Declares(m, in)
  BY DEF Guard, ValidateCall, CallBoundary
<1>. DEFINE un == Unseen(in)
<1>2. /\ un.place = in.place /\ un.subject = in.subject /\ un.capability = in.capability
      /\ un.action = in.action /\ un.resource = in.resource /\ un.key = in.key
      /\ un.trace = in.trace /\ un.http = Nothing
  BY UnseenFields
<1>. HIDE DEF un
<1>3. CallScope(m, un)
  BY <1>1, <1>2 DEF CallScope
<1>4. Declares(m, un)
  BY <1>1, <1>2 DEF Declares
<1>5. ValidateInvocation(un)
  BY <1>1, <1>2, DeclaredAction DEF ValidateInvocation, CallScope
<1>6. CallBoundary(m, un)
  BY <1>2, <1>3, <1>4 DEF CallBoundary
<1>7. ASSUME m.provider = "http_api"
      PROVE  \E method \in HTTPCapabilityMethod(un.capability) :
                 ValidateTarget(m.http, method, un.resource, {})
  <2>1. in.http # Nothing /\ in.http.path = un.resource
    BY <1>2, <1>7 DEF Guard, ValidateCall
  <2>2. /\ in.http.method \in HTTPCapabilityMethod(un.capability)
        /\ ValidateTarget(m.http, in.http.method, in.http.path, in.http.query)
    BY <1>2, <1>7, <2>1 DEF Guard, ValidateCall, CallBoundary, ValidateHTTPInvocation
  <2>3. ValidateTarget(m.http, in.http.method, un.resource, {})
    BY <2>1, <2>2 DEF ValidateTarget
  <2>. QED
    BY <2>2, <2>3
<1>8. AuthorizeCall(m, un)
  BY <1>1, <1>3, <1>6, <1>7 DEF AuthorizeCall
<1>9. m.status = "active" /\ un.place = m.place
  BY <1>3 DEF CallScope
<1>10. Decide(m, un) = "allow"
  BY <1>1, <1>5, <1>8, <1>9 DEF Decide
<1>. QED
  BY <1>10 DEF un

\* The metadata come from the pool, so their provider has requests.
LEMMA MetaFromPool == Spec => [](meta \in MetaPool)
<1>1. Init => meta \in MetaPool
  BY DEF Init
<1>2. meta \in MetaPool /\ [Next]_vars => (meta \in MetaPool)'
  BY DEF Next, vars, Configure, Govern, Client, Invoke, Refuse, Read, FindTeam, Created,
         NotCreated, Confirm, Unconfirmed, Serve, Drop
<1>. QED
  BY <1>1, <1>2, PTL DEF Spec

\* In every reachable state, whatever the runtime would execute under the
\* metadata of the moment, the control plane would allow.
THEOREM GatesAgree == Spec => []ExecutableIsAuthorized
<1>1. meta \in MetaPool => ExecutableIsAuthorized
  <2>. SUFFICES ASSUME meta \in MetaPool, NEW r \in Requests[meta.provider],
                       Guard(meta, r.in), WellFormed(r.in.key),
                       r.in.http # Nothing => r.in.http.path = r.in.resource
                PROVE  Decide(meta, [r.in EXCEPT !.http = Nothing]) = "allow"
    BY DEF ExecutableIsAuthorized
  <2>1. DOMAIN r.in = InvocationFields
    BY RequestsAssumption DEF AnyRequest
  <2>2. Decide(meta, Unseen(r.in)) = "allow"
    BY <2>1, GuardImpliesDecide
  <2>. QED
    BY <2>2 DEF Unseen
<1>. QED
  BY <1>1, MetaFromPool, PTL

-----------------------------------------------------------------------------
\* A connector acts as the caller or as itself, never as somebody else
\* (contract.go 452).
THEOREM ActsForTheCaller ==
    ASSUME NEW m, NEW in, Guard(m, in)
    PROVE  CredentialSubject(m, in) \in {in.subject, SharedSubject(m.place)}
BY DEF Guard, ValidateCall, CallBoundary, CallScope, CredentialSubject

-----------------------------------------------------------------------------
\* What is known of one call: its stage, its request, and the request's
\* record in the audit.
Stages == {"idle", "allowed", "denied", "read", "team", "sent", "confirm", "done", "failed"}
Records == {BuildAuditRecord(r.in, d) : r \in AnyRequest, d \in {"allow", "deny"}}
Made == {[id |-> LinearWriteID(r.in), request |-> r] : r \in WriteRequests}

Call == [stage : Stages, request : AnyRequest \cup {Nothing}, post : {"none", "wire", "made", "gone"},
         decision : Records \cup {Nothing}, answer : Made \cup {Nothing}]

TypeOK ==
    /\ calls \in [Calls -> Call]
    /\ linear \subseteq Made
    /\ meta \in MetaPool

\* A call that has left idle has a request; one that has been allowed and not
\* refused has a record that says so; one at a write is a write; an answer ends
\* its call.
Asked(c) == ~At(c, "idle") => calls[c].request \in AnyRequest
Decided(c) ==
    \/ ~At(c, "idle") /\ calls[c].decision.decision = "allow"
    \/ calls[c].stage \in {"idle", "denied"} /\ calls[c].post = "none" /\ calls[c].answer = Nothing
Writing(c) ==
    calls[c].stage \in {"team", "sent", "confirm"} \/ calls[c].post # "none" \/ calls[c].answer # Nothing
        => IsWrite(In(c))
Told(c) ==
    calls[c].answer # Nothing =>
        At(c, "done") /\ calls[c].answer \in linear /\ calls[c].answer.id = LinearWriteID(In(c))

CallInv == \A c \in Calls : Asked(c) /\ Decided(c) /\ Writing(c) /\ Told(c)

\* An answered call is a call, and the others stay as they are.
LEMMA AnswerCall ==
    ASSUME TypeOK, NEW c \in Calls, NEW e \in Made
    PROVE  /\ Answer(c, e) \in [Calls -> Call]
           /\ Answer(c, e)[c].stage = "done" /\ Answer(c, e)[c].answer = e
           /\ Answer(c, e)[c].request = calls[c].request
           /\ Answer(c, e)[c].decision = calls[c].decision
           /\ Answer(c, e)[c].post = calls[c].post
           /\ \A d \in Calls : d # c => Answer(c, e)[d] = calls[d]
<1>. DEFINE call == [calls[c] EXCEPT !.stage = "done", !.answer = e]
<1>1. calls[c] \in Call
  BY DEF TypeOK
<1>2. call \in Call
  BY <1>1 DEF Call, Stages
<1>3. Answer(c, e) = [calls EXCEPT ![c] = call]
  BY DEF Answer, TypeOK
<1>. HIDE DEF call
<1>4. Answer(c, e) \in [Calls -> Call] /\ Answer(c, e)[c] = call
  BY <1>2, <1>3 DEF TypeOK
<1>5. \A d \in Calls : d # c => Answer(c, e)[d] = calls[d]
  BY <1>3 DEF TypeOK
<1>6. /\ call.stage = "done" /\ call.answer = e /\ call.request = calls[c].request
      /\ call.decision = calls[c].decision /\ call.post = calls[c].post
  BY <1>1 DEF call, Call
<1>. QED
  BY <1>4, <1>5, <1>6

\* Every step keeps the types.
LEMMA TypeStep == TypeOK /\ CallInv /\ [Next]_vars => TypeOK'
<1>. SUFFICES ASSUME TypeOK, CallInv, [Next]_vars PROVE TypeOK'
  OBVIOUS
<1>. USE DEF TypeOK, Call
<1>1. CASE \E m \in MetaPool : Configure(m)
  BY <1>1 DEF Configure
<1>2. CASE \E c \in Calls, r \in Requests[meta.provider] : Govern(c, r)
  <2>1. PICK c \in Calls, r \in Requests[meta.provider] : Govern(c, r)
    BY <1>2
  <2>2. r \in AnyRequest
    BY RequestsAssumption DEF AnyRequest
  <2>. DEFINE record == BuildAuditRecord(r.in, Decide(meta, r.in))
  <2>3. record \in Records
    BY <2>2 DEF Records, Decide
  <2>. HIDE DEF record
  <2>. QED
    BY <2>1, <2>2, <2>3 DEF Govern, NoCall, Stages, record
<1>3. CASE \E c \in Calls : Client(c)
  <2>1. PICK c \in Calls : Client(c)
    BY <1>3
  <2>2. CASE Invoke(c)
    <3>1. calls' = Goto(c, "read") \/ calls' = Goto(c, "team") \/ calls' = Post(c)
      BY <2>2 DEF Invoke
    <3>2. UNCHANGED <<meta, linear>>
      BY <2>2 DEF Invoke
    <3>. QED
      BY <3>1, <3>2 DEF Goto, Post, Stages
  <2>3. CASE Refuse(c)
    BY <2>3 DEF Refuse, Goto, Stages
  <2>4. CASE Read(c)
    BY <2>4 DEF Read, Goto, Stages
  <2>5. CASE FindTeam(c)
    BY <2>5 DEF FindTeam, Goto, Post, Stages
  <2>6. CASE Created(c)
    <3>1. CASE calls' = Goto(c, "failed")
      BY <2>6, <3>1 DEF Created, Goto, Stages
    <3>2. CASE \E e \in linear : calls' = Answer(c, e)
      <4>1. PICK e \in linear : calls' = Answer(c, e)
        BY <3>2
      <4>2. e \in Made
        OBVIOUS
      <4>. QED
        BY <2>6, <4>1, <4>2, AnswerCall DEF Created
    <3>. QED
      BY <2>6, <3>1, <3>2 DEF Created, Existing
  <2>7. CASE NotCreated(c)
    BY <2>7 DEF NotCreated, Goto, Stages
  <2>8. CASE Confirm(c)
    <3>1. PICK e \in linear : calls' = Answer(c, e)
      BY <2>8 DEF Confirm, Existing
    <3>2. e \in Made
      OBVIOUS
    <3>. QED
      BY <2>8, <3>1, <3>2, AnswerCall DEF Confirm
  <2>9. CASE Unconfirmed(c)
    BY <2>9 DEF Unconfirmed, Goto, Stages
  <2>. QED
    BY <2>1, <2>2, <2>3, <2>4, <2>5, <2>6, <2>7, <2>8, <2>9 DEF Client
<1>4. CASE \E c \in Calls : Serve(c)
  <2>1. PICK c \in Calls : Serve(c)
    BY <1>4
  <2>2. calls[c].request \in WriteRequests
    BY <2>1 DEF Serve, CallInv, Asked, Decided, Writing, At, In, WriteRequests
  <2>3. [id |-> LinearWriteID(In(c)), request |-> calls[c].request] \in Made
    BY <2>2 DEF Made, In
  <2>. QED
    BY <2>1, <2>3 DEF Serve
<1>5. CASE \E c \in Calls : Drop(c)
  BY <1>5 DEF Drop
<1>6. CASE UNCHANGED vars
  BY <1>6 DEF vars
<1>. QED
  BY <1>1, <1>2, <1>3, <1>4, <1>5, <1>6 DEF Next

\* An answer is an entity of the call's own id.
LEMMA AnswerStep ==
    ASSUME TypeOK, CallInv, NEW c \in Calls,
           calls[c].stage \in {"sent", "confirm"}, linear' = linear,
           \E e \in Existing(LinearWriteID(In(c))) : calls' = Answer(c, e)
    PROVE  \A d \in Calls : (Asked(d) /\ Decided(d) /\ Writing(d) /\ Told(d))'
<1>. SUFFICES ASSUME NEW d \in Calls PROVE (Asked(d) /\ Decided(d) /\ Writing(d) /\ Told(d))'
  OBVIOUS
<1>0. /\ Asked(c) /\ Decided(c) /\ Writing(c)
      /\ Asked(d) /\ Decided(d) /\ Writing(d) /\ Told(d)
  BY DEF CallInv
<1>1. PICK e \in linear : e.id = LinearWriteID(In(c)) /\ calls' = Answer(c, e)
  BY DEF Existing
<1>2. e \in Made /\ calls[c] \in Call
  BY DEF TypeOK
<1>3. /\ calls'[c].stage = "done" /\ calls'[c].answer = e
      /\ calls'[c].request = calls[c].request /\ calls'[c].decision = calls[c].decision
      /\ calls'[c].post = calls[c].post
      /\ \A x \in Calls : x # c => calls'[x] = calls[x]
  BY <1>1, <1>2, AnswerCall
<1>4. CASE d # c
  BY <1>0, <1>3, <1>4 DEF Asked, Decided, Writing, Told, At, In
<1>5. CASE d = c
  BY <1>0, <1>1, <1>3, <1>5 DEF Asked, Decided, Writing, Told, At, In
<1>. QED
  BY <1>4, <1>5

\* Every step keeps what is known of every call.
LEMMA CallStep == TypeOK /\ CallInv /\ [Next]_vars => CallInv'
<1>. SUFFICES ASSUME TypeOK, CallInv, [Next]_vars, NEW d \in Calls
     PROVE  (Asked(d) /\ Decided(d) /\ Writing(d) /\ Told(d))'
  BY DEF CallInv
<1>0. Asked(d) /\ Decided(d) /\ Writing(d) /\ Told(d) /\ calls[d] \in Call
  BY DEF CallInv, TypeOK
<1>. USE <1>0 DEF Asked, Decided, Writing, Told, At, In
<1>1. CASE \E m \in MetaPool : Configure(m)
  BY <1>1 DEF Configure
<1>2. CASE \E c \in Calls, r \in Requests[meta.provider] : Govern(c, r)
  <2>1. PICK c \in Calls, r \in Requests[meta.provider] : Govern(c, r)
    BY <1>2
  <2>2. r \in AnyRequest
    BY RequestsAssumption DEF AnyRequest, TypeOK
  <2>3. CASE d # c
    BY <2>1, <2>3 DEF Govern, TypeOK
  <2>4. CASE d = c
    <3>. DEFINE decision == Decide(meta, r.in)
                record == BuildAuditRecord(r.in, decision)
    <3>1. calls'[d] = [stage |-> IF decision = "allow" THEN "allowed" ELSE "denied",
                       request |-> r, post |-> "none", decision |-> record, answer |-> Nothing]
      BY <2>1, <2>4 DEF Govern, TypeOK, NoCall
    <3>2. record.decision = decision
      BY DEF BuildAuditRecord
    <3>. HIDE DEF decision, record
    <3>. QED
      BY <2>2, <3>1, <3>2
  <2>. QED
    BY <2>3, <2>4
<1>3. CASE \E c \in Calls : Client(c)
  <2>1. PICK c \in Calls : Client(c)
    BY <1>3
  <2>2. CASE Invoke(c)
    <3>1. \/ calls' = Goto(c, "read")
          \/ calls' \in {Goto(c, "team"), Post(c)} /\ IsWrite(In(c))
      BY <2>2 DEF Invoke
    <3>2. calls[c].stage = "allowed" /\ linear' = linear
      BY <2>2 DEF Invoke
    <3>. QED
      BY <3>1, <3>2 DEF Goto, Post, TypeOK, Call
  <2>3. CASE Refuse(c)
    BY <2>3 DEF Refuse, Goto, TypeOK, Call
  <2>4. CASE Read(c)
    BY <2>4 DEF Read, Goto, TypeOK, Call
  <2>5. CASE FindTeam(c)
    BY <2>5 DEF FindTeam, Goto, Post, TypeOK, Call
  <2>6. CASE Created(c)
    <3>1. CASE calls' = Goto(c, "failed")
      BY <2>6, <3>1 DEF Created, Goto, TypeOK, Call
    <3>2. CASE \E e \in Existing(LinearWriteID(In(c))) : calls' = Answer(c, e)
      <4>1. calls[c].stage = "sent" /\ linear' = linear
        BY <2>6 DEF Created
      <4>. QED
        BY <3>2, <4>1, AnswerStep
    <3>. QED
      BY <2>6, <3>1, <3>2 DEF Created
  <2>7. CASE NotCreated(c)
    BY <2>7 DEF NotCreated, Goto, TypeOK, Call
  <2>8. CASE Confirm(c)
    <3>1. calls[c].stage = "confirm" /\ linear' = linear
      BY <2>8 DEF Confirm
    <3>2. \E e \in Existing(LinearWriteID(In(c))) : calls' = Answer(c, e)
      BY <2>8 DEF Confirm
    <3>. QED
      BY <3>1, <3>2, AnswerStep
  <2>9. CASE Unconfirmed(c)
    BY <2>9 DEF Unconfirmed, Goto, TypeOK, Call
  <2>. QED
    BY <2>1, <2>2, <2>3, <2>4, <2>5, <2>6, <2>7, <2>8, <2>9 DEF Client
<1>4. CASE \E c \in Calls : Serve(c)
  BY <1>4 DEF Serve, TypeOK, Call
<1>5. CASE \E c \in Calls : Drop(c)
  BY <1>5 DEF Drop, TypeOK, Call
<1>6. CASE UNCHANGED vars
  BY <1>6 DEF vars
<1>. QED
  BY <1>1, <1>2, <1>3, <1>4, <1>5, <1>6 DEF Next

\* In every reachable state the types hold, and what is known of every call.
THEOREM CallsHold == Spec => [](TypeOK /\ CallInv)
<1>1. Init => TypeOK
  BY DEF Init, TypeOK, Call, NoCall, Stages
<1>2. Init => CallInv
  BY DEF Init, CallInv, NoCall, Asked, Decided, Writing, Told, At
<1>. QED
  BY <1>1, <1>2, TypeStep, CallStep, PTL DEF Spec

-----------------------------------------------------------------------------
\* The runtime's own table says what a Linear write is.
LEMMA ServesNoRead ==
    ASSUME NEW m, NEW in, NEW payload, Serves(m, in, payload), IsWrite(in)
    PROVE  in.action # "read"
<1>1. m.provider = "linear" /\ Validate(m) /\ ValidateExecutable(m) /\ Declares(m, in)
  BY DEF Serves, Guard, ValidateCall, CallBoundary
<1>2. <<in.capability, in.action>> \in Definitions.linear
  BY <1>1, DeclaredAction DEF ValidateExecutable
<1>3. in.capability \in {"issue.create", "comment.create"}
  BY DEF IsWrite, WriteKinds
<1>. QED
  BY <1>2, <1>3 DEF Definitions, Reads

\* What is authorized for a method with a body is no read.
LEMMA AllowedNoRead ==
    ASSUME NEW m, NEW in, Decide(m, in) = "allow", m.provider = "http_api",
           NEW method \in HTTPCapabilityMethod(in.capability), MethodHasBody(method)
    PROVE  in.action # "read"
<1>1. Validate(m) /\ Declares(m, in)
  BY DEF Decide, AuthorizeCall, CallBoundary
<1>. DEFINE c == <<in.capability, in.action>>
<1>2. HTTPCapabilityAction(c)
  BY <1>1, DeclaredAction DEF Validate
<1>3. method \in HTTPMethods
  BY DEF MethodHasBody, HTTPMethods, HTTPMethodAction
<1>4. in.action = HTTPMethodAction[method]
  BY <1>2, <1>3 DEF HTTPCapabilityAction
<1>. QED
  BY <1>4 DEF MethodHasBody, HTTPMethodAction

\* A call that looks for its team is about to write.
NoReadInv ==
    /\ NoWriteAsRead
    /\ \A c \in Calls : At(c, "team") => In(c).action # "read"

\* What NoReadInv says of one call.
NoReadIn(c) ==
    /\ calls[c].post # "none" \/ At(c, "team") => In(c).action # "read"
    /\ At(c, "allowed") /\ meta.provider = "http_api" =>
           \A method \in HTTPCapabilityMethod(In(c).capability) :
               MethodHasBody(method) => In(c).action # "read"

\* Every step keeps it.
LEMMA NoReadStep == TypeOK /\ NoReadInv /\ [Next]_vars => NoReadInv'
<1>0. NoReadInv <=> \A c \in Calls : NoReadIn(c)
  BY DEF NoReadInv, NoReadIn, NoWriteAsRead
<1>. SUFFICES ASSUME TypeOK, \A c \in Calls : NoReadIn(c), [Next]_vars, NEW d \in Calls
     PROVE  NoReadIn(d)'
  BY <1>0 DEF NoReadInv, NoReadIn, NoWriteAsRead
<1>1. NoReadIn(d)
  OBVIOUS
<1>2. ASSUME NEW c \in Calls, NEW stage \in Stages \ {"allowed", "team"},
             calls' = Goto(c, stage), meta' = meta
      PROVE  NoReadIn(d)'
  BY <1>1, <1>2 DEF NoReadIn, At, In, Goto, TypeOK, Call
<1>3. CASE \E m \in MetaPool : Configure(m)
  BY <1>1, <1>3 DEF Configure, NoReadIn, At, In
<1>4. CASE \E c \in Calls, r \in Requests[meta.provider] : Govern(c, r)
  <2>1. PICK c \in Calls, r \in Requests[meta.provider] : Govern(c, r)
    BY <1>4
  <2>2. CASE d # c
    BY <1>1, <2>1, <2>2 DEF Govern, NoReadIn, At, In, TypeOK
  <2>3. CASE d = c
    <3>1. /\ calls'[d].post = "none" /\ calls'[d].stage \in {"allowed", "denied"}
          /\ calls'[d].stage = "allowed" => Decide(meta, r.in) = "allow"
          /\ calls'[d].request = r /\ meta' = meta
      BY <2>1, <2>3 DEF Govern, NoCall, TypeOK
    <3>. QED
      BY <3>1, AllowedNoRead DEF NoReadIn, At, In
  <2>. QED
    BY <2>2, <2>3
<1>5. CASE \E c \in Calls : Client(c)
  <2>1. PICK c \in Calls : Client(c)
    BY <1>5
  <2>2. CASE Invoke(c)
    <3>1. CASE calls' = Goto(c, "read")
      BY <1>2, <2>2, <3>1 DEF Invoke, Stages
    <3>2. CASE IsWrite(In(c)) /\ calls' \in {Goto(c, "team"), Post(c)}
      <4>1. In(c).action # "read"
        BY <2>2, <3>2, ServesNoRead DEF Invoke
      <4>. QED
        BY <1>1, <2>2, <3>2, <4>1 DEF Invoke, Goto, Post, NoReadIn, At, In, TypeOK, Call
    <3>. QED
      BY <2>2, <3>1, <3>2 DEF Invoke
  <2>3. CASE Refuse(c) \/ NotCreated(c) \/ Unconfirmed(c)
    BY <1>2, <2>3 DEF Refuse, NotCreated, Unconfirmed, Stages
  <2>4. CASE Read(c)
    BY <1>2, <2>4 DEF Read, Stages
  <2>5. CASE FindTeam(c)
    <3>1. CASE calls' = Goto(c, "failed")
      BY <1>2, <2>5, <3>1 DEF FindTeam, Stages
    <3>2. CASE calls' = Post(c)
      <4>1. In(c).action # "read"
        BY <2>5 DEF FindTeam, NoReadIn
      <4>. QED
        BY <1>1, <2>5, <3>2, <4>1 DEF FindTeam, Post, NoReadIn, At, In, TypeOK, Call
    <3>. QED
      BY <2>5, <3>1, <3>2 DEF FindTeam
  <2>6. CASE Created(c) \/ Confirm(c)
    <3>1. CASE calls' = Goto(c, "failed")
      BY <1>2, <2>6, <3>1 DEF Created, Confirm, Stages
    <3>2. CASE \E e \in linear : calls' = Answer(c, e)
      <4>1. PICK e \in Made : calls' = Answer(c, e)
        BY <3>2 DEF TypeOK
      <4>2. /\ calls'[c].stage = "done" /\ calls'[c].request = calls[c].request
            /\ calls'[c].post = calls[c].post
            /\ \A x \in Calls : x # c => calls'[x] = calls[x]
        BY <4>1, AnswerCall
      <4>. QED
        BY <1>1, <2>6, <4>2 DEF Created, Confirm, NoReadIn, At, In
    <3>. QED
      BY <2>6, <3>1, <3>2 DEF Created, Confirm, Existing
  <2>. QED
    BY <2>1, <2>2, <2>3, <2>4, <2>5, <2>6 DEF Client
<1>6. CASE \E c \in Calls : Serve(c)
  BY <1>1, <1>6 DEF Serve, NoReadIn, At, In, TypeOK, Call
<1>7. CASE \E c \in Calls : Drop(c)
  BY <1>1, <1>7 DEF Drop, NoReadIn, At, In, TypeOK, Call
<1>8. CASE UNCHANGED vars
  BY <1>1, <1>8 DEF vars, NoReadIn, At, In
<1>. QED
  BY <1>3, <1>4, <1>5, <1>6, <1>7, <1>8 DEF Next

\* In every reachable state nothing is written under the name of a read.
THEOREM WritesAreNoReads == Spec => []NoWriteAsRead
<1>1. Init => NoReadInv
  BY DEF Init, NoCall, NoReadInv, NoWriteAsRead, At
<1>2. NoReadInv => NoWriteAsRead
  BY DEF NoReadInv
<1>. QED
  BY <1>1, <1>2, NoReadStep, CallsHold, PTL DEF Spec

-----------------------------------------------------------------------------
\* The client id is different exactly for different writes.
LEMMA SameWrite ==
    ASSUME NEW a, NEW b
    PROVE  LinearWriteID(a.in) = LinearWriteID(b.in) <=> WriteOf(a) = WriteOf(b)
BY DEF LinearWriteID, WriteOf

\* A step that decides no call allows nothing.
LEMMA NothingAllowed ==
    ASSUME \A c \in Calls : /\ calls'[c].request = calls[c].request
                            /\ calls'[c].decision = calls[c].decision
                            /\ calls'[c].stage = "idle" <=> calls[c].stage = "idle"
    PROVE  AllowedWrites' = AllowedWrites
<1>1. Allowed' = Allowed
  BY DEF Allowed, Governed, In
<1>. QED
  BY <1>1 DEF AllowedWrites, Allowed, Governed

\* A step that answers no call tells nothing.
LEMMA NothingTold ==
    ASSUME \A c \in Calls : /\ calls[c].answer # Nothing \/ calls'[c].answer # Nothing =>
                                   calls'[c].request = calls[c].request
                            /\ calls'[c].answer = calls[c].answer
    PROVE  ToldEntities' = ToldEntities
<1>1. Answered' = Answered
  BY DEF Answered
<1>. QED
  BY <1>1 DEF ToldEntities, Answered

\* A decision allows a write, or nothing.
LEMMA GovernAllows ==
    ASSUME TypeOK, CallInv, NEW c \in Calls, NEW r \in AnyRequest, Govern(c, r)
    PROVE  [Once!Next]_Once!vars
<1>. DEFINE decision == Decide(meta, r.in)
            record == BuildAuditRecord(r.in, decision)
<1>1. /\ calls'[c] = [stage |-> IF decision = "allow" THEN "allowed" ELSE "denied",
                      request |-> r, post |-> "none", decision |-> record, answer |-> Nothing]
      /\ \A d \in Calls : d # c => calls'[d] = calls[d]
  BY DEF Govern, TypeOK, NoCall
<1>2. record.decision = decision
  BY DEF BuildAuditRecord
<1>. HIDE DEF record, decision
<1>3. calls[c].stage = "idle" /\ calls[c].answer = Nothing
  BY DEF Govern, At, CallInv, Decided
<1>4. ToldEntities' = ToldEntities
  BY <1>1, <1>3, NothingTold
<1>5. MadeEntities' = MadeEntities
  BY DEF Govern, MadeEntities
<1>6. CASE decision = "allow" /\ IsWrite(r.in)
  <2>1. Allowed' = Allowed \cup {c}
    BY <1>1, <1>2, <1>6 DEF Allowed, Governed, In
  <2>2. c \notin Allowed
    BY <1>3 DEF Allowed, Governed
  <2>3. AllowedWrites' = AllowedWrites \cup {WriteOf(r)}
    BY <1>1, <2>1, <2>2 DEF AllowedWrites, Allowed, Governed
  <2>4. r \in WriteRequests
    BY <1>6 DEF WriteRequests
  <2>. QED
    BY <1>4, <1>5, <2>3, <2>4 DEF Once!Next, Once!Allow
<1>7. CASE ~(decision = "allow" /\ IsWrite(r.in))
  <2>1. Allowed' = Allowed
    BY <1>1, <1>2, <1>3, <1>7 DEF Allowed, Governed, In
  <2>2. c \notin Allowed
    BY <1>3 DEF Allowed, Governed
  <2>3. AllowedWrites' = AllowedWrites
    BY <1>1, <2>1, <2>2 DEF AllowedWrites, Allowed, Governed
  <2>. QED
    BY <1>4, <1>5, <2>3 DEF Once!vars
<1>. QED
  BY <1>6, <1>7

\* An answer tells of the entity that was made for that write.
LEMMA AnswerTells ==
    ASSUME TypeOK, CallInv, NEW c \in Calls, calls[c].stage \in {"sent", "confirm"},
           linear' = linear, \E e \in Existing(LinearWriteID(In(c))) : calls' = Answer(c, e)
    PROVE  [Once!Next]_Once!vars
<1>1. PICK e \in linear : e.id = LinearWriteID(In(c)) /\ calls' = Answer(c, e)
  BY DEF Existing
<1>2. PICK r \in WriteRequests : e = [id |-> LinearWriteID(r.in), request |-> r]
  BY DEF TypeOK, Made
<1>3. /\ calls'[c].stage = "done" /\ calls'[c].answer = e
      /\ calls'[c].request = calls[c].request /\ calls'[c].decision = calls[c].decision
      /\ \A d \in Calls : d # c => calls'[d] = calls[d]
  BY <1>1, AnswerCall DEF TypeOK
<1>4. WriteOf(calls[c].request) = WriteOf(r)
  BY <1>1, <1>2, SameWrite DEF In
<1>5. AllowedWrites' = AllowedWrites
  BY <1>3, NothingAllowed
<1>6. MadeEntities' = MadeEntities /\ r \in MadeEntities
  BY <1>1, <1>2 DEF MadeEntities
<1>7. calls[c].answer = Nothing
  BY DEF CallInv, Told, At
<1>8. CASE e = Nothing
  <2>1. ToldEntities' = ToldEntities
    BY <1>3, <1>7, <1>8, NothingTold
  <2>. QED
    BY <1>5, <1>6, <2>1 DEF Once!vars
<1>9. CASE e # Nothing
  <2>1. Answered' = Answered \cup {c} /\ c \notin Answered
    BY <1>3, <1>7, <1>9 DEF Answered
  <2>2. e.request = r
    BY <1>2
  <2>3. ToldEntities' = ToldEntities \cup {<<WriteOf(r), r>>}
    BY <1>3, <1>4, <2>1, <2>2 DEF ToldEntities, Answered
  <2>. QED
    BY <1>5, <1>6, <2>3 DEF Once!Next, Once!Tell
<1>. QED
  BY <1>8, <1>9

\* Linear makes the entity of an allowed write, whose client id is new.
LEMMA ServeMakes ==
    ASSUME TypeOK, CallInv, NEW c \in Calls, Serve(c)
    PROVE  [Once!Next]_Once!vars
<1>. DEFINE r == calls[c].request
<1>1. /\ ~At(c, "idle") /\ calls[c].decision.decision = "allow"
      /\ r \in WriteRequests /\ c \in Allowed
  BY DEF Serve, CallInv, Asked, Decided, Writing, At, In, WriteRequests, Allowed, Governed
<1>2. WriteOf(r) \in AllowedWrites
  BY <1>1 DEF AllowedWrites
<1>3. \A e \in linear : e.id # LinearWriteID(r.in)
  BY DEF Serve, Existing, In
<1>4. \A other \in MadeEntities : WriteOf(other) # WriteOf(r)
  <2>1. SUFFICES ASSUME NEW e \in linear PROVE WriteOf(e.request) # WriteOf(r)
    BY DEF MadeEntities
  <2>2. PICK other \in WriteRequests : e = [id |-> LinearWriteID(other.in), request |-> other]
    BY DEF TypeOK, Made
  <2>. QED
    BY <1>3, <2>2, SameWrite
<1>5. MadeEntities' = MadeEntities \cup {r}
  <2>. DEFINE new == [id |-> LinearWriteID(In(c)), request |-> r]
  <2>1. linear' = linear \cup {new} /\ new.request = r
    BY DEF Serve
  <2>. HIDE DEF new
  <2>. QED
    BY <2>1 DEF MadeEntities
<1>6. \A d \in Calls : /\ calls'[d].request = calls[d].request
                       /\ calls'[d].decision = calls[d].decision
                       /\ calls'[d].stage = calls[d].stage
                       /\ calls'[d].answer = calls[d].answer
  BY DEF Serve, TypeOK, Call
<1>7. AllowedWrites' = AllowedWrites
  BY <1>6, NothingAllowed
<1>8. ToldEntities' = ToldEntities
  BY <1>6, NothingTold
<1>. QED
  BY <1>1, <1>2, <1>4, <1>5, <1>7, <1>8 DEF Once!Next, Once!Make

\* Every step is one of the promise, or does nothing that it speaks of.
LEMMA OnceStep == TypeOK /\ CallInv /\ [Next]_vars => [Once!Next]_Once!vars
<1>. SUFFICES ASSUME TypeOK, CallInv, [Next]_vars PROVE [Once!Next]_Once!vars
  OBVIOUS
<1>1. ASSUME \A c \in Calls : /\ calls'[c].request = calls[c].request
                              /\ calls'[c].decision = calls[c].decision
                              /\ calls'[c].stage = "idle" <=> calls[c].stage = "idle"
                              /\ calls'[c].answer = calls[c].answer,
             linear' = linear
      PROVE  [Once!Next]_Once!vars
  BY <1>1, NothingAllowed, NothingTold DEF Once!vars, MadeEntities
<1>2. ASSUME NEW c \in Calls, ~At(c, "idle"), linear' = linear,
             \/ \E stage \in Stages \ {"idle"} : calls' = Goto(c, stage)
             \/ calls' = Post(c)
      PROVE  [Once!Next]_Once!vars
  BY <1>1, <1>2 DEF Goto, Post, TypeOK, Call, At
<1>3. CASE \E m \in MetaPool : Configure(m)
  BY <1>1, <1>3 DEF Configure
<1>4. CASE \E c \in Calls, r \in Requests[meta.provider] : Govern(c, r)
  BY <1>4, GovernAllows, RequestsAssumption DEF TypeOK, AnyRequest
<1>5. CASE \E c \in Calls : Client(c)
  <2>1. PICK c \in Calls : Client(c)
    BY <1>5
  <2>2. CASE Invoke(c)
    BY <1>2, <2>2 DEF Invoke, At, Stages
  <2>3. CASE Refuse(c) \/ Read(c) \/ NotCreated(c) \/ Unconfirmed(c)
    BY <1>2, <2>3 DEF Refuse, Read, NotCreated, Unconfirmed, At, Stages
  <2>4. CASE FindTeam(c)
    BY <1>2, <2>4 DEF FindTeam, At, Stages
  <2>5. CASE Created(c)
    BY <1>2, <2>5, AnswerTells DEF Created, At, Stages
  <2>6. CASE Confirm(c)
    BY <2>6, AnswerTells DEF Confirm, At
  <2>. QED
    BY <2>1, <2>2, <2>3, <2>4, <2>5, <2>6 DEF Client
<1>6. CASE \E c \in Calls : Serve(c)
  BY <1>6, ServeMakes
<1>7. CASE \E c \in Calls : Drop(c)
  BY <1>1, <1>7 DEF Drop, TypeOK, Call
<1>8. CASE UNCHANGED vars
  BY <1>1, <1>8 DEF vars
<1>. QED
  BY <1>3, <1>4, <1>5, <1>6, <1>7, <1>8 DEF Next

\* Calls of Linear writes implement WriteOnce: one entity for a write, made
\* after it was allowed, and that one for every answer.
THEOREM Refinement == Spec => KeepsPromise
<1>1. Init => Once!Init
  BY DEF Init, NoCall, Once!Init, AllowedWrites, Allowed, Governed, MadeEntities,
         ToldEntities, Answered
<1>. QED
  BY <1>1, OnceStep, CallsHold, PTL DEF Spec, KeepsPromise, Once!Spec

-----------------------------------------------------------------------------
(* What the promise comes to.                                              *)

\* A write has at most one entity, one that was allowed, and whoever is told of
\* a success is told of an entity that is there.
OneOfEach ==
    /\ \A e \in MadeEntities : WriteOf(e) \in AllowedWrites
    /\ \A e, d \in MadeEntities : WriteOf(e) = WriteOf(d) => e = d
    /\ \A t \in ToldEntities : \E e \in MadeEntities : t = <<WriteOf(e), e>>

\* Any two successes of one write are of one entity.
OneForAll == \A t, u \in ToldEntities : t[1] = u[1] => t = u

\* The promise keeps it, whoever makes it: nothing here is about the calls.
LEMMA PromiseStep == OneOfEach /\ [Once!Next]_Once!vars => OneOfEach'
<1>. SUFFICES ASSUME OneOfEach, [Once!Next]_Once!vars PROVE OneOfEach'
  OBVIOUS
<1>1. ASSUME NEW e, Once!Allow(WriteOf(e)) PROVE OneOfEach'
  BY <1>1 DEF Once!Allow, OneOfEach
<1>2. ASSUME NEW e, Once!Make(e) PROVE OneOfEach'
  BY <1>2 DEF Once!Make, OneOfEach
<1>3. ASSUME NEW e, Once!Tell(e) PROVE OneOfEach'
  BY <1>3 DEF Once!Tell, OneOfEach
<1>4. CASE UNCHANGED Once!vars
  BY <1>4 DEF Once!vars, OneOfEach
<1>. QED
  BY <1>1, <1>2, <1>3, <1>4 DEF Once!Next

\* Whoever repeats a write under one key, and whoever else makes the same one,
\* before or after the first has been answered, is told of one entity, for any
\* calls, requests and metadata (linear_graphql.go 241-262).
THEOREM RepeatersAgree == Spec => [](OneOfEach /\ OneForAll)
<1>1. KeepsPromise => []OneOfEach
  <2>1. Once!Init => OneOfEach
    BY DEF Once!Init, OneOfEach
  <2>. QED
    BY <2>1, PromiseStep, PTL DEF KeepsPromise, Once!Spec
<1>2. OneOfEach => OneForAll
  BY DEF OneOfEach, OneForAll
<1>. QED
  BY <1>1, <1>2, Refinement, PTL
=============================================================================
