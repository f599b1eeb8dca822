--------------------------- MODULE ConnectorCalls ---------------------------
(***************************************************************************)
(* Calls of one connector, from the control plane's decision (invoke/,     *)
(* governance/) to the answer of the Linear client (providers/linear.go,   *)
(* linear_graphql.go), while the connector is reconfigured, calls repeat   *)
(* each other under one idempotency key, and Linear's answers are lost or  *)
(* come late.                                                              *)
(*                                                                         *)
(* A request is an invocation with the payload that the caller passes to   *)
(* the client.  The control plane keeps the audit record of every call     *)
(* and hands on those it allows (invoke/client.go 36).                *)
(***************************************************************************)
EXTENDS ConnectorContract

CONSTANTS
    Calls,      \* the calls; a retry is another call with the same request
    Requests,   \* by provider, what may be asked for: [in, payload]
    MetaPool,   \* what the connector may be configured as
    TeamIDs     \* the team names that are Linear ids, not keys

AnyRequest == UNION {Requests[p] : p \in DOMAIN Requests}
InvocationFields ==
    {"place", "subject", "capability", "action", "resource", "key", "trace", "http"}

ASSUME RequestsAssumption ==
    /\ \A m \in MetaPool : m.provider \in DOMAIN Requests
    /\ \A r \in AnyRequest : DOMAIN r.in = InvocationFields

VARIABLES
    meta,    \* the connector's metadata
    calls,   \* where each call stands
    linear   \* the entities in Linear

vars == <<meta, calls, linear>>

\* The client id of a write.  The digest of the six fields is taken to be
\* different for different fields.
\* Mutant: the subject is left out.
SharedWriteID(in) == <<in.place, in.capability, in.key>>
LinearWriteID(in) == <<in.place, in.subject, in.capability, in.key>>

NoCall == [stage |-> "idle", request |-> Nothing, post |-> "none",
           decision |-> Nothing, answer |-> Nothing]

Governed == {c \in Calls : calls[c].stage # "idle"}
In(c) == calls[c].request.in
Payload(c) == calls[c].request.payload

At(c, stage) == calls[c].stage = stage
Goto(c, stage) == [calls EXCEPT ![c].stage = stage]

Existing(id) == {e \in linear : e.id = id}

-----------------------------------------------------------------------------
(* The control plane.                                                      *)

Init == meta \in MetaPool /\ calls = [c \in Calls |-> NoCall] /\ linear = {}

Configure(m) ==
    /\ m.provider = meta.provider /\ m # meta
    /\ meta' = m
    /\ UNCHANGED <<calls, linear>>

\* Client.Invoke of invoke/: mint, decide, record.
Govern(c, r) ==
    /\ At(c, "idle")
    /\ LET decision == Decide(meta, r.in)
       IN calls' = [calls EXCEPT ![c] =
              [NoCall EXCEPT !.stage = IF decision = "allow" THEN "allowed" ELSE "denied",
                             !.request = r,
                             !.decision = BuildAuditRecord(r.in, decision)]]
    /\ UNCHANGED <<meta, linear>>

-----------------------------------------------------------------------------
(* The Linear client.                                                      *)

ReadKinds == {<<"team.read", "team">>, <<"project.read", "project">>,
              <<"cycle.read", "cycle">>, <<"issue.read", "issue">>}
WriteKinds == {<<"issue.create", "team">>, <<"comment.create", "issue">>}

IsWrite(in) == \E pair \in WriteKinds : pair[1] = in.capability

Serves(m, in, payload) ==
    /\ m.provider = "linear"
    /\ Guard(m, in)
    /\ payload.capability = in.capability
    /\ <<in.capability, in.resource.kind>> \in ReadKinds \cup WriteKinds
    /\ IsWrite(in) => in.key # Nothing /\ payload.sound /\ payload.parent = in.resource.id

\* The mutation is sent, once.
Post(c) == [calls EXCEPT ![c].stage = "sent", ![c].post = "wire"]

\* The metadata are those of the moment, not those of the decision.
Invoke(c) ==
    /\ At(c, "allowed") /\ Serves(meta, In(c), Payload(c))
    /\ calls' = IF ~IsWrite(In(c)) THEN Goto(c, "read")
                ELSE IF In(c).capability = "issue.create" /\ Payload(c).parent \notin TeamIDs
                     THEN Goto(c, "team") ELSE Post(c)
    /\ UNCHANGED <<meta, linear>>

\* A check that fails, or no token.
Refuse(c) ==
    /\ At(c, "allowed")
    /\ calls' = Goto(c, "failed")
    /\ UNCHANGED <<meta, linear>>

Read(c) ==
    /\ At(c, "read")
    /\ calls' \in {Goto(c, "done"), Goto(c, "failed")}
    /\ UNCHANGED <<meta, linear>>

\* teamUUID: one team of that key, or none to be told.
FindTeam(c) ==
    /\ At(c, "team")
    /\ calls' \in {Post(c), Goto(c, "failed")}
    /\ UNCHANGED <<meta, linear>>

Answer(c, e) == [calls EXCEPT ![c].stage = "done", ![c].answer = e]

\* The mutation is answered with the entity of the client id, or with
\* something else.
Created(c) ==
    /\ At(c, "sent") /\ calls[c].post = "made"
    /\ \/ \E e \in Existing(LinearWriteID(In(c))) : calls' = Answer(c, e)
       \/ calls' = Goto(c, "failed")
    /\ UNCHANGED <<meta, linear>>

\* The mutation is rejected, its answer is lost, or does not come in time.
NotCreated(c) ==
    /\ At(c, "sent")
    /\ calls' = Goto(c, "confirm")
    /\ UNCHANGED <<meta, linear>>

\* A read of the client id tells whether the entity exists.
Confirm(c) ==
    /\ At(c, "confirm")
    /\ \E e \in Existing(LinearWriteID(In(c))) : calls' = Answer(c, e)
    /\ UNCHANGED <<meta, linear>>

\* It does not, or the read fails.
Unconfirmed(c) ==
    /\ At(c, "confirm")
    /\ calls' = Goto(c, "failed")
    /\ UNCHANGED <<meta, linear>>

-----------------------------------------------------------------------------
(* Linear, which takes an id for a new entity once, whatever the caller    *)
(* has been told or has given up in the meantime.                          *)

Serve(c) ==
    /\ calls[c].post = "wire"
    /\ Existing(LinearWriteID(In(c))) = {}
    /\ linear' = linear \cup {[id |-> LinearWriteID(In(c)), request |-> calls[c].request]}
    /\ calls' = [calls EXCEPT ![c].post = "made"]
    /\ UNCHANGED meta

\* The id exists, Linear declines, or the request is lost on its way.
Drop(c) ==
    /\ calls[c].post = "wire"
    /\ calls' = [calls EXCEPT ![c].post = "gone"]
    /\ UNCHANGED <<meta, linear>>

-----------------------------------------------------------------------------
Client(c) ==
    \/ Invoke(c) \/ Refuse(c) \/ Read(c) \/ FindTeam(c)
    \/ Created(c) \/ NotCreated(c) \/ Confirm(c) \/ Unconfirmed(c)

Next ==
    \/ \E m \in MetaPool : Configure(m)
    \/ \E c \in Calls :
           \/ \E r \in Requests[meta.provider] : Govern(c, r)
           \/ Client(c) \/ Serve(c) \/ Drop(c)

Spec == Init /\ [][Next]_vars

-----------------------------------------------------------------------------
(* Properties.                                                             *)

WriteOf(r) == [place |-> r.in.place, subject |-> r.in.subject,
               capability |-> r.in.capability, key |-> r.in.key]

WriteRequests == {r \in AnyRequest : IsWrite(r.in)}
Allowed == {c \in Governed : IsWrite(In(c)) /\ calls[c].decision.decision = "allow"}
Answered == {c \in Calls : calls[c].answer # Nothing}

AllowedWrites == {WriteOf(calls[c].request) : c \in Allowed}
MadeEntities == {e.request : e \in linear}
ToldEntities == {<<WriteOf(calls[c].request), calls[c].answer.request>> : c \in Answered}

Once == INSTANCE WriteOnce WITH
    Entities <- WriteRequests,
    allowed <- AllowedWrites, made <- MadeEntities, told <- ToldEntities

\* "A replayed write cannot create a second issue or comment" (linear.go
\* 158), and is answered with the first: through lost and late answers,
\* failing reads, and calls of other people under the same key.  Nothing is
\* written that was not allowed before.
KeepsPromise == Once!Spec

\* Nothing is written under the name of a read, whatever the connector
\* declared when the call was allowed: what the caller's policy and the audit
\* saw is the action of the runtime's own table.  For HTTP the control plane
\* itself keeps to this, by the method in the name of the capability
\* (contract.go 287).
NoWriteAsRead ==
    \A c \in Calls :
        /\ calls[c].post # "none" => In(c).action # "read"
        /\ At(c, "allowed") /\ meta.provider = "http_api" =>
               \A method \in HTTPCapabilityMethod(In(c).capability) :
                   MethodHasBody(method) => In(c).action # "read"

\* The runtime executes nothing that the control plane would not allow under
\* the same metadata, though the one checks the HTTP request and the other
\* only the capability's method and the resource.  The request is for the
\* resource, as it must be by "its resource, which is the request path"
\* (contract.go 382).
ExecutableIsAuthorized ==
    \A r \in Requests[meta.provider] :
        LET in == r.in
        IN /\ Guard(meta, in) /\ WellFormed(in.key)
           /\ in.http # Nothing => in.http.path = in.resource
           => Decide(meta, [in EXCEPT !.http = Nothing]) = "allow"
=============================================================================
