---------------------------- MODULE BundleHealth ----------------------------
(***************************************************************************)
(* What an installation tells the control plane about its policy bundle    *)
(* (policybundlehealth/health.go): the heartbeat report, the checks by     *)
(* which the control plane takes or refuses it, and the JSON Schema that   *)
(* states the same contract once more.                                     *)
(*                                                                         *)
(* The service that fills a report in is not part of the repository.  It   *)
(* is modelled from the names of the states and of the reasons: a report   *)
(* is made when a refresh has ended, by the clock of that moment, and      *)
(* carries the metadata of the bundle that is enforced.                    *)
(***************************************************************************)
EXTENDS PolicyBundle

CONSTANT Absent    \* a member that is null

States == {"cold", "active", "stale_but_valid", "expired", "invalid",
           "unsupported", "revoked"}

Rejections == {"refresh_failed", "integrity_rejected", "audience_rejected",
               "rollback_rejected"}
Reasons == Rejections \cup {"bundle_missing", "bundle_stale", "bundle_expired",
                            "schema_unsupported", "runtime_revoked"}

ASSUME AbsentAssumption == Absent \notin Int /\ Absent \notin Reasons /\ Absent # "digest"

Metadata == {"version", "revision", "digest", "accepted", "expires"}
Nullable == Metadata \cup {"checked", "reason"}

\* A report: its members, Absent where null, the members that the document
\* spells at all, and the flaws of form that the model leaves opaque.
\* "timestamp" is a time that is not written in UTC, "zero_time" one that is
\* and says 0001-01-01T00:00:00Z, the zero value of the Go type.
FormFlaws == {"schema_version", "digest", "timestamp", "zero_time",
              "unknown_field", "trailing"}

Timed(h) == \E f \in {"checked", "accepted", "expires", "reported"} : h[f] # Absent

-----------------------------------------------------------------------------
(* Health.Validate and Decode.                                             *)

Present(h) == {f \in Metadata : h[f] # Absent}

\* The states that have one reason only, or none.
ReasonOf ==
    [active |-> Absent, stale_but_valid |-> "bundle_stale",
     expired |-> "bundle_expired", unsupported |-> "schema_unsupported",
     revoked |-> "runtime_revoked"]

\* Mutant: a runtime that enforces a bundle may report that it has none.
ColdWithBundle(h, accepted, checked) ==
    \/ h.state = "cold" /\ h.reason = IF checked THEN "bundle_missing" ELSE Absent
    \/ /\ h.state \in {"active", "stale_but_valid", "expired"}
       /\ accepted /\ checked /\ h.reason = ReasonOf[h.state]
    \/ h.state = "invalid" /\ checked /\ h.reason \in Rejections
    \/ /\ h.state \in {"unsupported", "revoked"}
       /\ checked /\ h.reason = ReasonOf[h.state]
ValidStateReason(h, accepted, checked) ==
    \/ /\ h.state = "cold" /\ ~accepted
       /\ h.reason = IF checked THEN "bundle_missing" ELSE Absent
    \/ /\ h.state \in {"active", "stale_but_valid", "expired"}
       /\ accepted /\ checked /\ h.reason = ReasonOf[h.state]
    \/ h.state = "invalid" /\ checked /\ h.reason \in Rejections
    \/ /\ h.state \in {"unsupported", "revoked"}
       /\ checked /\ h.reason = ReasonOf[h.state]

\* Mutant: a check must be later than the acceptance it reports.
StrictOrder(h) ==
    h.accepted # Absent =>
        h.accepted < h.expires /\ h.checked # Absent /\ h.checked > h.accepted
InOrder(h) ==
    h.accepted # Absent =>
        h.accepted < h.expires /\ h.checked # Absent /\ h.checked >= h.accepted

ValidateHealth(h, readProjection) ==
    /\ "schema_version" \notin h.flaws
    /\ h.state \in States
    /\ readProjection <=> h.reported # Absent
    /\ \A f \in {"version", "revision"} : h[f] = Absent \/ h[f] >= 0
    /\ Present(h) \in {{}, Metadata}
    /\ h.digest # Absent => "digest" \notin h.flaws
    /\ Timed(h) => h.flaws \cap {"timestamp", "zero_time"} = {}
    /\ h.checked = Absent => h.state = "cold" /\ h.reason = Absent
    /\ InOrder(h)
    /\ ValidStateReason(h, Present(h) = Metadata, h.checked # Absent)

\* Decode asks for every member by name, then for a closed single document.
Decode(h, readProjection) ==
    /\ Nullable \cup {"state"} \subseteq h.members
    /\ readProjection <=> "reported" \in h.members
    /\ h.flaws \cap {"unknown_field", "trailing"} = {}
    /\ ValidateHealth(h, readProjection)

ValidateReadProjection(h) == ValidateHealth(h, TRUE)

\* The catalog takes a report, stamps it and serves it to its readers.
Projection(h, at) ==
    [h EXCEPT !.reported = at, !.members = h.members \cup {"reported"}]

Taken(h) ==
    Decode(h, FALSE) /\ ValidateReadProjection(Projection(h, now))

-----------------------------------------------------------------------------
(* The schema, clause by clause as the file lists them.                    *)

ConformsToCore(h) ==
    /\ "schema_version" \notin h.flaws /\ h.state \in States
    /\ Nullable \cup {"state"} \subseteq h.members
    /\ \A f \in {"version", "revision"} : h[f] # Absent => h[f] >= 0
    /\ h.digest # Absent => "digest" \notin h.flaws
    /\ Timed(h) => "timestamp" \notin h.flaws
    /\ Present(h) \in {{}, Metadata}
    /\ h.state \in {"active", "stale_but_valid", "expired"} =>
            Present(h) = Metadata /\ h.checked # Absent /\ h.reason = ReasonOf[h.state]
    /\ h.state = "cold" =>
            /\ Present(h) = {}
            /\ \/ h.checked = Absent /\ h.reason = Absent
               \/ h.checked # Absent /\ h.reason = "bundle_missing"
    /\ h.state = "invalid" => h.checked # Absent /\ h.reason \in Rejections
    /\ h.state \in {"unsupported", "revoked"} =>
            h.checked # Absent /\ h.reason = ReasonOf[h.state]

ConformsToReport(h) ==
    /\ ConformsToCore(h)
    /\ "reported" \notin h.members
    /\ h.flaws \cap {"unknown_field", "trailing"} = {}

-----------------------------------------------------------------------------
(* The service's side: a refresh has just ended, with the answer of the    *)
(* validator on a document, without a bundle to fetch, or without a reply. *)

Outcomes == {"missing", "failed"}

Held(d, answer) == IF answer = "accepted" THEN d ELSE verified

AcceptedAt(answer) == IF answer = "accepted" THEN now ELSE log[Len(log)].at

\* What an answer that rejects a document makes the installation.
Rejected ==
    [audience |-> <<"invalid", "audience_rejected">>,
     rollback |-> <<"invalid", "rollback_rejected">>,
     invalid  |-> <<"invalid", "integrity_rejected">>,
     future   |-> <<"invalid", "integrity_rejected">>,
     window   |-> <<"invalid", "integrity_rejected">>,
     unavailable |-> <<"invalid", "refresh_failed">>,
     unsupported |-> <<"unsupported", "schema_unsupported">>]

\* What is true of the installation after the refresh; a bundle that has run
\* out outweighs what the refresh brought.
Standing(held, answer) ==
    IF answer = "accepted" THEN <<"active", Absent>>
    ELSE IF held # NoBundle /\ now >= held.notAfter THEN <<"expired", "bundle_expired">>
    ELSE IF answer \in DOMAIN Rejected THEN Rejected[answer]
    ELSE IF held # NoBundle THEN <<"stale_but_valid", "bundle_stale">>
    ELSE IF answer = "missing" THEN <<"cold", "bundle_missing">>
    ELSE IF answer = "failed" THEN <<"invalid", "refresh_failed">>
    ELSE <<"expired", "bundle_expired">>

\* The document that says so, with the metadata of the bundle held.
Report(held, at, checked, standing) ==
    LET of(value) == IF held = NoBundle THEN Absent ELSE value IN
    [state    |-> standing[1], reason   |-> standing[2], checked |-> checked,
     version  |-> of(held.version),     revision |-> of(held.version),
     digest   |-> of("digest"),         accepted |-> of(at),
     expires  |-> of(held.notAfter),    reported |-> Absent,
     members  |-> Nullable \cup {"state"},  flaws |-> {}]

AfterRefresh(d, answer) ==
    LET held == Held(d, answer) IN
    Report(held, AcceptedAt(answer), now, Standing(held, answer))

Refreshes ==
    {<<d, Validate(d, highest, now, hooks)>> : d \in Documents}
        \cup {<<NoBundle, o>> : o \in Outcomes}

-----------------------------------------------------------------------------
(* Properties.                                                             *)

\* Whatever a refresh ends with, what the runtime then has to say the control
\* plane takes and can serve: at the moment of the acceptance, at the limit
\* of the lifetime, with or without a bundle.  Two gaps are the code's
\* (health.go 130, 158): after the clock was set back to before the
\* acceptance there is no report at all, nor is there one for a first bundle
\* that has run out.
StandingIsReportable ==
    \A r \in Refreshes :
        LET held == Held(r[1], r[2]) IN
        /\ held # NoBundle => AcceptedAt(r[2]) <= now
        /\ r[2] = "expired" => held # NoBundle
        => Taken(AfterRefresh(r[1], r[2]))

\* What the control plane takes conforms to the schema it publishes, and what
\* conforms is taken but for two kinds of report: one whose times are out of
\* order, which a schema cannot say, and one with the zero time, which the
\* schema could refuse and does not (health.go 76-168, with 114 for the zero
\* time, against the schema: two statements of one contract).
CodeAgreesWithSchema ==
    \A s \in States, why \in Reasons \cup {Absent}, checked \in {now, Absent},
       flaws \in {{}, {"zero_time"}} :
        LET h == [Report(verified, AcceptedAt("none"), checked, <<s, why>>)
                     EXCEPT !.flaws = flaws] IN
        Decode(h, FALSE) <=>
            /\ ConformsToReport(h)
            /\ InOrder(h)
            /\ ~(Timed(h) /\ "zero_time" \in flaws)
=============================================================================
