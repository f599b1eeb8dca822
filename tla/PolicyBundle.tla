---------------------------- MODULE PolicyBundle ----------------------------
(***************************************************************************)
(* How an installation comes to hold a policy bundle (bundle/bundle.go).   *)
(* Documents travel from the catalog to the runtime over a channel that    *)
(* may lose, repeat and reorder them; Validate and ValidateV2 decide which *)
(* one the runtime may install.  The validators that this module cannot    *)
(* carry itself (the two JSON Schemas and the plan profile) are hooks the  *)
(* service sets, and unsets, in package variables.                         *)
(*                                                                         *)
(* A document is abstracted to what the checks read: its schema, audience, *)
(* version, times and subject mode, and the set of its flaws, one for each *)
(* check on content that this model leaves opaque.                         *)
(***************************************************************************)
EXTENDS Integers, Sequences

CONSTANTS
    Documents,    \* the documents the channel may deliver
    Here,         \* this installation, with its organisation and workspace
    Audiences,    \* the audiences a document may name
    Skew,         \* MaxIssuedAtClockSkew
    Window,       \* the longest validity window
    MaxTime,      \* bound on the clock
    NoBundle      \* nothing installed

Flaws == {"ambiguous", "schema", "unknown_field", "undecodable", "identity",
          "no_identities", "policy_set", "dialect", "harnesses", "plan"}

Document == [schema : {"v1", "v2", "other"}, audience : Audiences,
             version : Int, issuedAt : Int, notAfter : Int,
             mode : {"online", "bundle", "other"}, flaws : SUBSET Flaws]

ASSUME DocumentsAssumption == Documents \subseteq Document
ASSUME TimesAssumption == Skew \in Nat /\ Window \in Nat /\ MaxTime \in Nat
ASSUME NoBundleAssumption == NoBundle \notin Documents

VARIABLES
    now,        \* the runtime's clock
    hooks,      \* which of the three validators are installed
    verified,   \* the bundle the runtime enforces
    highest,    \* highestVersion, the runtime's persisted version floor
    log         \* history: every acceptance, in order

vars == <<now, hooks, verified, highest, log>>

Hooks == {"v1", "v2", "plan"}

\* An acceptance and the time of the clock when it took place.
LogEntry == [doc : Documents, at : 0..MaxTime]

TypeOK ==
    /\ now \in 0..MaxTime
    /\ hooks \in SUBSET Hooks
    /\ verified \in Documents \cup {NoBundle}
    /\ highest \in Nat
    /\ log \in Seq(LogEntry)

-----------------------------------------------------------------------------
(* The checks, in the order the code makes them: the answer is the reason  *)
(* of the first check that fails.                                          *)

Clean(d, bad) == d.flaws \cap bad = {}

\* Mutants: the current version is accepted again; the floor is not read.
AnyVersion(d, floor) == TRUE
NewerOrEqual(d, floor) == d.version >= floor
Newer(d, floor) == d.version > floor

\* Mutant: the validity window starts at the end of the skew.
InWindowFromSkew(d) == d.notAfter > d.issuedAt /\ d.notAfter <= d.issuedAt + Window + Skew
InWindow(d) == d.notAfter > d.issuedAt /\ d.notAfter <= d.issuedAt + Window

\* Mutant: the skew allowance is doubled.
DoubleSkew(d, t) == d.issuedAt <= t + 2 * Skew
NotFromFuture(d, t) == d.issuedAt <= t + Skew

PlansValid(d, installed) == "plan" \in installed => Clean(d, {"plan"})

\* Mutant: a schema whose validator is not installed is not checked.
SchemaUncheckedWithoutHook(d, hook, installed) ==
    IF hook \notin installed THEN "ok"
    ELSE IF ~Clean(d, {"unknown_field"}) THEN "unsupported"
    ELSE IF ~Clean(d, {"schema"}) THEN "invalid" ELSE "ok"
SchemaAnswer(d, hook, installed) ==
    IF hook \notin installed THEN "unavailable"
    ELSE IF ~Clean(d, {"unknown_field"}) THEN "unsupported"
    ELSE IF ~Clean(d, {"schema"}) THEN "invalid" ELSE "ok"

\* Mutant: the validity window is looked at before the audience and version.
ExpiryFirst(d, floor, t) ==
    IF ~(t < d.notAfter) THEN "expired"
    ELSE IF d.audience # Here THEN "audience"
    ELSE IF ~Newer(d, floor) THEN "rollback"
    ELSE IF ~NotFromFuture(d, t) THEN "future"
    ELSE IF ~InWindow(d) THEN "window" ELSE "ok"
EnvelopeAnswer(d, floor, t) ==
    IF d.audience # Here THEN "audience"
    ELSE IF ~Newer(d, floor) THEN "rollback"
    ELSE IF ~NotFromFuture(d, t) THEN "future"
    ELSE IF ~(t < d.notAfter) THEN "expired"
    ELSE IF ~InWindow(d) THEN "window" ELSE "ok"

IdentityOK(d) ==
    Clean(d, {"undecodable", "unknown_field", "identity"}) /\ d.version >= 1

\* A policy set that does not decode is the one fault of content that is
\* answered as the decoder puts it, and not as unsupported.
V1ContentAnswer(d) ==
    IF d.mode \notin {"online", "bundle"} THEN "unsupported"
    ELSE IF ~Clean(d, {"policy_set"}) THEN "invalid"
    ELSE IF ~Clean(d, {"dialect", "harnesses"}) THEN "unsupported" ELSE "ok"

V2ContentAnswer(d, installed) ==
    IF d.mode # "bundle" \/ ~Clean(d, {"no_identities"}) THEN "unsupported"
    ELSE IF ~Clean(d, {"policy_set"}) THEN "invalid"
    ELSE IF ~Clean(d, {"dialect", "harnesses"}) \/ ~PlansValid(d, installed)
         THEN "unsupported" ELSE "ok"

ValidateV2(d, floor, t, installed) ==
    IF ~Clean(d, {"ambiguous"}) THEN "invalid"
    ELSE IF SchemaAnswer(d, "v2", installed) # "ok" THEN SchemaAnswer(d, "v2", installed)
    ELSE IF d.schema # "v2" \/ ~IdentityOK(d) THEN "invalid"
    ELSE IF EnvelopeAnswer(d, floor, t) # "ok" THEN EnvelopeAnswer(d, floor, t)
    ELSE IF V2ContentAnswer(d, installed) # "ok" THEN V2ContentAnswer(d, installed)
    ELSE "accepted"

Validate(d, floor, t, installed) ==
    IF ~Clean(d, {"ambiguous"}) THEN "invalid"
    ELSE IF d.schema = "v2" THEN ValidateV2(d, floor, t, installed)
    ELSE IF d.schema # "v1" THEN "unsupported"
    ELSE IF SchemaAnswer(d, "v1", installed) # "ok" THEN SchemaAnswer(d, "v1", installed)
    ELSE IF ~IdentityOK(d) THEN "invalid"
    ELSE IF EnvelopeAnswer(d, floor, t) # "ok" THEN EnvelopeAnswer(d, floor, t)
    ELSE IF V1ContentAnswer(d) # "ok" THEN V1ContentAnswer(d)
    ELSE "accepted"

\* Mutant: the snapshot gate leaves out the skew that Validate allows.
FreshWithoutSkew(d, t) ==
    d # NoBundle /\ d.schema = "v2" /\ d.mode = "bundle"
    /\ Clean(d, {"no_identities"}) /\ d.issuedAt <= t
SubjectSnapshotFresh(d, t) ==
    d # NoBundle /\ d.schema = "v2" /\ d.mode = "bundle"
    /\ Clean(d, {"no_identities"}) /\ d.issuedAt <= t + Skew

-----------------------------------------------------------------------------
(* The service that holds the bundle is not part of the repository: it     *)
(* passes its clock and its highest version, installs what is accepted and *)
(* persists the version.                                                   *)

Init ==
    /\ now \in 0..MaxTime
    /\ hooks = {}
    /\ verified = NoBundle
    /\ highest = 0
    /\ log = << >>

Install(d) ==
    /\ verified' = d
    /\ highest' = d.version
    /\ log' = Append(log, [doc |-> d, at |-> now])
    /\ UNCHANGED <<now, hooks>>

Receive(d) == Validate(d, highest, now, hooks) = "accepted" /\ Install(d)

ReceiveV2(d) == ValidateV2(d, highest, now, hooks) = "accepted" /\ Install(d)

SetValidator(h) ==
    /\ \/ h \notin hooks /\ hooks' = hooks \cup {h}
       \/ h \in hooks /\ hooks' = hooks \ {h}
    /\ UNCHANGED <<now, verified, highest, log>>

Restart ==
    /\ hooks' = {}
    /\ verified' = NoBundle
    /\ UNCHANGED <<now, highest, log>>

Tick ==
    /\ now < MaxTime
    /\ now' = now + 1
    /\ UNCHANGED <<hooks, verified, highest, log>>

ClockSetBack ==
    /\ now > 0
    /\ now' = now - 1
    /\ UNCHANGED <<hooks, verified, highest, log>>

Next ==
    \/ \E d \in Documents : Receive(d) \/ ReceiveV2(d)
    \/ \E h \in Hooks : SetValidator(h)
    \/ Restart
    \/ Tick
    \/ ClockSetBack

Spec == Init /\ [][Next]_vars

-----------------------------------------------------------------------------
(* Properties.                                                             *)

\* No version is ever accepted twice, and none after a higher one, across
\* replays, restarts and a clock that runs backwards (the rollback check of
\* bundle.go 240 and 330 against the floor the runtime persists).  It follows
\* from the promise of AcceptanceLog below, and is what its proof rests on.
VersionsOnlyRise ==
    \A i, j \in 1..Len(log) : i < j => log[i].doc.version < log[j].doc.version

\* A bundle is accepted for this installation only, no earlier than the
\* clock skew before its issue, and less than a validity window after it:
\* no acceptance is for longer than a day, whatever not_after claims.
AcceptedInLifetime ==
    \A i \in 1..Len(log) :
        LET d == log[i].doc IN
        /\ d.audience = Here
        /\ d.issuedAt - Skew <= log[i].at
        /\ log[i].at < d.issuedAt + Window

\* A document is never accepted on this package's checks alone: what was
\* accepted conformed to its schema, although a hook may have been unset or
\* lost in a restart before the document arrived (bundle.go 311, 405).  Plans
\* are another matter: without their validator they are not looked at.
NothingAcceptedUnchecked ==
    \A i \in 1..Len(log) : Clean(log[i].doc, {"schema", "unknown_field"})

\* ErrBundleExpired is the answer only for a document of this installation
\* that is newer than the accepted one: a foreign document or a replay never
\* makes a runtime believe that its bundle has run out.
ExpiredIsOurs ==
    \A d \in Documents :
        "expired" \in {Validate(d, highest, now, hooks), ValidateV2(d, highest, now, hooks)}
            => d.audience = Here /\ d.version > highest

\* A v2 bundle is usable from the step that installs it ("a bundle Validate
\* accepted is usable at once", session.go 143), and stays so until it is
\* replaced or the clock is set back.
UsableWhileClockRuns ==
    [][ LET isNew == verified' # NoBundle /\ verified' # verified
            isHeld == verified' = verified /\ SubjectSnapshotFresh(verified, now) /\ now' >= now
        IN (isNew /\ verified'.schema = "v2") \/ isHeld
               => SubjectSnapshotFresh(verified', now') ]_vars

\* The inductive invariant behind the log's order: the floor is the version
\* of the last acceptance, and everything accepted is at or below it.
FloorIsHighest ==
    /\ \A i \in 1..Len(log) : log[i].doc.version <= highest
    /\ verified # NoBundle => verified.version = highest

\* "A validator that is not installed is not applied: the bundle is then
\* checked by this package's own structural validation only" (bundle.go 36,
\* README): a document whose only doubt is the missing hook is accepted.
MissingValidatorNotApplied ==
    \A d \in Documents :
        d.schema \in {"v1", "v2"} \ hooks
            /\ Validate(d, highest, now, hooks \cup {"v1", "v2"}) = "accepted"
            => Validate(d, highest, now, hooks) = "accepted"

\* An acceptance, and the log, as the abstract specification records them.
Acceptance(d, t) == [version |-> d.version, issuedAt |-> d.issuedAt, at |-> t]
Acceptances == {Acceptance(d, t) : d \in Documents, t \in 0..MaxTime}
MapLog(l) == [i \in 1..Len(l) |-> Acceptance(l[i].doc, l[i].at)]

Promise == INSTANCE AcceptanceLog WITH Entry <- Acceptances, accepted <- MapLog(log)

\* The acceptances keep the promise of AcceptanceLog: every step appends one
\* entry, newer than all before and within its lifetime, or changes nothing.
KeepsPromise == Promise!Spec
=============================================================================
