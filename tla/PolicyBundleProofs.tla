------------------------- MODULE PolicyBundleProofs -------------------------
(***************************************************************************)
(* Proofs about PolicyBundle for every set of documents, every skew and    *)
(* every window: the type invariant, the order of the accepted versions,   *)
(* the lifetime of what is accepted, its conformity to the schema, and the *)
(* refinement of AcceptanceLog.  And about BundleHealth: where the code's  *)
(* contract and that of the schema are one, and when what a runtime has to *)
(* say is taken.                                                           *)
(***************************************************************************)
EXTENDS BundleHealth, SequenceTheorems, TLAPS

\* What an accepting answer of either entry point says of the document.
Acceptable(d, floor, t) ==
    /\ d.version >= 1
    /\ d.audience = Here
    /\ d.version > floor
    /\ d.issuedAt <= t + Skew
    /\ t < d.notAfter
    /\ d.notAfter <= d.issuedAt + Window
    /\ Clean(d, {"schema", "unknown_field"})

\* A document clean of a union of flaws is clean of each part.
LEMMA CleanSplit ==
    ASSUME NEW d, Clean(d, {"unknown_field"}), Clean(d, {"schema"})
    PROVE  Clean(d, {"schema", "unknown_field"})
BY DEF Clean

\* The v2 chain accepts only what every one of its checks lets through.
LEMMA ValidateV2Sound ==
    ASSUME NEW d, NEW floor, NEW t, NEW installed,
           ValidateV2(d, floor, t, installed) = "accepted"
    PROVE  Acceptable(d, floor, t)
<1>1. SchemaAnswer(d, "v2", installed) = "ok"
  BY DEF ValidateV2, SchemaAnswer
<1>2. EnvelopeAnswer(d, floor, t) = "ok"
  BY <1>1 DEF ValidateV2, EnvelopeAnswer
<1>3. IdentityOK(d)
  BY <1>1, <1>2 DEF ValidateV2
<1>4. Clean(d, {"schema", "unknown_field"})
  BY <1>1, CleanSplit DEF SchemaAnswer
<1>. QED
  BY <1>2, <1>3, <1>4
  DEF Acceptable, EnvelopeAnswer, IdentityOK, Newer, NotFromFuture, InWindow

\* Validate accepts no more than its two chains do.
LEMMA ValidateSound ==
    ASSUME NEW d, NEW floor, NEW t, NEW installed,
           Validate(d, floor, t, installed) = "accepted"
    PROVE  Acceptable(d, floor, t)
<1>1. CASE d.schema = "v2"
  <2>1. ValidateV2(d, floor, t, installed) = "accepted"
    BY <1>1 DEF Validate
  <2>. QED
    BY <2>1, ValidateV2Sound
<1>2. CASE d.schema # "v2"
  <2>1. SchemaAnswer(d, "v1", installed) = "ok"
    BY <1>2 DEF Validate, SchemaAnswer
  <2>2. EnvelopeAnswer(d, floor, t) = "ok"
    BY <1>2, <2>1 DEF Validate, EnvelopeAnswer
  <2>3. IdentityOK(d)
    BY <1>2, <2>1, <2>2 DEF Validate
  <2>4. Clean(d, {"schema", "unknown_field"})
    BY <2>1, CleanSplit DEF SchemaAnswer
  <2>. QED
    BY <2>2, <2>3, <2>4
    DEF Acceptable, EnvelopeAnswer, IdentityOK, Newer, NotFromFuture, InWindow
<1>. QED
  BY <1>1, <1>2

\* Whichever entry point it comes through, a step that adds to the log
\* installs one acceptable document.
LEMMA ReceiveInstalls ==
    ASSUME NEW d, Receive(d) \/ ReceiveV2(d)
    PROVE  Acceptable(d, highest, now) /\ Install(d)
BY ValidateSound, ValidateV2Sound DEF Receive, ReceiveV2

-----------------------------------------------------------------------------

\* Every variable stays in its range.
THEOREM TypeCorrect == Spec => []TypeOK
<1>1. Init => TypeOK
  BY NoBundleAssumption DEF Init, TypeOK
<1>2. TypeOK /\ [Next]_vars => TypeOK'
  <2>. SUFFICES ASSUME TypeOK, [Next]_vars PROVE TypeOK'
    OBVIOUS
  <2>. USE DocumentsAssumption, TimesAssumption DEF TypeOK, LogEntry
  <2>1. ASSUME NEW d \in Documents, Receive(d) \/ ReceiveV2(d) PROVE TypeOK'
    <3>1. Acceptable(d, highest, now) /\ Install(d)
      BY <2>1, ReceiveInstalls
    <3>2. highest' \in Nat
      BY <3>1 DEF Install, Acceptable, Document
    <3>3. log' \in Seq(LogEntry)
      BY <3>1 DEF Install
    <3>. QED
      BY <3>1, <3>2, <3>3 DEF Install
  <2>2. ASSUME NEW h \in Hooks, SetValidator(h) PROVE TypeOK'
    BY <2>2 DEF SetValidator
  <2>3. CASE Restart
    BY <2>3 DEF Restart
  <2>4. CASE Tick
    BY <2>4 DEF Tick
  <2>5. CASE ClockSetBack
    BY <2>5 DEF ClockSetBack
  <2>6. CASE UNCHANGED vars
    BY <2>6 DEF vars
  <2>. QED
    BY <2>1, <2>2, <2>3, <2>4, <2>5, <2>6 DEF Next
<1>. QED
  BY <1>1, <1>2, PTL DEF Spec

-----------------------------------------------------------------------------

\* The three statements about the log, with the link between the log and the
\* version floor that makes them inductive.
LogInv ==
    /\ FloorIsHighest
    /\ VersionsOnlyRise
    /\ AcceptedInLifetime
    /\ NothingAcceptedUnchecked

\* An entry of the log is a document of the channel and a time of the clock.
LEMMA LogEntries ==
    ASSUME TypeOK
    PROVE  \A i \in 1..Len(log) : log[i] \in LogEntry
BY ElementOfSeq DEF TypeOK

\* What the log holds after an installation: the old entries and, at the end,
\* the new one.
LEMMA LogAfterInstall ==
    ASSUME TypeOK, NEW d \in Documents, Install(d)
    PROVE  /\ Len(log) \in Nat
           /\ Len(log') = Len(log) + 1
           /\ log'[Len(log) + 1] = [doc |-> d, at |-> now]
           /\ \A i \in 1..Len(log) : log'[i] = log[i]
<1>1. log \in Seq(LogEntry) /\ [doc |-> d, at |-> now] \in LogEntry
  BY DEF TypeOK, LogEntry
<1>. QED
  BY <1>1 DEF Install

\* The acceptance of a document keeps the log ordered, in its lifetimes and
\* at or below the floor.
LEMMA InstallKeepsLogInv ==
    ASSUME TypeOK, LogInv, NEW d \in Documents,
           Acceptable(d, highest, now), Install(d)
    PROVE  LogInv'
<1>. USE DocumentsAssumption, TimesAssumption
<1>0. /\ Len(log) \in Nat
      /\ Len(log') = Len(log) + 1
      /\ log'[Len(log) + 1] = [doc |-> d, at |-> now]
      /\ \A i \in 1..Len(log) : log'[i] = log[i]
  BY LogAfterInstall
<1>1. /\ d.version \in Int /\ d.issuedAt \in Int /\ d.notAfter \in Int
      /\ highest \in Nat /\ now \in Int
  BY DEF TypeOK, Document
<1>2. \A i \in 1..Len(log) :
         /\ log[i].doc.version \in Int
         /\ log[i].doc.version <= highest
         /\ log[i].at \in Int
  <2>1. \A i \in 1..Len(log) : log[i] \in LogEntry
    BY LogEntries
  <2>. QED
    BY <2>1 DEF LogInv, FloorIsHighest, Document, LogEntry
<1>3. highest' = d.version /\ verified' = d /\ d.version > highest
  BY DEF Install, Acceptable
<1>4. FloorIsHighest'
  <2>1. ASSUME NEW i \in 1..Len(log') PROVE log'[i].doc.version <= highest'
    <3>1. CASE i = Len(log) + 1
      BY <1>0, <1>1, <1>3, <3>1
    <3>2. CASE i \in 1..Len(log)
      BY <1>0, <1>1, <1>2, <1>3, <3>2
    <3>. QED
      BY <1>0, <3>1, <3>2
  <2>. QED
    BY <1>3, <2>1 DEF FloorIsHighest
<1>5. VersionsOnlyRise'
  <2>. SUFFICES ASSUME NEW i \in 1..Len(log'), NEW j \in 1..Len(log'), i < j
                PROVE  log'[i].doc.version < log'[j].doc.version
    BY DEF VersionsOnlyRise
  <2>1. i \in 1..Len(log)
    BY <1>0
  <2>2. CASE j = Len(log) + 1
    BY <1>0, <1>1, <1>2, <1>3, <2>1, <2>2
  <2>3. CASE j \in 1..Len(log)
    BY <1>0, <2>1, <2>3 DEF LogInv, VersionsOnlyRise
  <2>. QED
    BY <1>0, <2>2, <2>3
<1>6. AcceptedInLifetime'
  <2>. SUFFICES ASSUME NEW i \in 1..Len(log')
                PROVE  /\ log'[i].doc.audience = Here
                       /\ log'[i].doc.issuedAt - Skew <= log'[i].at
                       /\ log'[i].at < log'[i].doc.issuedAt + Window
    BY DEF AcceptedInLifetime
  <2>1. CASE i = Len(log) + 1
    <3>1. log'[i].doc = d /\ log'[i].at = now
      BY <1>0, <2>1
    <3>. QED
      BY <1>1, <3>1 DEF Acceptable
  <2>2. CASE i \in 1..Len(log)
    BY <1>0, <2>2 DEF LogInv, AcceptedInLifetime
  <2>. QED
    BY <1>0, <2>1, <2>2
<1>7. NothingAcceptedUnchecked'
  <2>. SUFFICES ASSUME NEW i \in 1..Len(log')
                PROVE  Clean(log'[i].doc, {"schema", "unknown_field"})
    BY DEF NothingAcceptedUnchecked
  <2>1. CASE i = Len(log) + 1
    BY <1>0, <2>1 DEF Acceptable
  <2>2. CASE i \in 1..Len(log)
    BY <1>0, <2>2 DEF LogInv, NothingAcceptedUnchecked
  <2>. QED
    BY <1>0, <2>1, <2>2
<1>. QED
  BY <1>4, <1>5, <1>6, <1>7 DEF LogInv

\* No other step touches the log; a restart only empties the memory.
LEMMA LogInvInductive == TypeOK /\ LogInv /\ [Next]_vars => LogInv'
<1>. SUFFICES ASSUME TypeOK, LogInv, [Next]_vars PROVE LogInv'
  OBVIOUS
<1>. USE DEF LogInv, FloorIsHighest, VersionsOnlyRise, AcceptedInLifetime,
             NothingAcceptedUnchecked
<1>1. ASSUME NEW d \in Documents, Receive(d) \/ ReceiveV2(d) PROVE LogInv'
  <2>1. Acceptable(d, highest, now) /\ Install(d)
    BY <1>1, ReceiveInstalls
  <2>. QED
    BY <2>1, InstallKeepsLogInv
<1>2. ASSUME NEW h \in Hooks, SetValidator(h) PROVE LogInv'
  BY <1>2 DEF SetValidator
<1>3. CASE Restart
  BY <1>3 DEF Restart
<1>4. CASE Tick
  BY <1>4 DEF Tick
<1>5. CASE ClockSetBack
  BY <1>5 DEF ClockSetBack
<1>6. CASE UNCHANGED vars
  BY <1>6 DEF vars
<1>. QED
  BY <1>1, <1>2, <1>3, <1>4, <1>5, <1>6 DEF Next

\* The empty log satisfies the invariant.
LEMMA InitLogInv == Init => LogInv
BY DEF Init, LogInv, FloorIsHighest, VersionsOnlyRise, AcceptedInLifetime,
       NothingAcceptedUnchecked

\* The strengthened invariant of the log holds in every reachable state.
LEMMA LogInvariant == Spec => []LogInv
BY TypeCorrect, InitLogInv, LogInvInductive, PTL DEF Spec

\* The floor the runtime persists is the version of the last acceptance.
THEOREM FloorTracksAcceptance == Spec => []FloorIsHighest
BY LogInvariant, PTL DEF LogInv

\* No version is accepted twice or out of order, for any documents, delivery
\* order, restarts and clock.
THEOREM NoRollback == Spec => []VersionsOnlyRise
BY LogInvariant, PTL DEF LogInv

\* Every acceptance is for this installation and within a window of its issue.
THEOREM LifetimeBounded == Spec => []AcceptedInLifetime
BY LogInvariant, PTL DEF LogInv

\* Whatever is accepted conforms to its schema, with or without the hooks.
THEOREM AcceptedConform == Spec => []NothingAcceptedUnchecked
BY LogInvariant, PTL DEF LogInv
-----------------------------------------------------------------------------

\* The v2 chain answers with expiry only after the audience and the version.
LEMMA ExpiredV2IsOurs ==
    ASSUME NEW d, NEW floor, NEW t, NEW installed,
           ValidateV2(d, floor, t, installed) = "expired"
    PROVE  d.audience = Here /\ d.version > floor
<1>1. SchemaAnswer(d, "v2", installed) # "expired"
  BY DEF SchemaAnswer
<1>2. V2ContentAnswer(d, installed) # "expired"
  BY DEF V2ContentAnswer
<1>3. EnvelopeAnswer(d, floor, t) = "expired"
  BY <1>1, <1>2 DEF ValidateV2
<1>. QED
  BY <1>3 DEF EnvelopeAnswer, Newer

\* Neither entry point says of a foreign document or of a replay that it has
\* run out, whatever the floor, the clock and the validators.
THEOREM ExpiryIsOurs == Spec => []ExpiredIsOurs
<1>1. ASSUME NEW d \in Documents, Validate(d, highest, now, hooks) = "expired"
      PROVE  d.audience = Here /\ d.version > highest
  <2>1. CASE d.schema = "v2"
    BY <1>1, <2>1, ExpiredV2IsOurs DEF Validate
  <2>2. CASE d.schema # "v2"
    <3>1. SchemaAnswer(d, "v1", hooks) # "expired"
      BY DEF SchemaAnswer
    <3>2. V1ContentAnswer(d) # "expired"
      BY DEF V1ContentAnswer
    <3>3. EnvelopeAnswer(d, highest, now) = "expired"
      BY <1>1, <2>2, <3>1, <3>2 DEF Validate
    <3>. QED
      BY <3>3 DEF EnvelopeAnswer, Newer
  <2>. QED
    BY <2>1, <2>2
<1>2. ExpiredIsOurs
  BY <1>1, ExpiredV2IsOurs DEF ExpiredIsOurs
<1>. QED
  BY <1>2, PTL
-----------------------------------------------------------------------------

\* A v2 document that either entry point accepts passes the snapshot gate.
LEMMA AcceptedV2Fresh ==
    ASSUME NEW d \in Documents, Receive(d) \/ ReceiveV2(d), verified'.schema = "v2"
    PROVE  SubjectSnapshotFresh(verified', now')
<1>1. Acceptable(d, highest, now) /\ Install(d)
  BY ReceiveInstalls
<1>2. d.schema = "v2" /\ verified' = d /\ now' = now
  BY <1>1 DEF Install
<1>3. ValidateV2(d, highest, now, hooks) = "accepted"
  BY <1>2 DEF Receive, ReceiveV2, Validate
<1>4. V2ContentAnswer(d, hooks) = "ok"
  <2>1. V2ContentAnswer(d, hooks) # "accepted"
    BY DEF V2ContentAnswer
  <2>2. SchemaAnswer(d, "v2", hooks) # "accepted"
    BY DEF SchemaAnswer
  <2>3. EnvelopeAnswer(d, highest, now) # "accepted"
    BY DEF EnvelopeAnswer
  <2>. QED
    BY <1>3, <2>1, <2>2, <2>3 DEF ValidateV2
<1>5. d.mode = "bundle" /\ Clean(d, {"no_identities"})
  BY <1>4 DEF V2ContentAnswer
<1>. QED
  BY <1>1, <1>2, <1>5, NoBundleAssumption
  DEF SubjectSnapshotFresh, Acceptable

\* A v2 bundle is usable in the step that installs it, since the gate allows
\* the skew that the validation allows, and until the clock is set back.
THEOREM UsableAtOnce == Spec => UsableWhileClockRuns
<1>. DEFINE Step == LET isNew == verified' # NoBundle /\ verified' # verified
                        isHeld == verified' = verified
                                     /\ SubjectSnapshotFresh(verified, now) /\ now' >= now
                    IN (isNew /\ verified'.schema = "v2") \/ isHeld
                           => SubjectSnapshotFresh(verified', now')
<1>1. TypeOK /\ [Next]_vars => [Step]_vars
  <2>. SUFFICES ASSUME TypeOK, Next PROVE Step
    OBVIOUS
  <2>. USE DocumentsAssumption, TimesAssumption, NoBundleAssumption
  <2>1. ASSUME NEW d \in Documents, Receive(d) \/ ReceiveV2(d),
               verified'.schema = "v2"
        PROVE  SubjectSnapshotFresh(verified', now')
    BY <2>1, AcceptedV2Fresh
  <2>2. ASSUME verified' = verified, SubjectSnapshotFresh(verified, now), now' >= now,
               now' \in Int
        PROVE  SubjectSnapshotFresh(verified', now')
    BY <2>2 DEF SubjectSnapshotFresh, TypeOK, Document
  <2>3. CASE \E d \in Documents : Receive(d) \/ ReceiveV2(d)
    <3>1. now' = now
      BY <2>3 DEF Receive, ReceiveV2, Install
    <3>. QED
      BY <2>1, <2>2, <2>3, <3>1 DEF TypeOK
  <2>4. CASE ~(\E d \in Documents : Receive(d) \/ ReceiveV2(d))
    <3>1. now' \in Int /\ (verified' = verified \/ verified' = NoBundle)
      BY <2>4 DEF Next, SetValidator, Restart, Tick, ClockSetBack, TypeOK
    <3>. QED
      BY <2>2, <3>1
  <2>. QED
    BY <2>3, <2>4
<1>2. [][Step]_vars <=> UsableWhileClockRuns
  BY PTL DEF UsableWhileClockRuns
<1>. QED
  BY <1>1, <1>2, TypeCorrect, PTL DEF Spec

-----------------------------------------------------------------------------

\* The mapped log has the entries of the log, one by one.
LEMMA MapLogSeq ==
    ASSUME NEW l \in Seq(LogEntry)
    PROVE  /\ MapLog(l) \in Seq(Acceptances)
           /\ Len(MapLog(l)) = Len(l)
           /\ \A i \in 1..Len(l) : MapLog(l)[i] = Acceptance(l[i].doc, l[i].at)
<1>1. \A i \in 1..Len(l) : Acceptance(l[i].doc, l[i].at) \in Acceptances
  <2>1. ASSUME NEW i \in 1..Len(l) PROVE l[i] \in LogEntry
    BY <2>1, ElementOfSeq
  <2>. QED
    BY <2>1 DEF Acceptances, LogEntry
<1>2. MapLog(l) \in [1..Len(l) -> Acceptances]
  BY <1>1 DEF MapLog
<1>. QED
  BY <1>2, LenProperties DEF MapLog

\* Mapping an extended log extends the mapped log.
LEMMA MapLogAppend ==
    ASSUME NEW l \in Seq(LogEntry), NEW d \in Documents, NEW t \in 0..MaxTime
    PROVE  MapLog(Append(l, [doc |-> d, at |-> t])) = Append(MapLog(l), Acceptance(d, t))
<1>. DEFINE e == [doc |-> d, at |-> t]
            a == Acceptance(d, t)
<1>1. e \in LogEntry /\ a \in Acceptances
  BY DEF LogEntry, Acceptances
<1>2. a = Acceptance(e.doc, e.at)
  OBVIOUS
<1>. HIDE DEF e, a
<1>3. /\ Append(l, e) \in Seq(LogEntry)
      /\ Len(l) \in Nat
      /\ Len(Append(l, e)) = Len(l) + 1
      /\ \A i \in 1..Len(l) : Append(l, e)[i] = l[i]
      /\ Append(l, e)[Len(l) + 1] = e
  BY <1>1
<1>4. /\ MapLog(l) \in Seq(Acceptances)
      /\ Len(MapLog(l)) = Len(l)
      /\ \A i \in 1..Len(l) : MapLog(l)[i] = Acceptance(l[i].doc, l[i].at)
  BY MapLogSeq
<1>5. /\ Append(MapLog(l), a) \in Seq(Acceptances)
      /\ Len(Append(MapLog(l), a)) = Len(l) + 1
      /\ \A i \in 1..Len(l) : Append(MapLog(l), a)[i] = MapLog(l)[i]
      /\ Append(MapLog(l), a)[Len(l) + 1] = a
  BY <1>1, <1>3, <1>4
<1>6. /\ MapLog(Append(l, e)) \in Seq(Acceptances)
      /\ Len(MapLog(Append(l, e))) = Len(l) + 1
      /\ \A i \in 1..(Len(l) + 1) :
             MapLog(Append(l, e))[i] = Acceptance(Append(l, e)[i].doc, Append(l, e)[i].at)
  BY <1>3, MapLogSeq
<1>7. ASSUME NEW i \in 1..(Len(l) + 1)
      PROVE  MapLog(Append(l, e))[i] = Append(MapLog(l), a)[i]
  <2>1. CASE i = Len(l) + 1
    BY <1>2, <1>3, <1>5, <1>6, <2>1
  <2>2. CASE i \in 1..Len(l)
    BY <1>3, <1>4, <1>5, <1>6, <2>2
  <2>3. i = Len(l) + 1 \/ i \in 1..Len(l)
    BY <1>3
  <2>. QED
    BY <2>1, <2>2, <2>3
<1>8. MapLog(Append(l, e)) = Append(MapLog(l), a)
  BY <1>5, <1>6, <1>7, SeqEqual
<1>. QED
  BY <1>8 DEF e, a

\* The acceptances keep the promise: an installation is an abstract Accept of
\* a newer entry within its lifetime, and every other step is a stutter.
THEOREM Refinement == Spec => KeepsPromise
<1>1. Init => Promise!Init
  BY DEF Init, Promise!Init, MapLog
<1>2. TypeOK /\ LogInv /\ [Next]_vars => [Promise!Next]_(MapLog(log))
  <2>. SUFFICES ASSUME TypeOK, LogInv, Next, log' # log PROVE Promise!Next
    BY DEF vars
  <2>1. PICK d \in Documents : Receive(d) \/ ReceiveV2(d)
    BY DEF Next, SetValidator, Restart, Tick, ClockSetBack
  <2>2. Acceptable(d, highest, now) /\ Install(d)
    BY <2>1, ReceiveInstalls
  <2>3. now \in 0..MaxTime /\ log \in Seq(LogEntry)
    BY DEF TypeOK
  <2>4. Acceptance(d, now) \in Acceptances
    BY <2>3 DEF Acceptances
  <2>5. Promise!InLifetime(Acceptance(d, now))
    <3>1. d.issuedAt \in Int /\ d.notAfter \in Int /\ now \in Int
      BY <2>3, DocumentsAssumption DEF Document
    <3>. QED
      BY <2>2, <3>1, TimesAssumption DEF Promise!InLifetime, Acceptable, Acceptance
  <2>6. Promise!Newest(Acceptance(d, now))
    <3>0. /\ Len(MapLog(log)) = Len(log)
          /\ \A j \in 1..Len(log) : MapLog(log)[j] = Acceptance(log[j].doc, log[j].at)
      BY <2>3, MapLogSeq
    <3>. SUFFICES ASSUME NEW i \in 1..Len(log)
                  PROVE  MapLog(log)[i].version < Acceptance(d, now).version
      BY <3>0 DEF Promise!Newest
    <3>1. MapLog(log)[i] = Acceptance(log[i].doc, log[i].at)
      BY <3>0
    <3>5. MapLog(log)[i].version = log[i].doc.version
      BY <3>1 DEF Acceptance
    <3>2. log[i].doc \in Documents
      BY LogEntries DEF LogEntry
    <3>3. log[i].doc.version \in Int /\ d.version \in Int
      BY <3>2, DocumentsAssumption DEF Document
    <3>4. highest \in Int
      BY DEF TypeOK
    <3>. QED
      BY <2>2, <3>5, <3>3, <3>4 DEF LogInv, FloorIsHighest, Acceptable, Acceptance
  <2>7. MapLog(log)' = Append(MapLog(log), Acceptance(d, now))
    BY <2>2, <2>3, MapLogAppend DEF Install
  <2>. QED
    BY <2>4, <2>5, <2>6, <2>7 DEF Promise!Next, Promise!Accept
<1>. QED
  BY <1>1, <1>2, TypeCorrect, LogInvariant, PTL DEF Spec, KeepsPromise, Promise!Spec

-----------------------------------------------------------------------------
(* The two statements of the contract.                                     *)

\* A report as it is sent: the member the catalog adds is neither spelt nor set.
Sent(h) == h.reported = Absent /\ "reported" \notin h.members

\* The code's states and reasons, and the null check, are the schema's.
LEMMA StateReasonIsSchema ==
    ASSUME NEW h, NEW accepted \in BOOLEAN, NEW checked \in BOOLEAN,
           h.state \in States
    PROVE  ValidStateReason(h, accepted, checked) <=>
             /\ h.state \in {"active", "stale_but_valid", "expired"} =>
                     accepted /\ checked /\ h.reason = ReasonOf[h.state]
             /\ h.state = "cold" =>
                     /\ ~accepted
                     /\ h.reason = IF checked THEN "bundle_missing" ELSE Absent
             /\ h.state = "invalid" => checked /\ h.reason \in Rejections
             /\ h.state \in {"unsupported", "revoked"} =>
                     checked /\ h.reason = ReasonOf[h.state]
BY DEF ValidStateReason, States

\* Whatever the members of a report, Decode takes it exactly if it conforms to
\* the schema, its times are in order and none is zero (health.go 76-213).
LEMMA DecodeIsSchema ==
    ASSUME NEW h, Sent(h)
    PROVE  Decode(h, FALSE) <=> /\ ConformsToReport(h)
                                /\ InOrder(h)
                                /\ ~(Timed(h) /\ "zero_time" \in h.flaws)
<1>. DEFINE accepted == Present(h) = Metadata
            checked == h.checked # Absent
<1>1. Metadata # {}
  BY DEF Metadata
<1>2. ASSUME h.state \in States, Present(h) \in {{}, Metadata}
      PROVE  /\ h.checked = Absent => h.state = "cold" /\ h.reason = Absent
             /\ ValidStateReason(h, accepted, checked)
             <=>
             /\ h.state \in {"active", "stale_but_valid", "expired"} =>
                     Present(h) = Metadata /\ h.checked # Absent /\ h.reason = ReasonOf[h.state]
             /\ h.state = "cold" =>
                     /\ Present(h) = {}
                     /\ \/ h.checked = Absent /\ h.reason = Absent
                        \/ h.checked # Absent /\ h.reason = "bundle_missing"
             /\ h.state = "invalid" => h.checked # Absent /\ h.reason \in Rejections
             /\ h.state \in {"unsupported", "revoked"} =>
                     h.checked # Absent /\ h.reason = ReasonOf[h.state]
  <2>1. accepted \in BOOLEAN /\ checked \in BOOLEAN
    OBVIOUS
  <2>. HIDE DEF accepted, checked
  <2>2. ValidStateReason(h, accepted, checked) <=>
             /\ h.state \in {"active", "stale_but_valid", "expired"} =>
                     accepted /\ checked /\ h.reason = ReasonOf[h.state]
             /\ h.state = "cold" =>
                     /\ ~accepted
                     /\ h.reason = IF checked THEN "bundle_missing" ELSE Absent
             /\ h.state = "invalid" => checked /\ h.reason \in Rejections
             /\ h.state \in {"unsupported", "revoked"} =>
                     checked /\ h.reason = ReasonOf[h.state]
    BY <1>2, <2>1, StateReasonIsSchema
  <2>3. (~accepted <=> Present(h) = {}) /\ (accepted <=> Present(h) = Metadata)
    BY <1>1, <1>2 DEF accepted
  <2>4. checked <=> h.checked # Absent
    BY DEF checked
  <2>. QED
    BY <1>2, <2>2, <2>3, <2>4 DEF States
<1>. DEFINE noZero == ~(Timed(h) /\ "zero_time" \in h.flaws)
<1>0. (Timed(h) => h.flaws \cap {"timestamp", "zero_time"} = {})
         <=> (Timed(h) => "timestamp" \notin h.flaws) /\ noZero
  OBVIOUS
<1>3. ConformsToCore(h) /\ InOrder(h) /\ noZero =>
         ValidateHealth(h, FALSE) /\ Nullable \cup {"state"} \subseteq h.members
  BY <1>0, <1>2 DEF ConformsToCore, ValidateHealth, Sent
<1>4. ValidateHealth(h, FALSE) /\ Nullable \cup {"state"} \subseteq h.members =>
         ConformsToCore(h) /\ InOrder(h) /\ noZero
  BY <1>0, <1>2 DEF ConformsToCore, ValidateHealth
<1>. QED
  BY <1>3, <1>4 DEF Decode, ConformsToReport, Sent

\* Code and schema state one contract, whatever the state, the reason, the
\* check and the bundle a report speaks of, but for the order of its times and
\* for the zero time.
THEOREM OneContract == Spec => []CodeAgreesWithSchema
<1>1. ASSUME NEW held, NEW at, NEW checked, NEW standing, NEW flaws
      PROVE  LET h == [Report(held, at, checked, standing) EXCEPT !.flaws = flaws]
             IN  Decode(h, FALSE) <=> /\ ConformsToReport(h)
                                      /\ InOrder(h)
                                      /\ ~(Timed(h) /\ "zero_time" \in flaws)
  <2>. DEFINE h == [Report(held, at, checked, standing) EXCEPT !.flaws = flaws]
  <2>1. Sent(h) /\ h.flaws = flaws
    BY DEF Sent, Report, Nullable, Metadata
  <2>. HIDE DEF h
  <2>2. Decode(h, FALSE) <=> /\ ConformsToReport(h)
                             /\ InOrder(h)
                             /\ ~(Timed(h) /\ "zero_time" \in flaws)
    BY <2>1, DecodeIsSchema
  <2>. QED
    BY <2>2 DEF h
<1>2. CodeAgreesWithSchema
  BY <1>1 DEF CodeAgreesWithSchema
<1>. QED
  BY <1>2, PTL

-----------------------------------------------------------------------------
(* What the runtime can say.                                               *)

\* The bundle held is that of the last acceptance, which was before its end.
HeldInv ==
    verified # NoBundle =>
        /\ Len(log) > 0
        /\ log[Len(log)].doc = verified
        /\ log[Len(log)].at < verified.notAfter
        /\ verified.version >= 1

LEMMA HeldInvInductive == TypeOK /\ HeldInv /\ [Next]_vars => HeldInv'
<1>. SUFFICES ASSUME TypeOK, HeldInv, [Next]_vars PROVE HeldInv'
  OBVIOUS
<1>1. ASSUME NEW d \in Documents, Receive(d) \/ ReceiveV2(d) PROVE HeldInv'
  <2>1. Acceptable(d, highest, now) /\ Install(d)
    BY <1>1, ReceiveInstalls
  <2>2. Len(log) \in Nat /\ Len(log') = Len(log) + 1
        /\ log'[Len(log) + 1] = [doc |-> d, at |-> now]
    BY <2>1, LogAfterInstall
  <2>. QED
    BY <2>1, <2>2 DEF HeldInv, Install, Acceptable
<1>2. ASSUME UNCHANGED <<verified, log>> PROVE HeldInv'
  BY <1>2 DEF HeldInv
<1>3. CASE Restart
  BY <1>3 DEF HeldInv, Restart
<1>. QED
  BY <1>1, <1>2, <1>3 DEF Next, SetValidator, Tick, ClockSetBack, vars

LEMMA HeldInvariant == Spec => [](TypeOK /\ HeldInv)
<1>1. Init => HeldInv
  BY DEF Init, HeldInv
<1>. QED
  BY <1>1, TypeCorrect, HeldInvInductive, PTL DEF Spec

Answers == {"accepted", "invalid", "unsupported", "unavailable", "audience",
            "rollback", "future", "expired", "window"}

LEMMA AnswersOf ==
    ASSUME NEW d, NEW floor, NEW t, NEW installed
    PROVE  Validate(d, floor, t, installed) \in Answers
<1>1. SchemaAnswer(d, "v1", installed) \in {"ok", "unavailable", "unsupported", "invalid"}
  BY DEF SchemaAnswer
<1>2. SchemaAnswer(d, "v2", installed) \in {"ok", "unavailable", "unsupported", "invalid"}
  BY DEF SchemaAnswer
<1>3. EnvelopeAnswer(d, floor, t) \in
          {"ok", "audience", "rollback", "future", "expired", "window"}
  BY DEF EnvelopeAnswer
<1>4. /\ V1ContentAnswer(d) \in {"ok", "unsupported", "invalid"}
      /\ V2ContentAnswer(d, installed) \in {"ok", "unsupported", "invalid"}
  BY DEF V1ContentAnswer, V2ContentAnswer
<1>5. ValidateV2(d, floor, t, installed) \in Answers
  BY <1>2, <1>3, <1>4 DEF ValidateV2, Answers
<1>. QED
  BY <1>1, <1>3, <1>4, <1>5 DEF Validate, Answers

\* A state with its reason, for a runtime that holds a bundle or does not.
Says(standing, holds) ==
    \/ standing = <<"active", Absent>> /\ holds
    \/ standing = <<"expired", "bundle_expired">> /\ holds
    \/ standing = <<"stale_but_valid", "bundle_stale">> /\ holds
    \/ standing = <<"cold", "bundle_missing">> /\ ~holds
    \/ \E why \in Rejections : standing = <<"invalid", why>>
    \/ standing = <<"unsupported", "schema_unsupported">>

LEMMA StandingSays ==
    ASSUME NEW held, NEW answer \in Answers \cup Outcomes,
           answer = "accepted" => held # NoBundle,
           answer = "expired" => held # NoBundle
    PROVE  Says(Standing(held, answer), held # NoBundle)
BY DEF Standing, Rejected, Says, Answers, Outcomes, Rejections

\* A report of such a state is taken, and can be served, if the times of the
\* bundle it speaks of are in order.
LEMMA SaysIsTaken ==
    ASSUME NEW held, NEW at, NEW standing, now \in Nat,
           Says(standing, held # NoBundle),
           held # NoBundle => /\ at \in Nat /\ at <= now
                              /\ held.notAfter \in Int /\ at < held.notAfter
                              /\ held.version \in Int /\ held.version >= 0
    PROVE  Taken(Report(held, at, now, standing))
<1>. DEFINE h == Report(held, at, now, standing)
            p == Projection(h, now)
<1>. USE AbsentAssumption
<1>1. /\ h.state = standing[1] /\ h.reason = standing[2] /\ h.checked = now
      /\ h.reported = Absent /\ h.members = Nullable \cup {"state"} /\ h.flaws = {}
      /\ h.version = IF held = NoBundle THEN Absent ELSE held.version
      /\ h.revision = IF held = NoBundle THEN Absent ELSE held.version
      /\ h.digest = IF held = NoBundle THEN Absent ELSE "digest"
      /\ h.accepted = IF held = NoBundle THEN Absent ELSE at
      /\ h.expires = IF held = NoBundle THEN Absent ELSE held.notAfter
  BY DEF Report
<1>2. /\ p.reported = now
      /\ \A f \in {"state", "reason", "checked", "flaws"} \cup Metadata : p[f] = h[f]
  BY DEF Projection, Report, Metadata
<1>. HIDE DEF h, p
<1>3. now # Absent /\ (held # NoBundle => \A f \in Metadata : h[f] # Absent)
  BY <1>1 DEF Metadata
<1>4. held = NoBundle => \A f \in Metadata : h[f] = Absent
  BY <1>1 DEF Metadata
<1>5. Present(h) = IF held = NoBundle THEN {} ELSE Metadata
  BY <1>3, <1>4 DEF Present
<1>6. Present(p) = Present(h)
  BY <1>2 DEF Present
<1>7. InOrder(h) /\ InOrder(p)
  BY <1>1, <1>2, <1>3 DEF InOrder, Metadata
<1>8. h.state \in States /\ ValidStateReason(h, Present(h) = Metadata, TRUE)
  <2>1. (Present(h) = Metadata) <=> held # NoBundle
    BY <1>5 DEF Metadata
  <2>. QED
    BY <1>1, <2>1 DEF Says, ValidStateReason, States, ReasonOf, Rejections
<1>9. ValidStateReason(p, Present(p) = Metadata, TRUE)
  BY <1>2, <1>6, <1>8 DEF ValidStateReason
<1>10. ValidateHealth(h, FALSE) /\ ValidateHealth(p, TRUE)
  <2>1. \A f \in {"version", "revision"} : h[f] = Absent \/ h[f] >= 0
    BY <1>1
  <2>2. /\ p.state = h.state /\ p.reason = h.reason /\ p.checked = h.checked
        /\ p.flaws = h.flaws /\ p.version = h.version /\ p.revision = h.revision
        /\ p.digest = h.digest
    BY <1>2 DEF Metadata
  <2>3. Present(h) \in {{}, Metadata} /\ (h.checked # Absent) = TRUE
    BY <1>1, <1>3, <1>5
  <2>4. ValidateHealth(h, FALSE)
    BY <1>1, <1>3, <1>7, <1>8, <2>1, <2>3 DEF ValidateHealth
  <2>5. \A f \in {"version", "revision"} : p[f] = Absent \/ p[f] >= 0
    BY <2>1, <2>2
  <2>6. (p.checked # Absent) = TRUE /\ p.flaws = {} /\ p.state \in States
    BY <1>1, <1>8, <2>2, <2>3
  <2>7. ValidateHealth(p, TRUE)
    BY <1>2, <1>3, <1>6, <1>7, <1>9, <2>3, <2>5, <2>6 DEF ValidateHealth
  <2>. QED
    BY <2>4, <2>7
<1>11. Decode(h, FALSE)
  BY <1>1, <1>10 DEF Decode, Nullable, Metadata
<1>. QED
  BY <1>10, <1>11 DEF Taken, ValidateReadProjection, h, p

\* Whatever a refresh ends with, the runtime's report is taken and served,
\* unless the clock was set back to before the acceptance of the bundle held
\* or the first bundle to arrive has already run out.
THEOREM NothingToSayIsRefused == Spec => []StandingIsReportable
<1>1. ASSUME TypeOK, HeldInv PROVE StandingIsReportable
  <2>. SUFFICES ASSUME NEW r \in Refreshes,
                       Held(r[1], r[2]) # NoBundle => AcceptedAt(r[2]) <= now,
                       r[2] = "expired" => Held(r[1], r[2]) # NoBundle
                PROVE  Taken(AfterRefresh(r[1], r[2]))
    BY DEF StandingIsReportable
  <2>. DEFINE held == Held(r[1], r[2])
              at == AcceptedAt(r[2])
  <2>1. /\ r[2] \in Answers \cup Outcomes
        /\ r[2] = "accepted" => /\ r[1] \in Documents
                                /\ Validate(r[1], highest, now, hooks) = "accepted"
    BY AnswersOf DEF Refreshes, Answers, Outcomes
  <2>2. now \in Nat /\ \A i \in 1..Len(log) : log[i].at \in Nat
    BY <1>1, LogEntries, TimesAssumption DEF TypeOK, LogEntry
  <2>3. held # NoBundle =>
           /\ at \in Nat /\ at <= now
           /\ held.notAfter \in Int /\ at < held.notAfter
           /\ held.version \in Int /\ held.version >= 0
    <3>1. CASE r[2] = "accepted"
      BY <3>1, <2>1, <2>2, ValidateSound, DocumentsAssumption
      DEF Held, AcceptedAt, Acceptable, Document
    <3>2. CASE r[2] # "accepted"
      <4>1. Len(log) \in Nat
        BY <1>1 DEF TypeOK
      <4>2. held # NoBundle => held \in Documents /\ Len(log) \in 1..Len(log)
        BY <1>1, <3>2, <4>1 DEF Held, HeldInv, TypeOK
      <4>. QED
        BY <1>1, <3>2, <2>2, <4>2, DocumentsAssumption
        DEF Held, AcceptedAt, HeldInv, Document
    <3>. QED
      BY <3>1, <3>2
  <2>4. r[2] = "accepted" => held # NoBundle
    BY <2>1, NoBundleAssumption DEF Held
  <2>5. Says(Standing(held, r[2]), held # NoBundle)
    BY <2>1, <2>4, StandingSays
  <2>. QED
    BY <2>2, <2>3, <2>5, SaysIsTaken DEF AfterRefresh
<1>. QED
  BY <1>1, HeldInvariant, PTL
=============================================================================
