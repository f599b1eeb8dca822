# TLA+ verification of kei-connector-contracts

The repository is a Go library. A runtime embeds it to decide what an agent or a
coding harness may do (policy bundles and their evaluators), to describe and call
connectors (contracts, governance, providers), and to record what was called
(audit). The library keeps almost no state of its own. What it is used *over*
does change: bundles are replaced, identity rows run out, rules and grants come
and go, a repository is pushed to while it is read. The modules here model the
library's code together with that changing surrounding, and check and prove what
must hold across the changes.

## 1. Inventory

| Component | State | Operations | Interacts with | What is hard |
|---|---|---|---|---|
| Bundle acceptance (`bundle/bundle.go`, `bundle/session.go`) | three validator hooks in package variables; the `Verified` bundle and the persisted version floor, both held by the runtime | `Validate`, `ValidateV2`, `Set…Validator`, `SubjectSnapshotFresh` | every evaluator reads the `Verified` bundle | replay, restart, hooks set late, clock skew, order of the checks |
| Policy decision (`policy/decide.go`, `policy/policy.go`) | none; rules and grants are the caller's | `Decide`, `DecideAt`, `MatchTarget`, `MatchPrincipal` | rendering, all bundle evaluators (matching language) | independence of the order of the rules, expiry, deny against grant |
| Policy rendering (`policy/render.go`) | none | `Render` | a harness enforces the entries on its own | overlap of patterns, denies that are not rendered |
| v1 evaluation (`bundle/evaluate.go`, `bundle/session.go`) | none; the bundle's policies and identities | `Evaluate`, `EvaluateConnector`, `EvaluateAction`, `SubjectRequired`, `EvaluateSession(At)` | acceptance (bundle), matching language | two evaluators of one bundle, unknown memberships, rows that expire |
| v2 evaluation (`bundle/evaluate_v2.go`, `harness_match.go`, `model_v2.go`, `session.go`) | none; the identity snapshot | `EvaluateV2HarnessTool`, `EvaluateV2Plan`, `EvaluateV2Shell`, `EvaluateV2MCP`, `EvaluateV2Model`, `V2HarnessTool`, `V2ConnectorTool` | acceptance (plan validator), harness match | revocation against duplicate rows, plans of several operations, priorities against deny overrides |
| Harness kinds and native lists (`harnessmatch/`, `bundle/harness_match.go`, `bundle/deny_overrides.go`) | none; the kind registry of the bundle | `EvaluateWith`, `EvaluateHarness`, `HarnessKindDecidesViaPDP`, `HarnessKindForShellTool` | v2 evaluation (the local PDP) | the same policies ordered in three ways, a kind that moves between deciders |
| Skills repository (`providers/skills_repo.go`, `skills_repo_http.go`) | one invocation's reads | `skills.list`, `skills.fetch` | GitHub's API; `contract` guard | a ref that moves between requests, partial failure, bounds |
| Connector contract (`contract/`) | none; the connector's metadata are the control plane's | `Metadata.Validate`, `ValidateExecutable`, `ValidateCall` (runtime), `AuthorizeCall` (control plane), account models, HTTP target policy | governance, providers | two gates over one call, of which one does not see the request |
| Governance (`governance/`) | none | `Decide` | contract, invoke | a decision taken before the call and acted on after it |
| Invoke client (`invoke/`, `envelope/`) | none | `Invoke`: mint the envelope, decide, build the audit record | governance, audit; its caller hands on to a provider | – |
| Audit (`audit/`) | a record per decision | `BuildAuditRecord`, whose span is the idempotency key or the trace | invoke | what a span stands for when calls repeat |
| Linear client (`providers/linear.go`, `linear_graphql.go`) | one invocation's requests; the entities are Linear's | reads, `issue.create`, `comment.create` | contract guard, Linear's API | lost and late answers, repetition under a key, keys that people share |
| Bundle health (`policybundlehealth/`, `schemas/`) | none; the runtime's standing after a refresh | `Decode`, `Validate`, `ValidateReadProjection`, and a JSON Schema of the same record | acceptance: an answer of the validator becomes a report | two statements of one contract, members that depend on each other, order of times under a corrected clock |
| Wire records (`access/`, `setup/`, `authorizerequest/`) | none | field validation, URL building | – | – |
| Manifest, call templates (`manifest/`, `calltemplate/`) | none | validation, string substitution | contract | – |
| Canonical resources, capabilities (`canonical/`, `capability/`) | name tables | lookup | providers | – |
| Other provider clients (`providers/*.go` of Google, Gmail, Tito, GitHub, Notion, S3, FreshBooks, Mercury) | of the Google, Gmail, Tito and GitHub backends, a credential per request | guard, shape of the resource, agreement of the payload, one HTTP request or several | contract guard, credential resolver, the providers | data that change between the requests of a call, partial failure, pages, a credential revoked half way |
| Database provider (`providers/database/`) | a pool of one connection, whose session outlives a query | `Open`, `Query`, `Close` | database/sql, Postgres | settings of the DSN against settings of the code, texts that write, set, end their transaction or never end, callers who share the connection, drops |
| Schemas, generators, test support (`schemas/`, `generate/`, `cmd/`, `canonical/canonicaltest/`) | none | – | – | – |

What makes each component correct:

- *Acceptance*: versions only rise; nothing is accepted outside its lifetime, for
  another installation or without its validators; what is accepted is usable.
- *Decision*: deny overrides, in any order of the rules; grants lift no deny;
  access widens only by what should widen it.
- *Rendering*: what a harness lets through by its own matching of its list, the
  decision permits, or has no rule for; the ways in which the two match
  differently are known.
- *v1*: a session and an online call of the same person get the same answer; not
  knowing something never allows more; time grants nothing.
- *v2*: a revoked key is refused whatever else the snapshot holds; the order of
  its rows is irrelevant; a plan is allowed only operation by operation; deny
  overrides where the bundle says so.
- *Harness kinds*: one decider per call; the native list and the local PDP do not
  contradict each other.
- *Skills*: an answer is one commit, read whole; list and fetch agree; calls end.
- *Contract and governance*: the runtime executes nothing that the control plane
  would refuse under the same metadata, and nothing is written under the name of
  a read, also when the metadata change between the decision and the call.
- *Linear writes*: a write is made after it was allowed, at most once for its
  person, capability and key, and every success tells of that one entity.
- *Health*: whatever a refresh ends with can be reported; code and schema take
  the same reports, but for what no schema says: the order of times, and that a
  zero time is none.
- *Provider reads*: an answer is of the resource that the decision was about, is
  whole, and where the backend resolves a credential, is read under a live one; no
  total is short; calls end.
- *Database*: an answer is whole; a query that does not itself end its transaction
  leaves nothing behind, so that connections stay as they were opened; queries end.

The hazards behind these, each at its line, are listed in `PROJECT.json`.

## 2. Modules

```
AcceptanceLog  <--refines--  PolicyBundle -- BundleHealth -- PolicyBundleProofs
PolicyPatterns --+-- RuleDecision -- RuleRendering (with PathGlobs) -- RuleDecisionProofs
                 +-- SubjectMatching --+-- SessionEvaluation -- SessionProofs
                                       +-- HarnessMatching (with PathGlobs) -- V2Evaluation
                                             -- HarnessDecision -- V2Proofs
SnapshotReads  <--refines--  SkillsRepo -- SkillsRepoProofs
ConnectorContract -- ConnectorCalls -- ConnectorCallsProofs
WriteOnce  <--refines--  ConnectorCalls
ProviderReads -- ProviderReadsProofs
DatabaseReads -- DatabaseReadsProofs
```

Each `MC…` module gives the constants of one specification their values for TLC.

**PolicyBundle** is `Validate`, `ValidateV2` and the hooks, in the order of the
code's checks, as functions of a document, the floor, the clock and the installed
hooks. A document is its schema, audience, version, times, subject mode and the
set of its *flaws*, one flaw for each content check that the model leaves opaque
(unknown field, schema, identity, plans, harnesses and so on). The runtime
around it is taken from how the API must be used: it calls with its clock and its
persisted floor (`Receive`, `ReceiveV2`), installs what is accepted, restarts
with its floor but without hooks or bundle (`Restart`), and has its clock tick or
corrected (`Tick`, `ClockSetBack`). The history variable `log` records the
acceptances. `AcceptanceLog` states what a service relies on: a log that only
grows, each entry newer than all before and within its lifetime.

**BundleHealth** is the report on a bundle: `ValidateHealth` and `Decode` check by
check, the published schema clause by clause beside them, and the report that a
runtime has to make when a refresh has ended, with the answer of `Validate` on
any document, without a bundle to fetch, or without a reply. The service that
fills a report in is not in the repository; what it says follows the names of the
states and reasons. It extends PolicyBundle and is checked in its states.

**PolicyPatterns** is the matching language (`MatchPrincipal`, `MatchTarget`). A
pattern is a record of a scheme and of the tokens behind the colon; whether a
token that ends in a slash is a prefix of another is a relation given by the
model, as is (in **PathGlobs**) whether a starred segment fits a name. There
`globMatch` is a recursive function: from which places of a path each place of
the glob matches, by what the later ones say.

**RuleDecision** is `Decide` and `DecideAt` over a sequence of rules and one of
grants that are edited at any position while the clock runs. The rule that
decides is the one that no other comes before, and the list of the outranked has
each of the others at the place that counting those before it gives, as a stable
sort has. **RuleRendering** extends it with `Render` and `targetsOverlap`; what
is rendered is a set, because a harness lets denies override and so reads nothing
from the order of its entries.

**SubjectMatching** holds what v1 and v2 share (`srcMatch`, the status gate).
**SessionEvaluation** is v1: the online walk for tools, connector calls and the
runtime's own model route (`EvaluateAction`), the session walk and the lookup of
memberships, as functions of the bundle, which is republished one policy or row
at a time while rows run out. **HarnessMatching** is `harnessmatch.go`: its walk
over the policies in their order is the least position at which the loop returns
(`FirstStop`), its list of those that hold (`PoliciesThatHold`) a set of
positions.
**V2Evaluation** is the subject gate and the five evaluators over a bundle whose
sections are republished. What the bundles of an installation may carry, and what
is asked of them, is the record `estate`, chosen once: its pools and bounds of
rows, checks, policies and kinds, its registered tools, its subjects and calls.
**HarnessDecision** adds the kind registry and `EvaluateHarness`, so that the
native list and the local PDP answer the same call in one state.

**SkillsRepo** is a list or fetch call as the sequence of requests it makes:
`Resolve`, `Walk`, `ReadTreeToList` or `ReadTreeToFetch`, `ReadFront`, one
`ReadBlob` per file, `Finish`, with `Fail` possible at each. `Push` moves the ref
between any two. An object id stands for its object. `SnapshotReads` states the
promise: a call fixes one commit that the ref named during the call, and answers
with what that commit holds, whole, or with a failure.

**ConnectorContract** holds the checks on a connector call as operators: of the
metadata, of the call by the runtime (`ValidateCall`, and `Guard` of the provider
clients) and by the control plane (`AuthorizeCall`, `Decide`), and the audit
record. Of the providers it has the four that differ in what the checks read:
Linear (writes and a scope map), Google Drive (a scope map with gaps), HTTP (no
fixed table) and Tito (read-only). A check of one field's own syntax is the flag
`sound`; tenant, workspace and connector, always compared together, are one
`place`.

**ConnectorCalls** is the way of a call. `Govern` is `invoke.Client.Invoke`: it
decides, and the record it leaves is kept with the call. A call that was allowed
is executed (`Invoke`) under the metadata of that later moment, or fails
(`Refuse`); `Configure` may come between. A read is one request (`Read`). A write
may first ask for its team (`FindTeam`), sends its mutation, and then hears the
answer (`Created`) or does not (`NotCreated`), after which it asks for the entity
of its client id (`Confirm`, `Unconfirmed`). Linear works on its own: it performs
a mutation that is on the wire (`Serve`) at any time, also after the call has
given up, or never (`Drop`). A retry is another call with the same request, since
the client itself repeats nothing. `WriteOnce` states what a caller who repeats a
write relies on: the writes allowed, the entities made, one for each write, and
the successes told.

**ProviderReads** is a call of a provider client behind `Guard`: `Begin` checks the
resource against the shape of its capability and against the payload, and the
call then sends its requests. Each has a credential resolved anew in the HTTP
backends of Google, Gmail, Tito and GitHub (`OverHTTP`, `Sends`); S3 is called
without one, and Notion, FreshBooks and Mercury have backends in memory only. A
call is one request (`ReadThing`); the metadata of a file and then its content (`ReadFile`,
`ReadContent`); a page of message ids and each message (`ListMessages`,
`ReadMessage`); page after page of tickets (`ReadPage`). The shapes that resources
have are a set of pairs with the capability, of which a capability has several
or none. Any request may fail
(`Fail`). Between any two, tickets are sold and cancelled, files move or change,
messages arrive and go, and credentials are revoked or connected to another
account.

**DatabaseReads** is the handle on a Postgres database: what `Open` makes of a DSN
that carries settings of its own (`WithReadOnlyParams`, where a URL and a
key-value DSN disagree on which of two equal keys counts), and `Query` of several
callers over the one connection (`BeginTx`, `Execute`, `NextRow`, and the deferred
rollback in `End`), with server timeouts, ended contexts, dropped connections and
`Close`. A query is a text: the statements before its last, and what the last
yields. `Query` hands it to the driver as it is. A driver of the extended protocol
refuses a text of several statements; one of the simple protocol, as lib/pq is for
a query without arguments, performs them one after the other (`Perform`), a
`COMMIT` among them too, and so `tx` says whether the transaction is still the one
that `Query` began. database/sql and Postgres are modelled from how the code uses
them.

## 3. Runs

| Run | Question | Bounds, and why they are enough |
|---|---|---|
| `policy_bundle` | Is what is accepted always newer, alive, ours, checked and usable, through replays, restarts, hook changes and a corrected clock, and can every outcome be reported? | Times 0–4 with skew 1 and window 2: a document may be early, on each edge, late or too long. The documents hold every flaw once, and four sound ones of three versions and two lifetimes, so that replays and rollbacks occur, a bundle replaces another that lives or has run out, and every report has a bundle it may be about. 50,920 states. |
| `rule_decision` | Does `Decide` deny-override in any order, can only edits and live grants widen, and is the rendered list no wider than `Decide`, but where the two match differently? | Two catalogs. In one up to 3 rules (permits and denies with ties), 1 grant, times 0–2: before, at and after expiry. In the other up to 2 rules, since overlap is a relation of two, over shell, path, connector and plain patterns and those of MCP servers and tools, among them each kind of pair whose overlap is not found, for known and unknown kinds. A harness matches by its own globs and prefixes. 108,279 states. |
| `session_evaluation` | Do the two v1 evaluators agree; is a decision without a subject final; does ignorance or time grant? | 6 calls, of which one by connector also names a tool, and 4 model routes; 2 policies of 7 and 2 rows in every order; a row live or run out; people approved, pending and revoked. 4,788 states. |
| `v2_decision` | Does the gate hold whatever rows stand in the snapshot; are plans decided operation by operation; do the native list and the PDP agree, and does each call have one decider? | Three installations. One with 2 of 6 rows (duplicate keys, linked and not, live or run out), 7 subjects, all five evaluators, the clock set back below the issue by the skew. One with up to 3 of 6 checks (permits and denies of several priorities), plans of up to 3 operations, a tool bound to no connector, the plan hook set and unset. One with 2 of 10 harness policies in both orders, one of them of another organization, commands and MCP tools, and 2 entries of a kind registry that takes over built-in kinds. Each bound is the least at which two things of its sort, and a deny, a permit and a third, can disagree. 102,048 states. |
| `skills_repo` | Is each answer one commit, read whole, and does each call end? | A listing and two fetches over six commits in which a skill is good, changed, misnamed, unsafe, over a bound, or absent; 2 files, so that a push falls between two reads. |
| `connector_calls` | Do the two gates agree; is a write made once, after it was allowed, and never as a read? | 3 interchangeable calls: one that writes, one that repeats it and one of another person or payload. 5 configurations of a Linear and 6 of an HTTP connector (suspended, of an unknown source of credentials, writes declared as reads, other allowlists, too small a grant, one subject), 7 and 10 requests. 250,685 states. |
| `provider_reads` | Is an answer of the resource, whole, and, over HTTP, read under a live credential, is no summary short, and does every call end? | One caller, since calls share nothing but what others change; 2 such changes, so that one falls before and one between requests; up to 5 tickets on pages of 2 with at most 2 pages, so that a summary can be too long; up to 3 messages, on pages of 1, 2 or too many; 2 drives, 2 accounts. Every capability class is asked for rightly and wrongly. 342,654 states. |
| `database` | Are answers whole, is nothing left behind by a text that stays in its transaction, are connections as `Open` meant them, does every query end? | 2 callers with 2 queries each, so that one caller's text precedes another's on one connection; 1 drop; 11 combinations of DSN and options: both forms, a session default of their own, no timeout, a doubled `sslmode`, a timeout below a millisecond's precision, row caps below and above the rows, a negative one, and a driver of the simple protocol; 9 texts: that read, write, set, never end, lift the read-only mode and write, and end the transaction and go on in another. 117,818 states. |
| `missing_validator`, `session_deny_overrides`, `render_overlap`, `always_rolled_back` | Does the code do what its documents say? | see section 5 |

In no specification may the system stop for good except that in `SkillsRepo`,
`ConnectorCalls` and `ProviderReads` the calls end (the ref still moves, the
connector is still reconfigured, a call can be made again), so deadlock is
checked everywhere but in `DatabaseReads`: there a handle that `Open` refused has
no further use, and the bound on queries ends the rest.

Each property has a mutant: a plausible bug of the code, kept next to the
definition that it alters, under which the run finds the property violated.
`PolicyBundle`, `RuleDecision`, `SessionEvaluation` and `V2Evaluation` have no type
invariant in their runs: their actions choose every variable from a set that they
name, and nothing about the types could go wrong that the run would find; what the
proofs need of them is proved. The types of `ConnectorCalls`, `DatabaseReads` and
`ProviderReads` are part of their proved invariants.

*Fairness.* Three specifications state some, each for one liveness property.
`SkillsRepo`: a call that has begun takes its next step eventually (weak fairness
of `Step(c)`); the code runs a call straight through in the caller's goroutine,
and each request ends in an answer or an error. `ProviderReads`: likewise, every
request is answered or fails (weak fairness of `Read(c) \/ Fail(c)`). That is not
assumed of a page that advances: `CallsEnd` has to hold against a server that
repeats its pages. The code of these clients sets no timeout itself; that a
request ends rests on the caller's context and HTTP client. `DatabaseReads`: the
server goes on with a statement, and stops one that runs beyond the timeout of
its session (weak fairness of `Runs(c)`); a caller who waits for the connection
gets it if it becomes free again and again (strong fairness of `BeginTx(c)`,
since database/sql hands it to one of the waiting at random). Nothing is assumed
of contexts: `QueriesEnd` rests on the statement timeout alone. Nothing is assumed
of new calls, of `Push`, or of the changes that others make. A call in
`ConnectorCalls` may be abandoned at any point, so nothing is promised to happen
there. The other components have no scheduling of their own and get safety
properties only.

## 4. What is proved

TLAPS checks the following for every value of the constants.

*PolicyBundleProofs*, from the assumption that skew and window are natural
numbers and that documents are well-typed records. An acceptance says of the document what
the checks say (`ValidateSound`, `ValidateV2Sound`). `FloorIsHighest` is the
strengthening: everything in the log is at or below the floor, and every
acceptance is above it, so an appended entry keeps the order. The invariant
`LogInv` carries with each entry its lifetime, audience and absence of schema
flaws. Hence `NoRollback`, `LifetimeBounded`, `AcceptedConform`,
`FloorTracksAcceptance`, and with one more lemma on the skew `UsableAtOnce`.
`ExpiryIsOurs` follows the order of the checks: "expired" is said of a document
that every other check has passed.
`Refinement` shows that every step appends one good entry to the abstract log or
stutters.

The same module proves what `BundleHealth` promises, for any documents and times.
`DecodeIsSchema` holds for every report, from a runtime or not: what the code
takes is what the schema admits with its times in order and none of them zero.
`OneContract` follows.
`NothingToSayIsRefused` needs the invariant `HeldInv`, that the bundle held was
accepted by the last entry of the log and within its lifetime then; the report on
it has its times in order only because of that.

*RuleDecisionProofs*, for any pool of rules with natural identifiers. `Decide`
sorts and takes the first; the proofs replace the sort by its first element,
whose existence is a least-element argument (`LeastNat`, `FirstExists`), and
obtain `DecisionIsDenyOverrides`. `GrantsLiftNoDeny` and `AccessWidensOnlyByGrant`
follow from a characterisation of when `DecideAt` permits (`PermittedWhen`).
`OrderCountsForNothing` compares a slice of rules with the reversed one. That
every rule has one place and every place one rule (`PlacesTaken`) is shown by
counting: the rules before one are fewer than those before any later one, so the
places are distinct, and as many as there are rules. Rules of one identifier may
then swap their places, but the list of the outranked keeps the identifiers in
them, as identifier and effect alone say who comes first.
`RenderingNeverWidens` needs only that what a harness holds is a deny of the
rules or was compared with every deny that it does not hold. It asks, as the run
does, that no rule has a condition on another harness, and it has two exceptions
(`MatchedByHarness`): `Decide` has no rule where it compares a glob or an MCP
server as a whole, and a harness reads literally a deny whose last shell token
opens a directory (section 5).
`OverlapsWithheld` says of any rules that a permit is withheld while a deny that
the harness does not hold covers a target of it, by either way of matching, but
for four kinds of pairs
which section 5 names (`Overlooked`). It goes scheme by scheme (`OverlapFound`):
two shell patterns that both lead one command are prefixes of each other; a plain
pattern without a star covers only itself (`NamesThemselves`); globs go by the recursion of
`globMatch`. That some function satisfies the equation of this recursion is shown
first (`StartsExist`, `GlobStarts`), by adding a place of the glob at a time. Up to
its first two stars a glob then matches segment by segment (`SegmentBySegment`),
and where a path has ended only pairs of stars can be left (`OnlyStarsAreLeft`);
each is an induction put as a least counterexample. So two globs that match one
path agree segment by segment as far as `globsOverlap` asks (`GlobOverlapFound`).
The assumptions are that a request has its fields and that patterns are records of
a scheme and a sequence of tokens.

*SessionProofs*, for any bundle, person and call, and any order in which policies and
rows were published. Each walk over the policies is replaced by what it finds, in
terms of three sets of policies that reach the call: those that match the person
or might, those that name someone, those that ask for memberships (`WalkOfNoOne`,
`WalkOfSomeone`, and the same for a session). The theorems compare such sets.
`SessionIsOnline` needs that a person without a row is asked about with no
memberships in both; `IgnoranceHelpsNoOne` that to know more makes a difference
only at policies that were unresolved, so none before the one that allowed
(`MoreIsKnown`), of people who are linked and granted; `FinalWithoutSubject` that an
undecided call is never answered as decided (`FinalForNoOne`), also for a tool
that acts for a user of its own, so that the walk finds the same policy for
whoever is asked about (`WalkIsFinal`, `PoliciesFinal`), and only the status of a
person who is not approved can still turn the answer into a refusal;
`TimeGrantsNothing` that of what a session
knows, time can only take away (`TimeForgets`). Assumed is that a call has its
fields, that a row runs out at a natural time or never, that no person is the
absence of one, and that a route of the runtime's own hands in no person, which
is what `EvaluateAction` is for (`evaluate.go:173`).

*SkillsRepoProofs*, for any number of calls, commits and contents in which a
folder holds a path once. `IInv` says what a call at each stage holds: the tree
of the commit it resolved, and copies of exactly those planned files that are no
longer to do. Without the second part the result of the last read could not be
known to be whole. `ListIsSnapshot` and `FetchIsSnapshot` show that such a result
is what the commit holds; `FetchedListed` and `Refinement` follow.
`ReadsAreBounded` counts what a call has yet to read and has read: the plan is
made within the limits (`ListPlan`, `FetchPlan`) and each read only moves a file
from the one to the other (`StepWithin`). It assumes that folders and files of a
commit are finitely many, without which nothing could be counted. `CallsGoOn` says
that every step of a call lowers a count of the stages and files before it: no
stage comes twice, and their number is bounded.

*ConnectorCallsProofs*, for any metadata, requests, calls and people, assuming
that every provider has its set of requests and that each invocation has its
fields. `GatesAgree` follows the checks of `Guard` one by one to those of `Decide`
on the same call without its HTTP request (`GuardImpliesDecide`); it needs that
the request is for the resource, which the control plane's comment states and no
code checks. `ActsForTheCaller` shows whose account is used. `CallInv` says what a
call at each stage carries: its request, the record that allowed it, that it is a
write if it is at a write, and that its answer is in Linear under its own client
id, with which the call is over. Without the last part a success could be taken
back, without the record a mutation on the wire could be one that was never
allowed. `CallsHold` proves it inductive. `WritesAreNoReads` needs one thing more,
that a call which looks for its team is no read, and `Refinement` maps `Govern`
to `Allow`, `Serve` to `Make`, `Created` and `Confirm` to `Tell`, and the rest to
stuttering, because equal client ids mean equal writes (`SameWrite`). The digest
in `LinearWriteID` is taken to be injective. What the promise comes to is proved
of the abstract specification and carried over by the refinement
(`RepeatersAgree`): there is at most one entity for a write, and whoever is told
of its success, for a first call or a repetition, is told of that one.

*V2Proofs*, for any installations: rows, checks, policies, registries, and bounds.
The assumptions are that the registered tools are finitely many and that the
built-in kinds are among the kinds, that effects are permit or deny and policy
identifiers natural numbers, that the operations of a plan are a sequence, and
that a command or an MCP tool comes without a path and names no harness.
`RevocationHolds` goes from the row to the gate (`UnlinkedKey`: a row that is not
linked leaves its key no row that is) and
from the gate to each evaluator (`NothingPastTheGate`). `ResolvedHolds` follows
each evaluator past the check of the registration, in the state after the one in
which the name was resolved: a registration never changes within an installation,
so only a binding without a connector, a second registration or a new validator
is left (`HarnessToolIsKnown`, `PlannedToolIsKnown`). `OnlyLinkedRowsLend` and
`RowOrder` compare two snapshots. Each restates the evaluators as functions of
what they read of a bundle (`Reading`, `HarnessReading`), so that it is left to
show that the reading is the same: after a further row that is not linked,
because it lends no memberships and opens no gate (`FurtherRow`); after a
reversal, because a lookup asks for the only row of a key and not for the first
(`ReversedStatus`), and memberships are unions (`ReversedMemberships`).
`OneDecider` holds because a shell tool is named only for a kind that the PDP
decides. `DenyBinds` and `NativeAgrees` go by the policies that hold for a call:
under deny overrides the one that decides is a deny if any of them is, whatever
its position or priority (`FirstStop` and the winner of a list exist by a
least-element argument). For these the invariant is `PoliciesHeld`, that lists
carry nothing but policies of the installation, through every edit. `NativeAgrees`
then shows that a deny which reaches the local PDP also reaches the native list
that would permit the command or MCP tool, for whichever kind (`OnlineStopsNative`,
`NativeFollowsOnline`). `OnlineAgrees` is the converse: what stops the walk of the
local PDP with a permit also stops that of the list (`NativeStopsOnline`,
`OnlineFollowsNative`), because both grant a command by the same literal prefixes.

*ProviderReadsProofs*, for any number of callers and any changes, page sizes and
bounds that are natural numbers. `RevocationHolds` has one step for each request
of a call, and speaks of the four backends that resolve a credential.
`AnsweredWhole` needs an invariant of calls under way (`IInv`). A page
of messages: those read are, in their order, the listed ones that are not left to
read, each read from the mailbox in which it was listed (`Going`). A summary:
as long as nothing was cancelled, what was read is the list up to the page
reached, also when tickets were sold since (`SummaryOK`); a ticket that was
counted twice could not otherwise be excluded, nor one that was passed over. A
file: it was in the drive asked for, or in none, when its metadata were read. The same
statements must survive what others do between two requests, which is a lemma for
each such step (`SellStep`, `CancelStep`, `DeliverStep`, `DiscardStep`,
`ReconnectStep`). The answer of the last request is whole because of them
(`AllGot`, `SummaryIsWhole`). If tickets are cancelled, what remains is that the
pages before the last were full when they were read, which alone gives
`NeverShort`: the summary has as many tickets as there are, one that it missed made
up for by one that is gone. `CallsGoOn` bounds the requests of a call, whatever a
server answers; it needs that a page under way is within `MaxPages` and that a
page of messages still has some left.

*DatabaseReadsProofs*, for any DSNs, texts, drivers and number of callers. `Inv`
joins `Types` with three facts: `OneRuns`, that at most the caller of the
transaction is past waiting; `Alone`, that a driver of one statement at a time
performs nothing before a last one, so that the transaction found what a new
connection has and nothing was written; and `Gets`, that a caller has got no more
rows than there are and than the cap allows. From it `OnlyWholeAnswers`.
`TextsStayWithin` follows the steps of a text that holds no `COMMIT`: all of it runs
in the transaction that `Query` began, whose end takes back what it wrote and set.
`NothingStays` is of drivers of one statement at a time, and joins the invariant
with what a DSN comes to: the place of a repeated key that counts is the only such
one (`PlaceThatCounts`), so that what `Open` appends (`AddedLast`) counts in a
key-value DSN always, and in a URL unless it names the key itself
(`StartUpAsOpened`). `QueriesGoOn` has a query take three steps more than the rows
it may keep and the statements before its last, at most, whatever happens to its
connection.

*Proved, and not a property of a run*: the types of `PolicyBundle`, `RuleDecision`
and `SessionEvaluation`, `NoRollback`, `LifetimeBounded` and `FloorTracksAcceptance`,
which follow from what the runs check or say little that could fail; and `CallsGoOn` of two
modules, `QueriesGoOn` and `RepeatersAgree`, whose runs check the liveness and the
promise that they belong to.

*Only model-checked*: `CallsEnd` of two specifications and `QueriesEnd`, since
liveness under fairness is beyond the prover. Their safety side is proved: by
`CallsGoOn` and `QueriesGoOn` every step of a call lowers a natural number, so that
what liveness adds is only that a call which can take a step takes one.

## 5. Where code and documents disagree

- `session_deny_overrides`: `EvaluateSessionAt` stops at the first match although
  the bundle opted in to `deny_overrides` (README, `bundle/deny_overrides.go`).
- `missing_validator`: a validator that is not installed makes every bundle
  invalid; the package comment and the README say that it is not applied.
- `render_overlap`: connector patterns are compared as whole strings
  (`render.go:123`), so a permit on `connector:gh.issues` is rendered beside a
  switched-off deny on `connector:gh.*`, which is not. The same happens to three
  other kinds of pairs, which `Overlooked` names with it. Of two globs the test
  finds no overlap where the longer goes on with `**` (`render.go:170`), which
  `MatchTarget` lets take no segment (`docs/harness-match.md:58`): `path:a/**` covers
  `a` as `path:a` does. A last shell token that ends in a slash is a prefix to
  `MatchTarget` and compared as it is (`render.go:147`): `shell:git /t/` and
  `shell:git /t/x` are not found to overlap. An MCP server covers its tools in a
  harness, and is another string than any of them. `OverlapSeen` is the property
  for all other pairs, run in `rule_decision` and proved.
- `always_rolled_back`: `Query` hands any text to the driver (`database.go:267`). A
  driver that sends several statements in one message lets a `COMMIT` in the text
  end the transaction, and what follows it runs outside, in the session's own
  mode, which a `SET` may have changed. `database.go:257-259` says that the
  transaction is always rolled back and that SQL cannot lift the read-only mode;
  the package comment (`22-29`) leaves the guarantee to the role of the DSN, which
  is where it lies. `TextsWithinTheirTx` is what holds of all other texts.

Smaller observations, not given a run:

- `Render` never reads `Rule.When`, and renders a rule, permit or deny, to a kind
  that its condition excludes. `RenderedNeverWider` is stated while no rule has a
  condition on another kind.
- A harness matches path globs and MCP servers (`harnessmatch.go:209-222`), which
  `Decide` compares whole: what a rendered permit lets through, `Decide` may have
  no rule for. And it compares the last token of a shell pattern as it is
  (`harnessmatch.go:196`), where `Decide` takes one that ends in a slash for a
  directory (`decide.go:196`): a deny so written binds more in `Decide`.
- The schema of a health report takes the time 0001-01-01T00:00:00Z
  (`runtime-policy-bundle-health.v1.schema.json:16-18`), which `health.go:114` refuses as
  none. `CodeAgreesWithSchema` says so.
- `harnessmatch.go:145` answers `human_source` at the first policy with a human
  source; `docs/harness-match.md:36` says "the only matching source".
- `docs/harness-match.md:35` names `custom` alone for `evaluate_via_pdp`; the
  code also answers it for `pi`. The comment at `harnessmatch.go:68` writes
  `mcp:<server>/<tool>`, the code uses a dot.
- The memberships that shell and MCP decisions use include the groups of a
  revoked or pending row of a person who has another linked row; tools and plans
  leave them out.
- A v1 row that revokes its user stops doing so when it runs out; in v2 it does
  not. `ClockNeverGrants` is stated with this exception.
- The native list keeps a policy by its agent alone (`harness_match.go:209`), where
  the local PDP also asks for its organization and workspace
  (`evaluate_v2.go:371`): a deny of another organization binds only natively.
  `OnlinePermitStandsNatively` is stated with this exception.
- `V2ConnectorTool` takes any binding (`evaluate_v2.go:87`), `EvaluateV2Plan` one
  that names a connector (`241`): a tool with an empty `connector_id` is resolved,
  and then not registered.
- `SubjectRequired` asks `Evaluate` of every call (`evaluate.go:123`), which looks a
  tool up by its name. A call by connector without a tool is answered "not
  required" although `EvaluateConnector` may ask for a subject;
  `SubjectFreeIsFinal` is of what `Evaluate` answers.
- `V2ConnectorTool` passes over an invalid first registration of a name,
  `EvaluateV2Plan` decides on the first. A runtime that resolves a tool and
  evaluates its plan may also do so on two bundles.
- `skills_repo.go:91` says that a client can fetch every skill from the listed
  commit; `skills.fetch` takes no commit and resolves the ref again.
- `linear_graphql.go:237` says that the read after a failed mutation tells a
  replay "from a write that did not happen". The mutation may still arrive after
  that read: a write reported as failed can exist. A caller who repeats it under
  the same key is told of the entity, so `WriteOnce` holds.
- `LinearWriteID` covers neither payload nor resource: a key repeated with
  another issue text or team is answered with the first entity.
- The audit span of a call is its idempotency key alone (`audit.go:83` calls it
  the dedupe key), so writes of two people that `LinearWriteID` keeps apart share
  a span, and so do a denied call and its allowed repetition.
- `ValidateCall` does not compare the path of the HTTP request with the resource
  that the control plane decided on (`contract.go:382`); `ExecutableIsAuthorized`
  is stated for calls where they are equal.
- A Google Drive connector with an OAuth grant that declares `drive.doc.create`
  and a mapped scope is always refused, since that capability has no scope.
- `database.go:256-264` says that the error of a query never contains the DSN or
  the password; `Query` returns the driver's error as it is, `Open` redacts.
- `database.go:209-212` and `242` say that every connection starts read-only and
  with a timeout, because both parameters are added to the DSN. In a URL the first
  value of a key counts, and the added ones come last: a URL that says
  `default_transaction_read_only=off` or `statement_timeout=0` keeps its own.
  `ConnectionsAsOpened` is stated for all other DSNs. The transaction of each query
  begins read-only nonetheless, and stays so unless its own text lifts the mode.
  Without a timeout a query may never end, and `QueriesEnd` is stated for
  connections that have one. A timeout below one millisecond is none either.
- `tito.go:247` says that an identifier can never reshape the path of a request;
  an event whose slug is `events`, `past` or `archived` has the path of a list.
- The summary of an event misses a ticket that was there throughout if another
  is cancelled between two pages, since pages are read by number.
  `AnsweredAsAsked` is stated with this exception; `TotalsNeverShort` is what holds
  then.
- A file that is moved after its metadata were checked (`google_http.go:87`) is
  still read: `AnsweredAsAsked` is of the drive in which it was then.
- A summary takes tickets to be listed oldest first, which is nowhere stated of
  Tito's API; `AnsweredAsAsked` and `TotalsNeverShort` rest on it.
- A file of no shared drive is read under the drive that the resource names,
  whichever that is; the query that a Notion search names in its resource
  displaces that of the payload; S3 accepts an empty bucket name in a resource.
- A health report cannot be made (`health.go:130`, `158`) after the clock was set
  back to before the acceptance, nor on a first bundle that has run out before it
  was accepted. `StandingIsReportable` is stated with these exceptions.
- The Google write identifier, like Linear's, leaves out the resource.
- A mutation that succeeds with an unusable body is answered as a failure without
  the confirming read.

## 6. Not modelled

- Parsing and formatting (`policy/typed.go`, the JSON readers, URLs, frontmatter):
  the models begin with the parsed value, and a parser's refusal is a flaw or a
  failure.
- Writes of Google documents: only `MemoryGoogle` implements them, the
  authenticated backend does not.
- `MemorySkillsRepo` and `canonicaltest`: test support.
- A hook set from another goroutine while `Validate` runs: no caller does it and
  the documents ask for installation at start-up.
- The syntax of single fields of connector metadata and HTTP requests
  (identifiers, host names, headers, limits), the reasons of decisions, what a
  Linear read returns, `MemoryLinear`.
- Manifests, call templates, and the records of access, setup and authorization
  links (`manifest/`, `calltemplate/`, `access/`, `setup/`, `authorizerequest/`):
  each validates or prints one document field by field and keeps no state; what
  could go wrong is in the syntax, which unit tests with examples reach better.
- Discord and Grafana, which have checks of a payload and no client here; what
  the providers' texts, headers and amounts say.
- The redaction of errors, and what a driver or a server puts into them.

## 7. Plan

Done: the modules above, most important first (acceptance, decision and
rendering, v1, v2, harness kinds, skills, connector calls, bundle health,
provider reads, the database handle) and their proofs.

Every safety property that a passing run checks is a theorem. What is left:

1. Proofs: that the rows of an estate keep within their bounds.
2. A property for the hazard that has none: slugs that name the path of a list,
   which the models do not hold.
3. Models: `calltemplate` and `manifest` as validators of one document, if their
   rules come to depend on each other; the runtime of several connectors that
   share credentials.

Runs that ask one question of one specification are kept together, so that new
components enter by a run of their own or as part of the specification they
interact with.
