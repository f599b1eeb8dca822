--------------------------- MODULE ProviderReads ---------------------------
(***************************************************************************)
(* The calls of the read-only provider clients (providers/google.go,       *)
(* gmail.go, tito.go, github.go, notion.go, s3.go, freshbooks.go,          *)
(* mercury.go), request by request.  A call has passed Guard (see          *)
(* ConnectorContract); it checks that its resource has the shape its       *)
(* capability reads, and then sends one request or several, while the      *)
(* provider's data change, credentials are revoked or replaced, and        *)
(* requests fail.  Google, Gmail, Tito and GitHub have HTTP backends,      *)
(* which resolve the credential anew for every request; S3, Notion,        *)
(* FreshBooks and Mercury have backends in memory, or of the embedder,     *)
(* which are asked without one.                                            *)
(*                                                                         *)
(* A resource is the sequence of its segments.  The texts, headers and     *)
(* amounts of what is read are left out: what matters is which thing was   *)
(* read, where it then was, and whether it was read whole.                 *)
(***************************************************************************)
EXTENDS Integers, Sequences, FiniteSets, SequencesExt

CONSTANTS
    Callers,       \* who calls
    Asks,          \* the calls there can be: records of a capability, a resource,
                   \* the payload's own identifier, its number, and a credential
    Slugs,         \* the segments that titoSlug matches
    Numerals,      \* segment -> the number that strconv.Atoi reads in it
    Accounts,      \* the accounts that credentials give access to
    Drives, Types, \* shared drives; media types of files
    PageSize, MaxPages,    \* titoTicketPageSize, titoMaxTicketPages
    GmailDefault, GmailMax,  \* gmailDefaultPageSize, gmailMaxPageSize
    MaxTickets, MaxMessages, MaxChanges,   \* bounds
    Nothing        \* no identifier, no drive, no access

ASSUME PagesAssumption ==
    /\ PageSize \in Nat \ {0} /\ MaxPages \in Nat \ {0}
    /\ GmailMax \in Nat /\ GmailDefault \in 0..GmailMax
    /\ MaxTickets \in Nat
ASSUME NothingAssumption == Nothing \notin Accounts /\ Nothing \notin Drives

VARIABLES
    tickets,    \* the tickets of an event, in the order in which it lists them:
                \* the oldest first, as Tito is taken to do
    files,      \* file -> the drive that holds it, or Nothing, and its type
    mailboxes,  \* account -> its messages, the newest first
    access,     \* credential -> the account it opens, or Nothing once revoked
    changes,    \* how often others have changed any of these
    calls       \* caller -> the call it makes

others == <<tickets, files, mailboxes, access, changes>>
vars == <<others, calls>>

Credentials == {ask.credential : ask \in Asks}

-----------------------------------------------------------------------------
(* What the clients read: the shape of the resource by capability.  "*" is *)
(* a segment that is not empty, "@" a slug, "#" a number, "?" any segment. *)

DriveShape == <<"drive", "*">>
FileShape == <<"drive", "*", "files", "*">>
GoogleShapes ==
    {<<"drive.search", DriveShape>>, <<"drive.metadata.read", FileShape>>, <<"docs.read", FileShape>>}
GmailMessageShape == <<"gmail", "messages", "*">>
GmailShapes ==
    {<<"message.search", <<"gmail", "messages">>>>, <<"message.get", GmailMessageShape>>}
TitoShapes ==
    {<<"event.list", <<"tito", "@", "events">>>>,
     <<"event.get", <<"tito", "@", "events", "@">>>>,
     <<"release.list", <<"tito", "@", "events", "@", "releases">>>>,
     <<"ticket.summary", <<"tito", "@", "events", "@", "ticket-summary">>>>}
GitHubShapes ==
    {<<"repository.read", <<"repos", "*", "*">>>>,
     <<"issue.read", <<"repos", "*", "*", "issues", "#">>>>,
     <<"pull_request.read", <<"repos", "*", "*", "pulls", "#">>>>,
     <<"check.read", <<"repos", "*", "*", "checks", "*">>>>,
     <<"workflow.read", <<"repos", "*", "*", "workflows", "*">>>>}
NotionShapes ==
    {<<"page.read", <<"pages", "*">>>>, <<"database.query", <<"databases", "*">>>>,
     <<"search", <<"search">>>>}
S3Shapes == {<<"object.list", <<"s3", "?", "?">>>>, <<"object.read", <<"s3", "?", "*">>>>}
FreshBooksShapes ==
    {<<"invoice.read", <<"accounts", "*", "invoices", "*">>>>,
     <<"expense.read", <<"accounts", "*", "expenses", "*">>>>,
     <<"payment.read", <<"accounts", "*", "payments", "*">>>>,
     <<"client.read", <<"accounts", "*", "clients", "*">>>>}
MercuryShapes ==
    {<<"account.read", <<"accounts", "*">>>>, <<"balance.read", <<"accounts", "*">>>>,
     <<"transaction.read", <<"accounts", "*", "transactions", "*">>>>}

Shapes ==
    GoogleShapes \cup GmailShapes \cup TitoShapes \cup GitHubShapes \cup NotionShapes
        \cup S3Shapes \cup FreshBooksShapes \cup MercuryShapes
Shape(capability) == (CHOOSE x \in Shapes : x[1] = capability)[2]

FitsSegment(segment, pattern) ==
    CASE pattern = "*" -> segment # ""
      [] pattern = "@" -> segment \in Slugs
      [] pattern = "#" -> segment \in DOMAIN Numerals
      [] pattern = "?" -> TRUE
      [] OTHER         -> segment = pattern

Fits(resource, shape) ==
    /\ Len(resource) = Len(shape)
    /\ \A i \in DOMAIN shape : FitsSegment(resource[i], shape[i])

\* A search of Notion may name its query in the resource: all that follows the
\* first slash.
NamesQuery(ask) == Len(ask.resource) > 1
ResourceFits(ask) ==
    \/ Fits(ask.resource, Shape(ask.capability))
    \/ /\ ask.capability = "search" /\ NamesQuery(ask)
       /\ Head(ask.resource) = "search" /\ Tail(ask.resource) # <<"">>

\* What the payload itself says must agree with the resource, or be in range.
GmailPayload(ask) ==
    /\ ask.capability = "message.get" => ask.named \in {Nothing, Last(ask.resource)}
    /\ ask.capability = "message.search" => ask.number \in 0..GmailMax
TitoPayload(ask) == ask.capability = "event.list" =>
    ask.named \in {Nothing, "upcoming", "past", "archived"} /\ ask.number >= 0
\* Mutant: the prefix or key in the payload need not be that of the resource.
S3Unchecked(ask) == TRUE
S3Payload(ask) ==
    ask.capability \in {"object.list", "object.read"} => ask.named = Last(ask.resource)

\* The HTTP backend of Google has no writes.
Unavailable(ask) == ask.capability \in {"drive.doc.create", "drive.doc.update"}

\* What Invoke lets through to the backend.
Served(ask) ==
    ~Unavailable(ask) /\ ResourceFits(ask) /\ GmailPayload(ask) /\ TitoPayload(ask) /\ S3Payload(ask)

\* The identifiers in a resource, as the requests carry them: numbers as read.
Holes(ask) == {i \in DOMAIN Shape(ask.capability) : Shape(ask.capability)[i] \in {"*", "@", "#", "?"}}
Identifiers(ask) ==
    {<<i, IF Shape(ask.capability)[i] = "#" THEN Numerals[ask.resource[i]] ELSE ask.resource[i]>> :
        i \in Holes(ask)}

\* The one thing that a call of a single request asks for.  S3 lists the
\* prefix of the payload, Notion the query of the resource if it names one.
Thing(ask) ==
    CASE ask.capability = "object.list" -> <<"object.list", {<<2, ask.resource[2]>>, <<3, ask.named>>}>>
      [] ask.capability = "search"      ->
             <<"search", IF NamesQuery(ask) THEN Tail(ask.resource) ELSE <<ask.named>>>>
      [] OTHER -> <<ask.capability, Identifiers(ask)>>

-----------------------------------------------------------------------------
(* The calls.  due is the request a call sends next, got what it has read; *)
(* listed, seen and before are history, for the properties.                *)

Idle == [stage |-> "idle", ask |-> Nothing, due |-> "none", page |-> 0, left |-> << >>,
         token |-> Nothing, got |-> << >>, listed |-> << >>, seen |-> Nothing,
         before |-> 0, shrunk |-> FALSE]

FirstRequest(ask) ==
    CASE ask.capability \in {"drive.metadata.read", "docs.read"} -> "file"
      [] ask.capability = "message.search" -> "list"
      [] ask.capability = "ticket.summary" -> "page"
      [] OTHER                             -> "thing"

\* Tito counts its pages from one.
Begin(c, ask) ==
    /\ calls[c].stage # "reading"
    /\ calls' = [calls EXCEPT ![c] =
           IF Served(ask)
           THEN [Idle EXCEPT !.stage = "reading", !.ask = ask, !.due = FirstRequest(ask),
                             !.page = 1, !.before = Len(tickets)]
           ELSE [Idle EXCEPT !.stage = "failed"]]
    /\ UNCHANGED others

\* Mutant: a token that was resolved once serves the rest of the call.
ResolvedOnce(call) ==
    IF call.token # Nothing THEN call.token ELSE access[call.ask.credential]
\* CredentialResolver.Resolve, before every request.
Resolve(call) == access[call.ask.credential]

\* The call goes on, or ends with what it has got.
Continue(c, next) ==
    /\ calls' = [calls EXCEPT ![c] = [next EXCEPT !.token = Resolve(calls[c])]]
    /\ UNCHANGED others
Answer(c, next) == Continue(c, [next EXCEPT !.stage = "answered", !.due = "none"])

\* The clients whose backend resolves a credential.
OverHTTP(ask) == \E x \in GoogleShapes \cup GmailShapes \cup TitoShapes \cup GitHubShapes :
    x[1] = ask.capability

\* Their requests go out with a token only.
Sends(c, request) ==
    /\ calls[c].stage = "reading" /\ calls[c].due = request
    /\ OverHTTP(calls[c].ask) => Resolve(calls[c]) # Nothing

ReadThing(c) ==
    /\ Sends(c, "thing")
    /\ Answer(c, [calls[c] EXCEPT !.got = <<Thing(calls[c].ask)>>])

\* Mutant: the drive of the file is not compared.
AnyDrive(file, drive) == TRUE
\* A file of no shared drive is taken to be in the drive of the resource.
InDrive(file, drive) == file.drive \in {Nothing, drive}

ReadFile(c) ==
    LET call == calls[c]
        id == call.ask.resource[4]
        file == files[id]
        seen == [call EXCEPT !.seen = file.drive]
    IN /\ Sends(c, "file") /\ file.type # Nothing
       /\ InDrive(file, call.ask.resource[2])
       /\ IF call.ask.capability = "drive.metadata.read" THEN Answer(c, [seen EXCEPT !.got = <<id>>])
          ELSE /\ file.type \in {"document", "text"}
               /\ Continue(c, [seen EXCEPT !.due = file.type])

\* The Docs API serves documents alone, alt=media everything else.
ReadContent(c) ==
    LET id == calls[c].ask.resource[4]
    IN \E type \in {"document", "text"} :
           /\ Sends(c, type) /\ files[id].type # Nothing
           /\ type = "document" <=> files[id].type = "document"
           /\ Answer(c, [calls[c] EXCEPT !.got = <<id>>])

PageOf(ask) == IF ask.number = 0 THEN GmailDefault ELSE ask.number

Take(seq, most) == SubSeq(seq, 1, Min({most, Len(seq)}))

ListMessages(c) ==
    LET ids == Take(mailboxes[Resolve(calls[c])], PageOf(calls[c].ask))
        next == [calls[c] EXCEPT !.left = ids, !.listed = ids, !.due = "message"]
    IN Sends(c, "list") /\ IF ids = << >> THEN Answer(c, next) ELSE Continue(c, next)

\* Mutant: a message that is gone by now is left out of the page.
SkipMissing(c, id) == TRUE
Found(c, id) == id \in ToSet(mailboxes[Resolve(calls[c])])

ReadMessage(c) ==
    LET call == calls[c]
        id == Head(call.left)
        next == [call EXCEPT !.left = Tail(call.left),
                             !.got = IF id \in ToSet(mailboxes[Resolve(call)])
                                     THEN Append(call.got, <<id, Resolve(call)>>) ELSE call.got]
    IN /\ Sends(c, "message") /\ Found(c, id)
       /\ IF next.left = << >> THEN Answer(c, next) ELSE Continue(c, next)

\* A call that fails keeps nothing of what it has read.
Fails(c) ==
    /\ calls' = [calls EXCEPT ![c] = [Idle EXCEPT !.stage = "failed"]]
    /\ UNCHANGED others

\* Mutant: when the pages do not advance, the summary is started over.
StartOver(c) == Continue(c, [calls[c] EXCEPT !.page = 1, !.got = << >>])
\* Mutant: pages that do not advance are taken for the end of the list.
EndHere(c) == Answer(c, calls[c])
BadPage(c) == Fails(c)

Advances(page, next) == next > page /\ next <= MaxPages

\* Tito names the page after the one it serves, or 0 after the last; a server
\* that is stuck names one it has served.
NextPages(page) ==
    (IF page * PageSize < Len(tickets) THEN {page + 1} ELSE {0}) \cup 1..page

ReadPage(c) ==
    LET call == calls[c]
        page == SubSeq(tickets, (call.page - 1) * PageSize + 1,
                                Min({call.page * PageSize, Len(tickets)}))
    IN /\ Sends(c, "page")
       /\ \E next \in NextPages(call.page) :
              LET read == [call EXCEPT !.got = call.got \o page, !.page = next]
              IN IF next = 0 THEN Answer(c, read)
                 ELSE IF ~Advances(call.page, next) THEN BadPage(c)
                 ELSE Continue(c, read)

Read(c) ==
    ReadThing(c) \/ ReadFile(c) \/ ReadContent(c) \/ ListMessages(c) \/ ReadMessage(c) \/ ReadPage(c)

\* No token, no reply, a status other than 2xx, a body that does not parse.
Fail(c) == calls[c].stage = "reading" /\ Fails(c)

-----------------------------------------------------------------------------
(* The others: the people whose data these are, and those who connect and  *)
(* disconnect accounts.                                                    *)

Change ==
    /\ changes < MaxChanges /\ changes' = changes + 1

Sell ==
    /\ Change
    /\ \E t \in (1..MaxTickets) \ ToSet(tickets) :
           (\A u \in (1..MaxTickets) \ ToSet(tickets) : t <= u) /\ tickets' = Append(tickets, t)
    /\ UNCHANGED <<files, mailboxes, access, calls>>

\* The history of the summaries under way notes it.
Cancel ==
    /\ Change
    /\ \E i \in DOMAIN tickets : tickets' = RemoveAt(tickets, i)
    /\ calls' = [c \in Callers |-> [calls[c] EXCEPT !.shrunk = TRUE]]
    /\ UNCHANGED <<files, mailboxes, access>>

EditFile ==
    /\ Change
    /\ \E f \in DOMAIN files :
           files' \in {[files EXCEPT ![f].drive = d] : d \in Drives \cup {Nothing}}
                       \cup {[files EXCEPT ![f].type = t] : t \in Types \cup {Nothing}}
    /\ files' # files
    /\ UNCHANGED <<tickets, mailboxes, access, calls>>

\* Message ids are those of a mailbox: no two mailboxes share one.
Deliver ==
    /\ Change
    /\ \E a \in Accounts :
           /\ Len(mailboxes[a]) < MaxMessages
           /\ mailboxes' = [mailboxes EXCEPT ![a] = <<<<a, "new">>>> \o @]
           /\ <<a, "new">> \notin ToSet(mailboxes[a])
    /\ UNCHANGED <<tickets, files, access, calls>>

Discard ==
    /\ Change
    /\ \E a \in Accounts : \E i \in DOMAIN mailboxes[a] :
           mailboxes' = [mailboxes EXCEPT ![a] = RemoveAt(@, i)]
    /\ UNCHANGED <<tickets, files, access, calls>>

\* A credential is revoked, or connected to another account.
Reconnect ==
    /\ Change
    /\ \E k \in Credentials : \E a \in (Accounts \cup {Nothing}) \ {access[k]} :
           access' = [access EXCEPT ![k] = a]
    /\ UNCHANGED <<tickets, files, mailboxes, calls>>

Others == Sell \/ Cancel \/ EditFile \/ Deliver \/ Discard \/ Reconnect

\* The provider before any call: its event, its files and its mailboxes.
Init ==
    /\ tickets \in {[i \in 1..n |-> i] : n \in 0..MaxTickets}
    /\ files \in [{"f1"} -> [drive : Drives \cup {Nothing}, type : Types]]
    /\ mailboxes = [a \in Accounts |-> <<<<a, "b">>, <<a, "a">>>>]
    /\ access \in [Credentials -> Accounts]
    /\ changes = 0
    /\ calls = [c \in Callers |-> Idle]

Next ==
    \/ \E c \in Callers : (\E ask \in Asks : Begin(c, ask)) \/ Read(c) \/ Fail(c)
    \/ Others

\* Every request is answered or fails in the end.
Fairness == \A c \in Callers : WF_vars(Read(c) \/ Fail(c))

Spec == Init /\ [][Next]_vars
FairSpec == Spec /\ Fairness

-----------------------------------------------------------------------------
(* Properties.                                                             *)

\* A single request is for the thing that the resource names, to which the
\* decision was given, whatever the payload says; a file was in the drive
\* that the resource names, or in none, when it was looked at; it may be moved
\* between that and the reading of its content.
OfTheResource(call) ==
    CASE call.ask.capability \in {"drive.metadata.read", "docs.read"} ->
             call.got = <<call.ask.resource[4]>> /\ call.seen \in {Nothing, call.ask.resource[2]}
      [] call.ask.capability \in {"message.search", "ticket.summary"} -> TRUE
      [] call.ask.capability = "search" ->
             NamesQuery(call.ask) => call.got = <<<<"search", Tail(call.ask.resource)>>>>
      [] OTHER -> call.got = <<<<call.ask.capability, Identifiers(call.ask)>>>>

\* A page of messages is the page that was listed, all of it and of one
\* mailbox; a summary counts every ticket once, those there from the start and
\* those sold meanwhile, unless one was cancelled under it.
Whole(call) ==
    CASE call.ask.capability = "message.search" ->
             /\ Len(call.got) = Len(call.listed) /\ Len(call.got) <= GmailMax
             /\ \A i \in DOMAIN call.got :
                    call.got[i] = <<call.listed[i], call.listed[i][1]>>
      [] call.ask.capability = "ticket.summary" ->
             call.shrunk \/ (call.before <= Len(call.got) /\ IsPrefix(call.got, tickets))
      [] OTHER -> TRUE

\* What a call is answered with is what its resource names, and is whole: no
\* request that fails on the way leaves a part of it (google_http.go 80,
\* gmail_http.go 68, tito_http.go 118, s3.go 114).
AnsweredAsAsked ==
    \A c \in Callers : calls[c].stage = "answered" =>
        OfTheResource(calls[c]) /\ Whole(calls[c])

\* No summary is short of the tickets there are when its last page is read,
\* and none of those read before is dropped.  Tickets cancelled under it shift
\* the others across its pages, so that it may miss one; but then it has counted
\* one that is gone (tito_http.go 103-132).
TotalsNeverShort ==
    [][ \A c \in Callers :
            /\ calls[c].stage = "reading" /\ calls[c].due = "page" /\ calls'[c].stage = "answered"
            => /\ Len(calls[c].got) <= Len(calls'[c].got)
               /\ Len(tickets) <= Len(calls'[c].got)
               /\ calls[c].shrunk \/ Len(calls'[c].got) = Len(tickets) ]_vars

\* Once its credential is revoked a call of Google, Gmail, Tito or GitHub reads
\* nothing more, in the middle of its requests too: what it has got by then
\* does not grow, nor is it answered with (runtime.go 27, and Resolve in every
\* request).
RevokedReadsNothing ==
    [][ \A c \in Callers :
            /\ calls[c].stage = "reading" /\ access[calls[c].ask.credential] = Nothing
            /\ OverHTTP(calls[c].ask) /\ calls'[c] # calls[c]
            => \/ calls'[c] = [calls[c] EXCEPT !.shrunk = TRUE]
               \/ calls'[c].stage = "failed" /\ calls'[c].got = << >> ]_vars

\* How many requests a call still sends at most.
RequestsLeft(call) ==
    IF call.stage # "reading" THEN 0
    ELSE CASE call.due = "file"    -> 2
           [] call.due = "list"    -> GmailMax + 1
           [] call.due = "message" -> Len(call.left)
           [] call.due = "page"    -> (MaxPages - call.page) + 1
           [] OTHER                -> 1

\* Every request takes its call on, whatever the provider answers and however
\* its data change under the call: none is sent a second time, and no page or
\* message follows the last that a call may read (tito_http.go 103-132).
CallsAdvance ==
    [][ \A c \in Callers :
            /\ calls[c].stage = "reading"
            /\ calls'[c] \notin {calls[c], [calls[c] EXCEPT !.shrunk = TRUE]}
            => RequestsLeft(calls'[c]) \in 0..(RequestsLeft(calls[c]) - 1) ]_vars

\* Every call ends, also when pages keep coming and the server repeats itself,
\* if each request is answered or fails (tito_http.go 103-132).
CallsEnd == \A c \in Callers : calls[c].stage = "reading" ~> calls[c].stage # "reading"
=============================================================================
