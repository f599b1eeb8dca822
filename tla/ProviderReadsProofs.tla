------------------------ MODULE ProviderReadsProofs ------------------------
(* Theorems about ProviderReads for every set of callers, calls, accounts   *)
(* and data: what a revoked credential ends, and that an answer is what was *)
(* asked for, whole.                                                        *)
EXTENDS ProviderReads, SequenceTheorems, TLAPS

CallsInv == calls = [c \in Callers |-> calls[c]]

LEMMA ReadChangesOne ==
    ASSUME NEW c \in Callers, Read(c)
    PROVE  /\ calls[c].stage = "reading"
           /\ \/ OverHTTP(calls[c].ask) => Resolve(calls[c]) # Nothing
              \/ Fails(c)
           /\ \E next : calls' = [calls EXCEPT ![c] = next]
           /\ access' = access
<1>1. ASSUME ReadThing(c) \/ ReadFile(c) \/ ReadContent(c) \/ ListMessages(c) \/ ReadMessage(c)
      PROVE  (\E request : Sends(c, request)) /\ \E next : Continue(c, next)
  BY <1>1 DEF ReadThing, ReadFile, ReadContent, ListMessages, ReadMessage, Answer
<1>2. ASSUME ReadPage(c)
      PROVE  Sends(c, "page") /\ (Fails(c) \/ \E next : Continue(c, next))
  BY <1>2 DEF ReadPage, Answer, BadPage
<1>. QED
  BY <1>1, <1>2 DEF Read, Sends, Continue, Fails, others

LEMMA CallsInvInductive == CallsInv /\ [Next]_vars => CallsInv'
<1>. SUFFICES ASSUME CallsInv, [Next]_vars PROVE CallsInv'
  OBVIOUS
<1>1. ASSUME NEW c \in Callers, NEW next, calls' = [calls EXCEPT ![c] = next] PROVE CallsInv'
  BY <1>1 DEF CallsInv
<1>2. ASSUME NEW c \in Callers, NEW ask \in Asks, Begin(c, ask) PROVE CallsInv'
  BY <1>1, <1>2 DEF Begin
<1>3. ASSUME NEW c \in Callers, Read(c) PROVE CallsInv'
  BY <1>1, <1>3, ReadChangesOne
<1>4. ASSUME NEW c \in Callers, Fail(c) PROVE CallsInv'
  BY <1>1, <1>4 DEF Fail, Fails
<1>5. CASE Cancel
  BY <1>5 DEF Cancel, CallsInv
<1>6. CASE UNCHANGED calls
  BY <1>6 DEF CallsInv
<1>. QED
  BY <1>2, <1>3, <1>4, <1>5, <1>6
  DEF Next, Others, Sell, EditFile, Deliver, Discard, Reconnect, vars

\* A call of Google, Gmail, Tito or GitHub whose credential is revoked reads
\* nothing more and is not answered, for any calls, data, changes and number of
\* callers.  The other clients ask their backends without a credential.
THEOREM RevocationHolds == Spec => RevokedReadsNothing
<1>. DEFINE Step == \A c \in Callers :
            /\ calls[c].stage = "reading" /\ access[calls[c].ask.credential] = Nothing
            /\ OverHTTP(calls[c].ask) /\ calls'[c] # calls[c]
            => \/ calls'[c] = [calls[c] EXCEPT !.shrunk = TRUE]
               \/ calls'[c].stage = "failed" /\ calls'[c].got = << >>
<1>1. CallsInv /\ [Next]_vars => [Step]_vars
  <2>. SUFFICES ASSUME CallsInv, Next,
                       NEW c \in Callers, calls[c].stage = "reading",
                       access[calls[c].ask.credential] = Nothing, OverHTTP(calls[c].ask),
                       calls'[c] # calls[c]
                PROVE  \/ calls'[c] = [calls[c] EXCEPT !.shrunk = TRUE]
                       \/ calls'[c].stage = "failed" /\ calls'[c].got = << >>
    OBVIOUS
  <2>1. ASSUME NEW d \in Callers, NEW next, calls' = [calls EXCEPT ![d] = next] PROVE d = c
    BY <2>1 DEF CallsInv
  <2>2. ASSUME NEW d \in Callers, Fails(d)
        PROVE  calls'[c].stage = "failed" /\ calls'[c].got = << >>
    BY <2>1, <2>2 DEF Fails, Idle, CallsInv
  <2>3. ASSUME NEW d \in Callers, NEW ask \in Asks, Begin(d, ask) PROVE FALSE
    BY <2>1, <2>3 DEF Begin
  <2>4. ASSUME NEW d \in Callers, Read(d) PROVE Fails(d)
    BY <2>1, <2>4, ReadChangesOne DEF Resolve
  <2>5. ASSUME Cancel PROVE calls'[c] = [calls[c] EXCEPT !.shrunk = TRUE]
    BY <2>5 DEF Cancel
  <2>. QED
    BY <2>2, <2>3, <2>4, <2>5
    DEF Next, Fail, Others, Sell, EditFile, Deliver, Discard, Reconnect
<1>2. Init => CallsInv
  BY DEF Init, CallsInv
<1>. QED
  BY <1>1, <1>2, CallsInvInductive, PTL DEF Spec, RevokedReadsNothing

-----------------------------------------------------------------------------
(* What is answered is what was asked for, whole.                          *)

Fields == {"stage", "ask", "due", "page", "left", "token", "got", "listed", "seen",
           "before", "shrunk"}

Ids == {"a", "b", "new"}
Messages == Accounts \X Ids

\* Where the data stand: a mailbox holds messages of its own, a credential
\* opens an account or none.
DataOK ==
    /\ tickets \in Seq(Nat)
    /\ mailboxes = [a \in Accounts |-> mailboxes[a]]
    /\ \A a \in Accounts : mailboxes[a] \in Seq({a} \X Ids)
    /\ access \in [Credentials -> Accounts \cup {Nothing}]

\* A page of messages under way: those got and those left are those listed, in
\* their order, each got from the mailbox that it was listed in.
Going(left, listed, got) ==
    /\ left \in Seq(Messages) /\ listed \in Seq(Messages) /\ got \in Seq(Messages \X Accounts)
    /\ Len(listed) <= GmailMax
    /\ Len(got) + Len(left) = Len(listed)
    /\ \A i \in 1..Len(got) : got[i] = <<listed[i], listed[i][1]>>
    /\ \A j \in 1..Len(left) : left[j] = listed[Len(got) + j]

PageOK(call) == Going(call.left, call.listed, call.got) /\ call.left # << >>

\* A summary under way has read full pages so far, whatever was cancelled:
\* another only follows one that is full.  If nothing was, it has read the
\* first tickets of the event.
SummaryOK(call, list) ==
    /\ call.got \in Seq(Nat) /\ call.before \in Nat
    /\ call.page \in Nat \ {0} /\ call.page <= MaxPages
    /\ Len(call.got) = (call.page - 1) * PageSize
    /\ \/ call.shrunk
       \/ /\ call.before <= Len(list) /\ Len(call.got) <= Len(list)
          /\ \A i \in 1..Len(call.got) : call.got[i] = list[i]

\* What a request is due to, and what the call holds by then.
ReadingOK(call, list) ==
    LET capability == call.ask.capability
    IN /\ call.ask \in Asks /\ Served(call.ask)
       /\ call.due \in {"thing", "file", "document", "text", "list", "message", "page"}
       /\ call.due = "thing" => FirstRequest(call.ask) = "thing"
       /\ call.due = "file" => capability \in {"drive.metadata.read", "docs.read"}
       /\ call.due \in {"document", "text"} =>
              capability = "docs.read" /\ call.seen \in {Nothing, call.ask.resource[2]}
       /\ call.due = "list" => capability = "message.search" /\ call.got = << >>
       /\ call.due = "message" => capability = "message.search" /\ PageOK(call)
       /\ call.due = "page" => capability = "ticket.summary" /\ SummaryOK(call, list)

\* Whole(call), of a list of tickets.
WholeIn(call, list) ==
    CASE call.ask.capability = "message.search" ->
             /\ Len(call.got) = Len(call.listed) /\ Len(call.got) <= GmailMax
             /\ \A i \in DOMAIN call.got :
                    call.got[i] = <<call.listed[i], call.listed[i][1]>>
      [] call.ask.capability = "ticket.summary" ->
             call.shrunk \/ (call.before <= Len(call.got) /\ IsPrefix(call.got, list))
      [] OTHER -> TRUE

AnsweredOK(call, list) ==
    /\ OfTheResource(call) /\ WholeIn(call, list)
    /\ call.ask.capability = "ticket.summary" => call.got \in Seq(Nat)

CallOK(call, list) ==
    /\ DOMAIN call = Fields
    /\ call.stage \in {"idle", "reading", "answered", "failed"}
    /\ call.stage = "reading" => ReadingOK(call, list)
    /\ call.stage = "answered" => AnsweredOK(call, list)

\* The inductive invariant.
IInv == CallsInv /\ DataOK /\ \A c \in Callers : CallOK(calls[c], tickets)

\* What an answer, and a call under way, is judged by.
LEMMA AnsweredReads ==
    ASSUME NEW a, NEW b, NEW list, AnsweredOK(a, list),
           a.ask = b.ask, a.got = b.got, a.seen = b.seen, a.listed = b.listed,
           a.before = b.before, a.shrunk = b.shrunk
    PROVE  AnsweredOK(b, list)
<1>1. OfTheResource(b)
  <2>1. OfTheResource(a)
    BY DEF AnsweredOK
  <2>. QED
    BY <2>1, Zenon DEF OfTheResource
<1>2. WholeIn(b, list)
  <2>1. WholeIn(a, list)
    BY DEF AnsweredOK
  <2>. QED
    BY <2>1, Zenon DEF WholeIn
<1>. QED
  BY <1>1, <1>2 DEF AnsweredOK

LEMMA ReadingReads ==
    ASSUME NEW a, NEW b, NEW list, ReadingOK(a, list),
           a.ask = b.ask, a.due = b.due, a.got = b.got, a.seen = b.seen, a.listed = b.listed,
           a.left = b.left, a.page = b.page, a.before = b.before, a.shrunk = b.shrunk
    PROVE  ReadingOK(b, list)
<1>1. PageOK(a) => PageOK(b)
  BY DEF PageOK
<1>2. SummaryOK(a, list) => SummaryOK(b, list)
  BY DEF SummaryOK
<1>. QED
  BY <1>1, <1>2 DEF ReadingOK

\* A step of one call, to a call that is in order.
LEMMA OneCall ==
    ASSUME IInv, NEW c \in Callers, NEW next, calls' = [calls EXCEPT ![c] = next],
           UNCHANGED others, CallOK(next, tickets)
    PROVE  IInv'
<1>1. CallsInv' /\ DataOK'
  BY DEF IInv, CallsInv, DataOK, others
<1>2. ASSUME NEW d \in Callers PROVE CallOK(calls'[d], tickets')
  <2>1. calls'[d] = IF d = c THEN next ELSE calls[d]
    BY DEF IInv, CallsInv
  <2>2. tickets' = tickets
    BY DEF others
  <2>. QED
    BY <2>1, <2>2 DEF IInv
<1>. QED
  BY <1>1, <1>2 DEF IInv

LEMMA FailsStep ==
    ASSUME IInv, NEW c \in Callers, Fails(c)
    PROVE  IInv'
<1>1. CallOK([Idle EXCEPT !.stage = "failed"], tickets)
  BY DEF CallOK, Idle, Fields
<1>. QED
  BY <1>1, OneCall DEF Fails

LEMMA ContinueStep ==
    ASSUME IInv, NEW c \in Callers, NEW next, Continue(c, next), DOMAIN next = Fields,
           next.stage = "reading", ReadingOK(next, tickets)
    PROVE  IInv'
<1>. DEFINE x == [next EXCEPT !.token = Resolve(calls[c])]
<1>1. /\ DOMAIN x = Fields /\ x.stage = "reading" /\ next.ask = x.ask /\ next.due = x.due
      /\ next.got = x.got /\ next.seen = x.seen /\ next.listed = x.listed /\ next.left = x.left
      /\ next.page = x.page /\ next.before = x.before /\ next.shrunk = x.shrunk
  BY DEF Fields
<1>2. calls' = [calls EXCEPT ![c] = x] /\ UNCHANGED others
  BY DEF Continue
<1>. HIDE DEF x
<1>3. ReadingOK(x, tickets)
  BY <1>1, ReadingReads
<1>4. CallOK(x, tickets)
  BY <1>1, <1>3 DEF CallOK
<1>. QED
  BY <1>2, <1>4, OneCall

LEMMA AnswerStep ==
    ASSUME IInv, NEW c \in Callers, NEW next, Answer(c, next), DOMAIN next = Fields,
           AnsweredOK(next, tickets)
    PROVE  IInv'
<1>. DEFINE x == [[next EXCEPT !.stage = "answered", !.due = "none"]
                      EXCEPT !.token = Resolve(calls[c])]
<1>1. /\ DOMAIN x = Fields /\ x.stage = "answered" /\ next.ask = x.ask
      /\ next.got = x.got /\ next.seen = x.seen /\ next.listed = x.listed
      /\ next.before = x.before /\ next.shrunk = x.shrunk
  BY DEF Fields
<1>2. calls' = [calls EXCEPT ![c] = x] /\ UNCHANGED others
  BY DEF Answer, Continue
<1>. HIDE DEF x
<1>3. AnsweredOK(x, tickets)
  BY <1>1, AnsweredReads
<1>4. CallOK(x, tickets)
  BY <1>1, <1>3 DEF CallOK
<1>. QED
  BY <1>2, <1>4, OneCall

\* Which request comes first.
LEMMA FirstRequests ==
    ASSUME NEW ask
    PROVE  /\ FirstRequest(ask) \in {"thing", "file", "list", "page"}
           /\ FirstRequest(ask) = "file" <=> ask.capability \in {"drive.metadata.read", "docs.read"}
           /\ FirstRequest(ask) = "list" <=> ask.capability = "message.search"
           /\ FirstRequest(ask) = "page" <=> ask.capability = "ticket.summary"
<1>1. CASE ask.capability \in {"drive.metadata.read", "docs.read"}
  <2>1. FirstRequest(ask) = "file"
    BY <1>1 DEF FirstRequest
  <2>. QED
    BY <1>1, <2>1
<1>2. CASE ask.capability = "message.search"
  <2>1. FirstRequest(ask) = "list"
    BY <1>2 DEF FirstRequest
  <2>. QED
    BY <1>2, <2>1
<1>3. CASE ask.capability = "ticket.summary"
  <2>1. FirstRequest(ask) = "page"
    BY <1>3 DEF FirstRequest
  <2>. QED
    BY <1>3, <2>1
<1>4. CASE ask.capability \notin {"drive.metadata.read", "docs.read", "message.search", "ticket.summary"}
  <2>1. FirstRequest(ask) = "thing"
    BY <1>4 DEF FirstRequest
  <2>. QED
    BY <1>4, <2>1
<1>. QED
  BY <1>1, <1>2, <1>3, <1>4

LEMMA BeginStep ==
    ASSUME IInv, NEW c \in Callers, NEW ask \in Asks, Begin(c, ask)
    PROVE  IInv'
<1>. DEFINE x == [Idle EXCEPT !.stage = "reading", !.ask = ask, !.due = FirstRequest(ask),
                              !.page = 1, !.before = Len(tickets)]
<1>1. CASE ~Served(ask)
  BY <1>1, FailsStep DEF Begin, Fails
<1>2. CASE Served(ask)
  <2>1. /\ DOMAIN x = Fields /\ x.stage = "reading" /\ x.ask = ask /\ x.due = FirstRequest(ask)
        /\ x.page = 1 /\ x.before = Len(tickets) /\ x.got = << >> /\ x.shrunk = FALSE
    BY DEF Idle, Fields
  <2>2. calls' = [calls EXCEPT ![c] = x] /\ UNCHANGED others
    BY <1>2 DEF Begin
  <2>. HIDE DEF x
  <2>3. SummaryOK(x, tickets)
    <3>1. Len(tickets) \in Nat /\ PageSize \in Nat /\ 1 <= MaxPages
      BY PagesAssumption DEF IInv, DataOK
    <3>. QED
      BY <2>1, <3>1 DEF SummaryOK
  <2>4. ReadingOK(x, tickets)
    BY <1>2, <2>1, <2>3, FirstRequests DEF ReadingOK
  <2>5. CallOK(x, tickets)
    BY <2>1, <2>4 DEF CallOK
  <2>. QED
    BY <2>2, <2>5, OneCall
<1>. QED
  BY <1>1, <1>2

\* The shape of the capability whose request names the payload's prefix.
LEMMA ListShape == Shape("object.list") = <<"s3", "?", "?">>
<1>1. ASSUME NEW name, NEW shape, <<name, shape>> \in Shapes,
             \A x \in Shapes : x[1] = name => x = <<name, shape>>
      PROVE  Shape(name) = shape
  <2>1. (CHOOSE x \in Shapes : x[1] = name) = <<name, shape>>
    <3>1. <<name, shape>>[1] = name
      OBVIOUS
    <3>. QED
      BY <1>1, <3>1
  <2>2. <<name, shape>>[2] = shape
    OBVIOUS
  <2>. QED
    BY <2>1, <2>2 DEF Shape
<1>. USE DEF Shapes, GoogleShapes, GmailShapes, TitoShapes, GitHubShapes, NotionShapes, S3Shapes,
             FreshBooksShapes, MercuryShapes
<1>2. /\ <<"object.list", <<"s3", "?", "?">>>> \in Shapes
      /\ \A x \in Shapes : x[1] = "object.list" => x = <<"object.list", <<"s3", "?", "?">>>>
  OBVIOUS
<1>. QED
  BY <1>1, <1>2

\* A call of a single request asks for what the resource names.
LEMMA ThingIsAsked ==
    ASSUME NEW call, NEW list, Served(call.ask), FirstRequest(call.ask) = "thing",
           call.got = <<Thing(call.ask)>>
    PROVE  AnsweredOK(call, list)
<1>. DEFINE ask == call.ask
<1>1. ask.capability \notin {"drive.metadata.read", "docs.read", "message.search", "ticket.summary"}
  BY FirstRequests
<1>2. WholeIn(call, list)
  BY <1>1, Zenon DEF WholeIn
<1>3. CASE ask.capability = "object.list"
  <2>1. Shape(ask.capability) = <<"s3", "?", "?">>
    BY <1>3, ListShape
  <2>2. Fits(ask.resource, <<"s3", "?", "?">>)
    BY <1>3, <2>1 DEF Served, ResourceFits
  <2>3. Len(ask.resource) = 3 /\ ask.named = ask.resource[3]
    BY <1>3, <2>2 DEF Fits, Served, S3Payload, Last
  <2>4. Holes(ask) = {2, 3}
    BY <2>1 DEF Holes
  <2>5. Identifiers(ask) = {<<2, ask.resource[2]>>, <<3, ask.named>>}
    BY <2>1, <2>3, <2>4 DEF Identifiers
  <2>6. Thing(ask) = <<"object.list", {<<2, ask.resource[2]>>, <<3, ask.named>>}>>
    BY <1>3, Zenon DEF Thing
  <2>7. call.got = <<<<ask.capability, Identifiers(ask)>>>>
    BY <1>3, <2>5, <2>6
  <2>8. OfTheResource(call)
    BY <1>3, <2>7 DEF OfTheResource
  <2>. QED
    BY <1>1, <1>2, <2>8 DEF AnsweredOK
<1>4. CASE ask.capability = "search"
  <2>1. Thing(ask) = <<"search", IF NamesQuery(ask) THEN Tail(ask.resource) ELSE <<ask.named>>>>
    BY <1>4, Zenon DEF Thing
  <2>2. NamesQuery(ask) => call.got = <<<<"search", Tail(ask.resource)>>>>
    BY <2>1
  <2>3. OfTheResource(call)
    BY <1>4, <2>2, Zenon DEF OfTheResource
  <2>. QED
    BY <1>1, <1>2, <2>3 DEF AnsweredOK
<1>5. CASE ask.capability \notin {"object.list", "search"}
  <2>1. Thing(ask) = <<ask.capability, Identifiers(ask)>>
    BY <1>5, Zenon DEF Thing
  <2>2. call.got = <<<<ask.capability, Identifiers(ask)>>>>
    BY <2>1
  <2>3. OfTheResource(call)
    BY <1>1, <1>5, <2>2, Zenon DEF OfTheResource
  <2>. QED
    BY <1>1, <1>2, <2>3 DEF AnsweredOK
<1>. QED
  BY <1>3, <1>4, <1>5

\* What the invariant says of a call that sends a request.
LEMMA Sender ==
    ASSUME IInv, NEW c \in Callers, NEW request, Sends(c, request)
    PROVE  /\ calls[c].stage = "reading" /\ calls[c].due = request /\ DOMAIN calls[c] = Fields
           /\ ReadingOK(calls[c], tickets)
           /\ request \in {"list", "message"} => Resolve(calls[c]) \in Accounts
<1>1. CallOK(calls[c], tickets) /\ access \in [Credentials -> Accounts \cup {Nothing}]
  BY DEF IInv, DataOK
<1>2. /\ calls[c].stage = "reading" /\ calls[c].due = request
      /\ OverHTTP(calls[c].ask) => Resolve(calls[c]) # Nothing
  BY DEF Sends
<1>3. ReadingOK(calls[c], tickets) /\ DOMAIN calls[c] = Fields
  BY <1>1, <1>2 DEF CallOK
<1>4. calls[c].ask.credential \in Credentials
  BY <1>3 DEF ReadingOK, Credentials
<1>5. ASSUME calls[c].ask.capability = "message.search" PROVE OverHTTP(calls[c].ask)
  <2>1. <<"message.search", <<"gmail", "messages">>>> \in GmailShapes
    BY DEF GmailShapes
  <2>2. <<"message.search", <<"gmail", "messages">>>>[1] = "message.search"
    OBVIOUS
  <2>. QED
    BY <1>5, <2>1, <2>2, Zenon DEF OverHTTP
<1>6. request \in {"list", "message"} => calls[c].ask.capability = "message.search"
  BY <1>2, <1>3 DEF ReadingOK
<1>. QED
  BY <1>1, <1>2, <1>3, <1>4, <1>5, <1>6 DEF Resolve

LEMMA ThingStep ==
    ASSUME IInv, NEW c \in Callers, ReadThing(c)
    PROVE  IInv'
<1>. DEFINE next == [calls[c] EXCEPT !.got = <<Thing(calls[c].ask)>>]
<1>1. Sends(c, "thing") /\ Answer(c, next)
  BY DEF ReadThing
<1>2. DOMAIN calls[c] = Fields /\ ReadingOK(calls[c], tickets) /\ calls[c].due = "thing"
  BY <1>1, Sender
<1>3. DOMAIN next = Fields /\ next.ask = calls[c].ask /\ next.got = <<Thing(calls[c].ask)>>
  BY <1>2 DEF Fields
<1>. HIDE DEF next
<1>4. AnsweredOK(next, tickets)
  BY <1>2, <1>3, ThingIsAsked DEF ReadingOK
<1>. QED
  BY <1>1, <1>3, <1>4, AnswerStep

\* What a file call is answered with.
LEMMA FileIsAsked ==
    ASSUME NEW call, NEW list, call.ask.capability \in {"drive.metadata.read", "docs.read"},
           call.got = <<call.ask.resource[4]>>, call.seen \in {Nothing, call.ask.resource[2]}
    PROVE  AnsweredOK(call, list)
<1>1. OfTheResource(call)
  BY Zenon DEF OfTheResource
<1>2. call.ask.capability # "ticket.summary" /\ call.ask.capability # "message.search"
  OBVIOUS
<1>3. WholeIn(call, list)
  BY <1>2, Zenon DEF WholeIn
<1>. QED
  BY <1>1, <1>2, <1>3 DEF AnsweredOK

LEMMA FileStep ==
    ASSUME IInv, NEW c \in Callers, ReadFile(c)
    PROVE  IInv'
<1>. DEFINE call == calls[c]
            id == call.ask.resource[4]
            file == files[id]
            seen == [call EXCEPT !.seen = file.drive]
<1>1. /\ Sends(c, "file") /\ InDrive(file, call.ask.resource[2])
      /\ IF call.ask.capability = "drive.metadata.read" THEN Answer(c, [seen EXCEPT !.got = <<id>>])
         ELSE /\ file.type \in {"document", "text"}
              /\ Continue(c, [seen EXCEPT !.due = file.type])
  BY DEF ReadFile
<1>2. /\ DOMAIN call = Fields /\ ReadingOK(call, tickets) /\ call.stage = "reading"
      /\ call.ask.capability \in {"drive.metadata.read", "docs.read"}
  BY <1>1, Sender DEF ReadingOK
<1>3. DOMAIN seen = Fields /\ seen.ask = call.ask /\ seen.stage = "reading"
      /\ seen.seen \in {Nothing, call.ask.resource[2]}
  BY <1>1, <1>2 DEF Fields, InDrive
<1>. HIDE DEF seen
<1>4. CASE call.ask.capability = "drive.metadata.read"
  <2>. DEFINE next == [seen EXCEPT !.got = <<id>>]
  <2>1. DOMAIN next = Fields /\ next.ask = call.ask /\ next.got = <<id>> /\ next.seen = seen.seen
    BY <1>3 DEF Fields
  <2>2. Answer(c, next)
    BY <1>1, <1>4
  <2>. HIDE DEF next
  <2>3. AnsweredOK(next, tickets)
    BY <1>2, <1>3, <2>1, FileIsAsked
  <2>. QED
    BY <2>1, <2>2, <2>3, AnswerStep
<1>5. CASE call.ask.capability # "drive.metadata.read"
  <2>. DEFINE next == [seen EXCEPT !.due = file.type]
  <2>1. /\ DOMAIN next = Fields /\ next.ask = call.ask /\ next.seen = seen.seen
        /\ next.due = file.type /\ next.stage = "reading"
    BY <1>3 DEF Fields
  <2>2. Continue(c, next) /\ file.type \in {"document", "text"}
    BY <1>1, <1>5
  <2>. HIDE DEF next
  <2>3. ReadingOK(next, tickets)
    BY <1>2, <1>3, <1>5, <2>1, <2>2 DEF ReadingOK
  <2>. QED
    BY <2>1, <2>2, <2>3, ContinueStep
<1>. QED
  BY <1>4, <1>5

LEMMA ContentStep ==
    ASSUME IInv, NEW c \in Callers, ReadContent(c)
    PROVE  IInv'
<1>. DEFINE id == calls[c].ask.resource[4]
            next == [calls[c] EXCEPT !.got = <<id>>]
<1>1. PICK type \in {"document", "text"} : Sends(c, type) /\ Answer(c, next)
  BY DEF ReadContent
<1>2. /\ DOMAIN calls[c] = Fields /\ calls[c].ask.capability = "docs.read"
      /\ calls[c].seen \in {Nothing, calls[c].ask.resource[2]}
  BY <1>1, Sender DEF ReadingOK
<1>3. /\ DOMAIN next = Fields /\ next.ask = calls[c].ask /\ next.got = <<id>>
      /\ next.seen = calls[c].seen
  BY <1>2 DEF Fields
<1>. HIDE DEF next
<1>4. AnsweredOK(next, tickets)
  BY <1>2, <1>3, FileIsAsked
<1>. QED
  BY <1>1, <1>3, <1>4, AnswerStep

LEMMA MinOfTwo ==
    ASSUME NEW m \in Int, NEW n \in Int
    PROVE  Min({m, n}) = IF m <= n THEN m ELSE n
<1>. DEFINE low == IF m <= n THEN m ELSE n
<1>1. low \in {m, n} /\ \A y \in {m, n} : low <= y
  OBVIOUS
<1>2. \A x \in {m, n} : (\A y \in {m, n} : x <= y) => x = low
  OBVIOUS
<1>. HIDE DEF low
<1>3. (CHOOSE x \in {m, n} : \A y \in {m, n} : x <= y) = low
  BY <1>1, <1>2
<1>. QED
  BY <1>3 DEF Min, low

LEMMA TakeType ==
    ASSUME NEW S, NEW seq \in Seq(S), NEW most \in Nat
    PROVE  Take(seq, most) \in Seq(S) /\ Len(Take(seq, most)) <= most
<1>1. Len(seq) \in Nat
  OBVIOUS
<1>2. Min({most, Len(seq)}) \in 0..Len(seq) /\ Min({most, Len(seq)}) <= most
  BY <1>1, MinOfTwo
<1>3. Take(seq, most) \in Seq(S) /\ Len(Take(seq, most)) = Min({most, Len(seq)})
  <2>. DEFINE n == Min({most, Len(seq)})
  <2>1. n \in 0..Len(seq)
    BY <1>2
  <2>. HIDE DEF n
  <2>2. SubSeq(seq, 1, n) \in Seq(S) /\ Len(SubSeq(seq, 1, n)) = n
    BY <1>1, <2>1, SubSeqProperties
  <2>. QED
    BY <2>2 DEF Take, n
<1>. QED
  BY <1>1, <1>2, <1>3

\* A mailbox as a sequence of messages, each of them its own.
LEMMA MailboxType ==
    ASSUME IInv, NEW a \in Accounts
    PROVE  /\ mailboxes[a] \in Seq(Messages)
           /\ \A id \in ToSet(mailboxes[a]) : id \in Messages /\ id[1] = a
<1>1. mailboxes[a] \in Seq({a} \X Ids)
  BY DEF IInv, DataOK
<1>2. mailboxes[a] \in Seq(Messages)
  <2>1. {a} \X Ids \subseteq Messages
    BY DEF Messages
  <2>. QED
    BY <1>1, <2>1, SeqMonotonic
<1>3. \A id \in ToSet(mailboxes[a]) : id \in {a} \X Ids
  BY <1>1 DEF ToSet
<1>. QED
  BY <1>2, <1>3 DEF Messages

\* A page whose messages are all got is whole.
LEMMA PageIsWhole ==
    ASSUME NEW call, NEW list, call.ask.capability = "message.search",
           Len(call.got) = Len(call.listed), Len(call.listed) <= GmailMax,
           \A i \in DOMAIN call.got : call.got[i] = <<call.listed[i], call.listed[i][1]>>
    PROVE  AnsweredOK(call, list)
<1>1. OfTheResource(call)
  BY Zenon DEF OfTheResource
<1>2. Len(call.got) <= GmailMax
  OBVIOUS
<1>3. WholeIn(call, list)
  BY <1>2, Zenon DEF WholeIn
<1>. QED
  BY <1>1, <1>3 DEF AnsweredOK

LEMMA ListStep ==
    ASSUME IInv, NEW c \in Callers, ListMessages(c)
    PROVE  IInv'
<1>. DEFINE call == calls[c]
            ids == Take(mailboxes[Resolve(call)], PageOf(call.ask))
            next == [call EXCEPT !.left = ids, !.listed = ids, !.due = "message"]
<1>1. Sends(c, "list") /\ IF ids = << >> THEN Answer(c, next) ELSE Continue(c, next)
  BY DEF ListMessages
<1>2. /\ DOMAIN call = Fields /\ ReadingOK(call, tickets) /\ call.stage = "reading"
      /\ call.ask.capability = "message.search" /\ call.got = << >>
      /\ Resolve(call) \in Accounts
  BY <1>1, Sender DEF ReadingOK
<1>3. PageOf(call.ask) \in 0..GmailMax /\ GmailMax \in Nat
  BY <1>2, PagesAssumption DEF ReadingOK, Served, GmailPayload, PageOf
<1>4. ids \in Seq(Messages) /\ Len(ids) <= GmailMax
  BY <1>2, <1>3, MailboxType, TakeType
<1>5. /\ DOMAIN next = Fields /\ next.ask = call.ask /\ next.stage = "reading"
      /\ next.due = "message" /\ next.left = ids /\ next.listed = ids /\ next.got = << >>
  BY <1>2 DEF Fields
<1>. HIDE DEF next, ids
<1>6. CASE ids = << >>
  <2>1. AnsweredOK(next, tickets)
    BY <1>2, <1>4, <1>5, <1>6, PageIsWhole
  <2>. QED
    BY <1>1, <1>5, <1>6, <2>1, AnswerStep
<1>7. CASE ids # << >>
  <2>1. PageOK(next)
    <3>1. Going(ids, ids, << >>)
      BY <1>4 DEF Going
    <3>. QED
      BY <1>5, <1>7, <3>1 DEF PageOK
  <2>2. ReadingOK(next, tickets)
    BY <1>2, <1>5, <2>1 DEF ReadingOK
  <2>. QED
    BY <1>1, <1>5, <1>7, <2>2, ContinueStep
<1>. QED
  BY <1>6, <1>7

\* A page with one message more got is in order.
LEMMA OneMoreGot ==
    ASSUME NEW left \in Seq(Messages), NEW listed \in Seq(Messages),
           NEW got \in Seq(Messages \X Accounts), Going(left, listed, got), left # << >>
    PROVE  Going(Tail(left), listed, Append(got, <<Head(left), Head(left)[1]>>))
<1>0. /\ Len(listed) <= GmailMax /\ Len(got) + Len(left) = Len(listed)
      /\ \A i \in 1..Len(got) : got[i] = <<listed[i], listed[i][1]>>
      /\ \A j \in 1..Len(left) : left[j] = listed[Len(got) + j]
  BY DEF Going
<1>1. PICK n \in Nat, k \in Nat \ {0} :
         n = Len(got) /\ k = Len(left) /\ n + k = Len(listed) /\ Head(left) = left[1]
  BY <1>0
<1>2. PICK rest \in Seq(Messages) : /\ rest = Tail(left) /\ Len(rest) = k - 1
                                    /\ \A j \in 1..(k - 1) : rest[j] = left[j + 1]
  <2>1. /\ Tail(left) \in Seq(Messages) /\ Len(Tail(left)) = k - 1
        /\ \A j \in 1..(k - 1) : Tail(left)[j] = left[j + 1]
    BY <1>1
  <2>. QED
    BY <2>1
<1>3. PICK e \in Messages \X Accounts : e = <<Head(left), Head(left)[1]>>
  <2>1. Head(left) \in Messages
    BY <1>0
  <2>. QED
    BY <2>1 DEF Messages
<1>4. PICK read \in Seq(Messages \X Accounts) :
         /\ read = Append(got, e) /\ Len(read) = n + 1
         /\ \A i \in 1..n : read[i] = got[i]
         /\ read[n + 1] = e
  <2>1. /\ Append(got, e) \in Seq(Messages \X Accounts) /\ Len(Append(got, e)) = n + 1
        /\ \A i \in 1..n : Append(got, e)[i] = got[i]
        /\ Append(got, e)[n + 1] = e
    BY <1>1
  <2>. QED
    BY <2>1
<1>5. e = <<listed[n + 1], listed[n + 1][1]>>
  BY <1>0, <1>1, <1>3
<1>6. ASSUME NEW i \in 1..(n + 1) PROVE read[i] = <<listed[i], listed[i][1]>>
  <2>1. i \in 1..n \/ i = n + 1
    OBVIOUS
  <2>. QED
    BY <1>0, <1>1, <1>4, <1>5, <2>1
<1>7. ASSUME NEW j \in 1..(k - 1) PROVE rest[j] = listed[n + 1 + j]
  <2>1. j + 1 \in 1..k /\ n + (j + 1) = n + 1 + j
    BY <1>1
  <2>. QED
    BY <1>0, <1>1, <1>2, <2>1
<1>8. Going(rest, listed, read)
  BY <1>0, <1>1, <1>2, <1>4, <1>6, <1>7 DEF Going
<1>. QED
  BY <1>2, <1>3, <1>4, <1>8

\* When none is left, those got are those listed.
LEMMA AllGot ==
    ASSUME NEW listed, NEW got, Going(<< >>, listed, got)
    PROVE  /\ Len(got) = Len(listed) /\ Len(listed) <= GmailMax
           /\ \A i \in DOMAIN got : got[i] = <<listed[i], listed[i][1]>>
BY DEF Going

\* One message more, of the mailbox that it was listed in.
LEMMA MessageStep ==
    ASSUME IInv, NEW c \in Callers, ReadMessage(c)
    PROVE  IInv'
<1>. DEFINE call == calls[c]
            id == Head(call.left)
            rest == Tail(call.left)
            read == IF id \in ToSet(mailboxes[Resolve(call)])
                    THEN Append(call.got, <<id, Resolve(call)>>) ELSE call.got
            next == [call EXCEPT !.left = rest, !.got = read]
<1>1. /\ Sends(c, "message") /\ id \in ToSet(mailboxes[Resolve(call)])
      /\ IF next.left = << >> THEN Answer(c, next) ELSE Continue(c, next)
  BY DEF ReadMessage, Found
<1>2. /\ DOMAIN call = Fields /\ ReadingOK(call, tickets) /\ call.stage = "reading"
      /\ call.due = "message" /\ call.ask.capability = "message.search" /\ PageOK(call)
      /\ Resolve(call) \in Accounts
  BY <1>1, Sender DEF ReadingOK
<1>3. id[1] = Resolve(call)
  BY <1>1, <1>2, MailboxType
<1>4. Going(rest, call.listed, Append(call.got, <<id, id[1]>>))
  <2>1. /\ call.left \in Seq(Messages) /\ call.listed \in Seq(Messages)
        /\ call.got \in Seq(Messages \X Accounts) /\ Going(call.left, call.listed, call.got)
        /\ call.left # << >>
    BY <1>2 DEF PageOK, Going
  <2>. QED
    BY <2>1, OneMoreGot
<1>5. Going(rest, call.listed, read)
  BY <1>1, <1>3, <1>4
<1>6. /\ DOMAIN next = Fields /\ next.ask = call.ask /\ next.stage = "reading"
      /\ next.due = "message" /\ next.left = rest /\ next.listed = call.listed
      /\ next.got = read
  BY <1>2 DEF Fields
<1>. HIDE DEF next, read, rest
<1>7. CASE rest = << >>
  <2>1. AnsweredOK(next, tickets)
    BY <1>2, <1>5, <1>6, <1>7, AllGot, PageIsWhole
  <2>. QED
    BY <1>1, <1>6, <1>7, <2>1, AnswerStep
<1>8. CASE rest # << >>
  <2>1. PageOK(next)
    BY <1>5, <1>6, <1>8 DEF PageOK
  <2>2. ReadingOK(next, tickets)
    BY <1>2, <1>6, <2>1 DEF ReadingOK
  <2>. QED
    BY <1>1, <1>6, <1>8, <2>2, ContinueStep
<1>. QED
  BY <1>7, <1>8

\* A part of a sequence; past its end there is nothing.
LEMMA Piece ==
    ASSUME NEW list \in Seq(Nat), NEW a \in Nat, NEW m \in 0..Len(list)
    PROVE  /\ SubSeq(list, a + 1, m) \in Seq(Nat)
           /\ a <= m => /\ Len(SubSeq(list, a + 1, m)) = m - a
                        /\ \A i \in 1..(m - a) : SubSeq(list, a + 1, m)[i] = list[a + i]
           /\ m < a => Len(SubSeq(list, a + 1, m)) = 0
<1>1. Len(list) \in Nat /\ m \in Nat /\ m <= Len(list)
  BY LenProperties
<1>2. CASE a < m
  <2>1. a + 1 \in 1..Len(list) /\ m \in (a + 1)..Len(list)
    BY <1>1, <1>2
  <2>2. /\ SubSeq(list, a + 1, m) \in Seq(Nat)
        /\ Len(SubSeq(list, a + 1, m)) = IF a + 1 <= m THEN m - (a + 1) + 1 ELSE 0
        /\ \A i \in 1..(m - (a + 1) + 1) : SubSeq(list, a + 1, m)[i] = list[(a + 1) + i - 1]
    BY <1>1, <2>1, SubSeqProperties
  <2>3. m - (a + 1) + 1 = m - a /\ \A i \in Int : (a + 1) + i - 1 = a + i
    BY <1>1
  <2>. QED
    BY <1>1, <1>2, <2>2, <2>3
<1>3. CASE ~(a < m)
  <2>1. SubSeq(list, a + 1, m) = << >>
    BY <1>1, <1>3
  <2>. QED
    BY <1>1, <1>3, <2>1
<1>. QED
  BY <1>2, <1>3

With(got, list, a, b) == got \o SubSeq(list, a + 1, Min({b, Len(list)}))

\* With the tickets up to a and those from there to b, or to the last one, the
\* tickets up to b are read.
LEMMA TicketsRead ==
    ASSUME NEW list \in Seq(Nat), NEW got \in Seq(Nat), NEW a \in Nat, NEW b \in Nat, a <= b
    PROVE  /\ With(got, list, a, b) \in Seq(Nat)
           /\ Len(got) = a /\ a <= Len(list) /\ (\A i \in 1..a : got[i] = list[i])
              => /\ Len(With(got, list, a, b)) = IF b <= Len(list) THEN b ELSE Len(list)
                 /\ \A i \in 1..Len(With(got, list, a, b)) : With(got, list, a, b)[i] = list[i]
<1>1. PICK n \in Nat : n = Len(list)
  BY LenProperties
<1>2. PICK m \in 0..n : m = Min({b, n}) /\ m = IF b <= n THEN b ELSE n
  <2>1. Min({b, n}) = IF b <= n THEN b ELSE n
    BY MinOfTwo
  <2>. QED
    BY <2>1
<1>3. PICK page \in Seq(Nat) :
         /\ page = SubSeq(list, a + 1, m)
         /\ a <= m => /\ Len(page) = m - a
                      /\ \A i \in 1..(m - a) : page[i] = list[a + i]
  BY <1>1, <1>2, Piece
<1>4. PICK read \in Seq(Nat) :
         /\ read = got \o page
         /\ Len(read) = Len(got) + Len(page)
         /\ \A i \in 1..Len(got) : read[i] = got[i]
         /\ \A i \in 1..(Len(got) + Len(page)) : i > Len(got) => read[i] = page[i - Len(got)]
  <2>1. /\ got \o page \in Seq(Nat)
        /\ Len(got \o page) = Len(got) + Len(page)
        /\ \A i \in 1..(Len(got) + Len(page)) :
               (got \o page)[i] = IF i <= Len(got) THEN got[i] ELSE page[i - Len(got)]
    BY ConcatProperties
  <2>2. Len(got) \in Nat /\ Len(page) \in Nat
    BY LenProperties
  <2>3. \A i \in 1..Len(got) : (got \o page)[i] = got[i]
    BY <2>1, <2>2
  <2>4. \A i \in 1..(Len(got) + Len(page)) : i > Len(got) => (got \o page)[i] = page[i - Len(got)]
    BY <2>1, <2>2
  <2>. QED
    BY <2>1, <2>3, <2>4, Zenon
<1>5. ASSUME Len(got) = a, a <= n, \A i \in 1..a : got[i] = list[i]
      PROVE  Len(read) = m /\ \A i \in 1..m : read[i] = list[i]
  <2>1. a <= m /\ Len(got) + Len(page) = m
    BY <1>2, <1>3, <1>5
  <2>2. ASSUME NEW i \in 1..m, i <= a PROVE read[i] = list[i]
    <3>1. i \in 1..a
      BY <1>2, <2>2
    <3>. QED
      BY <1>4, <1>5, <3>1
  <2>3. ASSUME NEW i \in 1..m, i > a PROVE read[i] = list[i]
    <3>1. i - a \in 1..(m - a) /\ a + (i - a) = i
      BY <1>2, <2>3
    <3>2. read[i] = page[i - a]
      BY <1>4, <1>5, <2>1, <2>3
    <3>3. page[i - a] = list[a + (i - a)]
      BY <1>3, <2>1, <3>1
    <3>. QED
      BY <3>1, <3>2, <3>3
  <2>4. \A i \in 1..m : i <= a \/ i > a
    BY <1>2
  <2>5. Len(read) = m
    BY <1>4, <2>1
  <2>. QED
    BY <2>2, <2>3, <2>4, <2>5
<1>6. read = With(got, list, a, b)
  BY <1>1, <1>2, <1>3, <1>4 DEF With
<1>. QED
  BY <1>1, <1>2, <1>4, <1>5, <1>6

\* How many they are, also when there are fewer than a by now.
LEMMA TicketsCounted ==
    ASSUME NEW list \in Seq(Nat), NEW got \in Seq(Nat), NEW a \in Nat, NEW b \in Nat, a <= b,
           Len(got) = a
    PROVE  Len(With(got, list, a, b)) = IF Len(list) < a THEN a
                                        ELSE IF b <= Len(list) THEN b ELSE Len(list)
<1>1. PICK n \in Nat : n = Len(list)
  BY LenProperties
<1>2. PICK m \in 0..n : m = Min({b, n}) /\ m = IF b <= n THEN b ELSE n
  <2>1. Min({b, n}) = IF b <= n THEN b ELSE n
    BY MinOfTwo
  <2>. QED
    BY <2>1
<1>. DEFINE page == SubSeq(list, a + 1, m)
<1>3. /\ page \in Seq(Nat)
      /\ a <= m => Len(page) = m - a
      /\ m < a => Len(page) = 0
  <2>1. m \in 0..Len(list)
    BY <1>1
  <2>. QED
    BY <2>1, Piece
<1>4. With(got, list, a, b) = got \o page
  BY <1>1, <1>2 DEF With
<1>. HIDE DEF page
<1>5. Len(got \o page) = a + Len(page)
  BY <1>3, ConcatProperties
<1>6. CASE m < a
  BY <1>1, <1>2, <1>3, <1>4, <1>5, <1>6
<1>7. CASE a <= m
  <2>1. Len(With(got, list, a, b)) = m
    BY <1>2, <1>3, <1>4, <1>5, <1>7
  <2>2. ~(Len(list) < a)
    BY <1>1, <1>2, <1>7
  <2>. QED
    BY <1>1, <1>2, <2>1, <2>2
<1>. QED
  BY <1>2, <1>6, <1>7

\* A summary that has all tickets counts each once.
LEMMA SummaryIsWhole ==
    ASSUME NEW call, NEW list \in Seq(Nat), call.ask.capability = "ticket.summary",
           call.got \in Seq(Nat),
           call.shrunk \/ (call.before <= Len(call.got) /\ IsPrefix(call.got, list))
    PROVE  AnsweredOK(call, list)
<1>1. OfTheResource(call)
  BY Zenon DEF OfTheResource
<1>2. WholeIn(call, list)
  BY Zenon DEF WholeIn
<1>. QED
  BY <1>1, <1>2 DEF AnsweredOK

LEMMA PageStep ==
    ASSUME IInv, NEW c \in Callers, ReadPage(c)
    PROVE  IInv'
<1>. DEFINE call == calls[c]
            a == (call.page - 1) * PageSize
            b == call.page * PageSize
            read == With(call.got, tickets, a, b)
<1>1. PICK page \in NextPages(call.page) :
         /\ Sends(c, "page")
         /\ LET next == [call EXCEPT !.got = read, !.page = page]
            IN IF page = 0 THEN Answer(c, next)
               ELSE IF ~Advances(call.page, page) THEN BadPage(c)
               ELSE Continue(c, next)
  BY DEF ReadPage, With
<1>. DEFINE next == [call EXCEPT !.got = read, !.page = page]
<1>2. /\ DOMAIN call = Fields /\ ReadingOK(call, tickets) /\ call.stage = "reading"
      /\ call.due = "page" /\ call.ask.capability = "ticket.summary" /\ SummaryOK(call, tickets)
  BY <1>1, Sender DEF ReadingOK
<1>3. tickets \in Seq(Nat) /\ PageSize \in Nat \ {0}
  BY PagesAssumption DEF IInv, DataOK
<1>4. /\ call.got \in Seq(Nat) /\ call.page \in Nat \ {0} /\ call.before \in Nat
      /\ Len(call.got) = a
      /\ \/ call.shrunk
         \/ /\ call.before <= Len(tickets) /\ Len(call.got) <= Len(tickets)
            /\ \A i \in 1..Len(call.got) : call.got[i] = tickets[i]
  BY <1>2 DEF SummaryOK
<1>5. a \in Nat /\ b \in Nat /\ b = a + PageSize /\ a <= b
  <2>1. PICK p \in Nat : call.page = p + 1
    BY <1>4
  <2>2. p * PageSize \in Nat /\ (p + 1) * PageSize = p * PageSize + PageSize
    BY <1>3
  <2>. QED
    BY <1>3, <2>1, <2>2
<1>6. /\ DOMAIN next = Fields /\ next.ask = call.ask /\ next.stage = "reading"
      /\ next.due = "page" /\ next.got = read /\ next.page = page
      /\ next.before = call.before /\ next.shrunk = call.shrunk
  BY <1>2 DEF Fields
<1>7. page \in Nat /\ (page = 0 => ~(b < Len(tickets)))
      /\ (page > call.page => page = call.page + 1 /\ b < Len(tickets))
  BY <1>4 DEF NextPages
<1>. HIDE DEF a, b, next
<1>. HIDE DEF call
<1>8. /\ read \in Seq(Nat)
      /\ Len(read) = IF Len(tickets) < a THEN a
                     ELSE IF b <= Len(tickets) THEN b ELSE Len(tickets)
      /\ Len(call.got) = a /\ a <= Len(tickets) /\ (\A i \in 1..a : call.got[i] = tickets[i])
         => /\ Len(read) = IF b <= Len(tickets) THEN b ELSE Len(tickets)
            /\ \A i \in 1..Len(read) : read[i] = tickets[i]
  <2>1. Len(read) = IF Len(tickets) < a THEN a
                    ELSE IF b <= Len(tickets) THEN b ELSE Len(tickets)
    BY <1>3, <1>4, <1>5, TicketsCounted
  <2>2. /\ read \in Seq(Nat)
        /\ Len(call.got) = a /\ a <= Len(tickets) /\ (\A i \in 1..a : call.got[i] = tickets[i])
           => /\ Len(read) = IF b <= Len(tickets) THEN b ELSE Len(tickets)
              /\ \A i \in 1..Len(read) : read[i] = tickets[i]
    BY <1>3, <1>4, <1>5, TicketsRead
  <2>. HIDE DEF read
  <2>. QED
    BY <2>1, <2>2
<1>9. \/ call.shrunk
      \/ /\ Len(read) = IF b <= Len(tickets) THEN b ELSE Len(tickets)
         /\ \A i \in 1..Len(read) : read[i] = tickets[i]
         /\ call.before <= Len(tickets)
  BY <1>4, <1>8
<1>. HIDE DEF read
<1>10. Len(tickets) \in Nat /\ Len(read) \in Nat
  BY <1>3, <1>8, LenProperties
<1>11. CASE page = 0
  <2>1. call.shrunk \/ (call.before <= Len(read) /\ IsPrefix(read, tickets))
    <3>1. CASE ~call.shrunk
      <4>1. Len(read) = Len(tickets) /\ \A i \in 1..Len(read) : read[i] = tickets[i]
        BY <1>5, <1>7, <1>9, <1>10, <1>11, <3>1
      <4>2. read = tickets
        BY <1>3, <1>8, <4>1, SeqEqual
      <4>. QED
        BY <1>9, <1>10, <3>1, <4>1, <4>2 DEF IsPrefix
    <3>. QED
      BY <3>1
  <2>2. AnsweredOK(next, tickets)
    BY <1>2, <1>3, <1>6, <1>8, <2>1, SummaryIsWhole
  <2>. QED
    BY <1>1, <1>6, <1>11, <2>2, AnswerStep DEF next, read, a, b, call
<1>12. CASE page # 0 /\ ~Advances(call.page, page)
  BY <1>1, <1>12, FailsStep DEF BadPage
<1>13. CASE page # 0 /\ Advances(call.page, page)
  <2>1. page = call.page + 1 /\ b < Len(tickets)
    BY <1>4, <1>7, <1>13 DEF Advances
  <2>2. (page - 1) * PageSize = b
    BY <1>3, <1>4, <2>1 DEF b
  <2>3. SummaryOK(next, tickets)
    BY <1>4, <1>5, <1>6, <1>7, <1>8, <1>9, <1>10, <1>13, <2>1, <2>2 DEF SummaryOK, Advances
  <2>4. ReadingOK(next, tickets)
    BY <1>2, <1>6, <2>3 DEF ReadingOK
  <2>. QED
    BY <1>1, <1>6, <1>13, <2>4, ContinueStep DEF next, read, a, b, call
<1>. QED
  BY <1>11, <1>12, <1>13

\* The last page of a summary: with it the summary has as many tickets as there
\* are, or more if others went while it read, since it has full pages before.
LEMMA LastPage ==
    ASSUME IInv, NEW c \in Callers, ReadPage(c), calls'[c].stage = "answered"
    PROVE  /\ Len(calls[c].got) <= Len(calls'[c].got)
           /\ Len(tickets) <= Len(calls'[c].got)
           /\ calls[c].shrunk \/ Len(calls'[c].got) = Len(tickets)
<1>. DEFINE call == calls[c]
            a == (call.page - 1) * PageSize
            b == call.page * PageSize
            read == With(call.got, tickets, a, b)
<1>1. PICK page \in NextPages(call.page) :
         /\ Sends(c, "page")
         /\ LET next == [call EXCEPT !.got = read, !.page = page]
            IN IF page = 0 THEN Answer(c, next)
               ELSE IF ~Advances(call.page, page) THEN BadPage(c)
               ELSE Continue(c, next)
  BY DEF ReadPage, With
<1>. DEFINE next == [call EXCEPT !.got = read, !.page = page]
<1>2. /\ DOMAIN call = Fields /\ SummaryOK(call, tickets) /\ call.stage = "reading"
  BY <1>1, Sender DEF ReadingOK
<1>3. tickets \in Seq(Nat) /\ PageSize \in Nat \ {0} /\ calls = [d \in Callers |-> calls[d]]
  BY PagesAssumption DEF IInv, DataOK, CallsInv
<1>4. /\ call.got \in Seq(Nat) /\ call.page \in Nat \ {0} /\ Len(call.got) = a
      /\ call.shrunk \/ Len(call.got) <= Len(tickets)
  BY <1>2 DEF SummaryOK
<1>5. a \in Nat /\ b \in Nat /\ a <= b
  <2>1. PICK p \in Nat : call.page = p + 1
    BY <1>4
  <2>2. p * PageSize \in Nat /\ (p + 1) * PageSize = p * PageSize + PageSize
    BY <1>3
  <2>. QED
    BY <1>3, <2>1, <2>2
<1>6. next.stage = "reading" /\ next.got = read /\ DOMAIN next = Fields
  BY <1>2 DEF Fields
<1>7. page = 0 => ~(b < Len(tickets))
  BY <1>4 DEF NextPages
<1>8. CASE page = 0 /\ Answer(c, next)
  <2>1. calls'[c].got = read
    BY <1>3, <1>6, <1>8 DEF Answer, Continue, Fields
  <2>2. Len(read) = IF Len(tickets) < a THEN a
                    ELSE IF b <= Len(tickets) THEN b ELSE Len(tickets)
    BY <1>3, <1>4, <1>5, TicketsCounted
  <2>3. Len(tickets) \in Nat
    BY <1>3, LenProperties
  <2>. HIDE DEF a, b, read
  <2>. QED
    BY <1>4, <1>5, <1>7, <1>8, <2>1, <2>2, <2>3
<1>9. CASE Fails(c)
  BY <1>3, <1>9 DEF Fails, Idle
<1>10. CASE Continue(c, next)
  BY <1>3, <1>6, <1>10 DEF Continue, Fields
<1>. QED
  BY <1>1, <1>8, <1>9, <1>10 DEF BadPage

-----------------------------------------------------------------------------
(* What the others do leaves the calls in order.                           *)

LEMMA Removed ==
    ASSUME NEW S, NEW s \in Seq(S), NEW i \in DOMAIN s
    PROVE  RemoveAt(s, i) \in Seq(S)
<1>1. PICK n \in Nat : n = Len(s) /\ i \in 1..n /\ \A j \in 1..n : s[j] \in S
  BY LenProperties, ElementOfSeq
<1>2. SubSeq(s, 1, i - 1) \in Seq(S)
  BY <1>1, SubSeqProperties
<1>3. SubSeq(s, i + 1, n) \in Seq(S)
  BY <1>1, SubSeqProperties
<1>. QED
  BY <1>1, <1>2, <1>3, ConcatProperties DEF RemoveAt

\* One more ticket at the end of the list: the first of them are as before.
LEMMA OneMoreSold ==
    ASSUME NEW call, NEW list \in Seq(Nat), NEW t \in Nat, CallOK(call, list)
    PROVE  CallOK(call, Append(list, t))
<1>1. PICK longer \in Seq(Nat) : /\ longer = Append(list, t) /\ Len(longer) = Len(list) + 1
                                 /\ \A i \in 1..Len(list) : longer[i] = list[i]
  <2>1. /\ Append(list, t) \in Seq(Nat) /\ Len(Append(list, t)) = Len(list) + 1
        /\ \A i \in 1..Len(list) : Append(list, t)[i] = list[i]
    BY AppendProperties
  <2>. QED
    BY <2>1
<1>2. ASSUME SummaryOK(call, list) PROVE SummaryOK(call, longer)
  <2>1. Len(list) \in Nat /\ call.got \in Seq(Nat) /\ Len(call.got) \in Nat
    BY <1>2, LenProperties DEF SummaryOK
  <2>2. CASE ~call.shrunk
    <3>1. /\ call.before \in Nat /\ call.before <= Len(list) /\ Len(call.got) <= Len(list)
          /\ \A i \in 1..Len(call.got) : call.got[i] = list[i]
      BY <1>2, <2>2, Zenon DEF SummaryOK
    <3>2. call.before <= Len(longer) /\ Len(call.got) <= Len(longer)
      BY <1>1, <2>1, <3>1
    <3>3. \A i \in 1..Len(call.got) : call.got[i] = longer[i]
      BY <1>1, <2>1, <3>1
    <3>. QED
      BY <1>2, <3>2, <3>3, Zenon DEF SummaryOK
  <2>. QED
    BY <1>2, <2>2 DEF SummaryOK
<1>3. ASSUME AnsweredOK(call, list) PROVE AnsweredOK(call, longer)
  <2>1. CASE call.ask.capability = "ticket.summary"
    <3>1. call.shrunk \/ (call.before <= Len(call.got) /\ IsPrefix(call.got, list))
      BY <1>3, <2>1, Zenon DEF AnsweredOK, WholeIn
    <3>2. call.got \in Seq(Nat)
      BY <1>3, <2>1 DEF AnsweredOK
    <3>3. IsPrefix(call.got, list) => IsPrefix(call.got, Append(list, t))
      BY <3>2 DEF IsPrefix
    <3>. QED
      BY <1>1, <2>1, <3>1, <3>2, <3>3, SummaryIsWhole
  <2>2. CASE call.ask.capability # "ticket.summary"
    <3>1. WholeIn(call, list)
      BY <1>3 DEF AnsweredOK
    <3>2. WholeIn(call, longer)
      BY <2>2, <3>1, Zenon DEF WholeIn
    <3>. QED
      BY <1>3, <2>2, <3>2 DEF AnsweredOK
  <2>. QED
    BY <2>1, <2>2
<1>. QED
  BY <1>1, <1>2, <1>3 DEF CallOK, ReadingOK

\* A call that the history marks is in order, whatever the tickets are.
LEMMA MarkedStands ==
    ASSUME NEW call, NEW list \in Seq(Nat), NEW other \in Seq(Nat), CallOK(call, list)
    PROVE  CallOK([call EXCEPT !.shrunk = TRUE], other)
<1>. DEFINE x == [call EXCEPT !.shrunk = TRUE]
<1>1. DOMAIN call = Fields
  BY DEF CallOK
<1>2. /\ DOMAIN x = Fields /\ x.stage = call.stage /\ x.ask = call.ask /\ x.due = call.due
      /\ x.got = call.got /\ x.seen = call.seen /\ x.listed = call.listed /\ x.left = call.left
      /\ x.page = call.page /\ x.before = call.before /\ x.shrunk = TRUE
  BY <1>1 DEF Fields
<1>. HIDE DEF x
<1>3. SummaryOK(call, list) => SummaryOK(x, other)
  BY <1>2 DEF SummaryOK
<1>4. PageOK(call) => PageOK(x)
  BY <1>2 DEF PageOK
<1>5. ReadingOK(call, list) => ReadingOK(x, other)
  BY <1>2, <1>3, <1>4 DEF ReadingOK
<1>6. ASSUME AnsweredOK(call, list) PROVE AnsweredOK(x, other)
  <2>1. CASE call.ask.capability = "ticket.summary"
    BY <1>2, <1>6, <2>1, SummaryIsWhole DEF AnsweredOK
  <2>2. CASE call.ask.capability # "ticket.summary"
    <3>1. OfTheResource(call) /\ WholeIn(call, list)
      BY <1>6 DEF AnsweredOK
    <3>2. OfTheResource(x)
      BY <1>2, <3>1, Zenon DEF OfTheResource
    <3>3. WholeIn(x, other)
      BY <1>2, <2>2, <3>1, Zenon DEF WholeIn
    <3>. QED
      BY <1>2, <2>2, <3>2, <3>3 DEF AnsweredOK
  <2>. QED
    BY <2>1, <2>2
<1>7. CallOK(x, other)
  BY <1>2, <1>5, <1>6 DEF CallOK
<1>. QED
  BY <1>7 DEF x

LEMMA SellStep == ASSUME IInv, Sell PROVE IInv'
<1>1. PICK t \in 1..MaxTickets : tickets' = Append(tickets, t)
  BY DEF Sell
<1>2. t \in Nat /\ tickets \in Seq(Nat)
  BY PagesAssumption DEF IInv, DataOK
<1>3. UNCHANGED <<files, mailboxes, access, calls>>
  BY DEF Sell
<1>4. \A c \in Callers : CallOK(calls'[c], tickets')
  BY <1>1, <1>2, <1>3, OneMoreSold DEF IInv
<1>5. tickets' \in Seq(Nat)
  BY <1>1, <1>2, AppendProperties
<1>. QED
  BY <1>3, <1>4, <1>5 DEF IInv, CallsInv, DataOK

LEMMA CancelStep == ASSUME IInv, Cancel PROVE IInv'
<1>1. PICK i \in DOMAIN tickets : tickets' = RemoveAt(tickets, i)
  BY DEF Cancel
<1>2. tickets \in Seq(Nat) /\ tickets' \in Seq(Nat)
  <2>1. tickets \in Seq(Nat)
    BY DEF IInv, DataOK
  <2>. QED
    BY <1>1, <2>1, Removed
<1>3. /\ UNCHANGED <<files, mailboxes, access>>
      /\ calls' = [c \in Callers |-> [calls[c] EXCEPT !.shrunk = TRUE]]
  BY DEF Cancel
<1>4. ASSUME NEW c \in Callers PROVE CallOK(calls'[c], tickets')
  <2>1. calls'[c] = [calls[c] EXCEPT !.shrunk = TRUE]
    BY <1>3
  <2>2. CallOK(calls[c], tickets)
    BY DEF IInv
  <2>. QED
    BY <1>2, <2>1, <2>2, MarkedStands
<1>5. CallsInv'
  BY <1>3 DEF CallsInv
<1>. QED
  BY <1>2, <1>3, <1>4, <1>5 DEF IInv, DataOK

LEMMA DeliverStep == ASSUME IInv, Deliver PROVE IInv'
<1>1. PICK a \in Accounts : mailboxes' = [mailboxes EXCEPT ![a] = <<<<a, "new">>>> \o @]
  BY DEF Deliver
<1>2. UNCHANGED <<tickets, files, access, calls>>
  BY DEF Deliver
<1>3. mailboxes = [b \in Accounts |-> mailboxes[b]]
  BY DEF IInv, DataOK
<1>4. <<<<a, "new">>>> \o mailboxes[a] \in Seq({a} \X Ids)
  <2>1. mailboxes[a] \in Seq({a} \X Ids)
    BY DEF IInv, DataOK
  <2>2. <<a, "new">> \in {a} \X Ids
    BY DEF Ids
  <2>3. <<<<a, "new">>>> \in Seq({a} \X Ids)
    BY <2>2
  <2>. QED
    BY <2>1, <2>3, ConcatProperties
<1>5. \A b \in Accounts : mailboxes'[b] = IF b = a THEN <<<<a, "new">>>> \o mailboxes[a] ELSE mailboxes[b]
  BY <1>1, <1>3
<1>6. \A b \in Accounts : mailboxes'[b] \in Seq({b} \X Ids)
  BY <1>4, <1>5 DEF IInv, DataOK
<1>7. mailboxes' = [b \in Accounts |-> mailboxes'[b]]
  BY <1>1, <1>3
<1>. QED
  BY <1>2, <1>6, <1>7 DEF IInv, CallsInv, DataOK

LEMMA DiscardStep == ASSUME IInv, Discard PROVE IInv'
<1>1. PICK a \in Accounts : \E i \in DOMAIN mailboxes[a] :
         mailboxes' = [mailboxes EXCEPT ![a] = RemoveAt(@, i)]
  BY DEF Discard
<1>2. PICK i \in DOMAIN mailboxes[a] :
         mailboxes' = [mailboxes EXCEPT ![a] = RemoveAt(mailboxes[a], i)]
  BY <1>1
<1>3. UNCHANGED <<tickets, files, access, calls>>
  BY DEF Discard
<1>4. mailboxes = [b \in Accounts |-> mailboxes[b]]
  BY DEF IInv, DataOK
<1>5. RemoveAt(mailboxes[a], i) \in Seq({a} \X Ids)
  <2>1. mailboxes[a] \in Seq({a} \X Ids)
    BY DEF IInv, DataOK
  <2>. QED
    BY <2>1, Removed
<1>6. \A b \in Accounts : mailboxes'[b] = IF b = a THEN RemoveAt(mailboxes[a], i) ELSE mailboxes[b]
  BY <1>2, <1>4
<1>7. \A b \in Accounts : mailboxes'[b] \in Seq({b} \X Ids)
  BY <1>5, <1>6 DEF IInv, DataOK
<1>8. mailboxes' = [b \in Accounts |-> mailboxes'[b]]
  BY <1>2, <1>4
<1>. QED
  BY <1>3, <1>7, <1>8 DEF IInv, CallsInv, DataOK

LEMMA ReconnectStep == ASSUME IInv, Reconnect PROVE IInv'
<1>1. access' \in [Credentials -> Accounts \cup {Nothing}]
  BY DEF Reconnect, IInv, DataOK
<1>. QED
  BY <1>1 DEF Reconnect, IInv, CallsInv, DataOK

LEMMA Inductive == IInv /\ [Next]_vars => IInv'
<1>. SUFFICES ASSUME IInv, [Next]_vars PROVE IInv'
  OBVIOUS
<1>1. ASSUME NEW c \in Callers, NEW ask \in Asks, Begin(c, ask) PROVE IInv'
  BY <1>1, BeginStep
<1>2. ASSUME NEW c \in Callers, Read(c) PROVE IInv'
  BY <1>2, ThingStep, FileStep, ContentStep, ListStep, MessageStep, PageStep DEF Read
<1>3. ASSUME NEW c \in Callers, Fail(c) PROVE IInv'
  BY <1>3, FailsStep DEF Fail
<1>4. ASSUME EditFile \/ UNCHANGED vars PROVE IInv'
  BY <1>4 DEF EditFile, vars, others, IInv, CallsInv, DataOK
<1>. QED
  BY <1>1, <1>2, <1>3, <1>4, SellStep, CancelStep, DeliverStep, DiscardStep, ReconnectStep
  DEF Next, Others

LEMMA Initially == Init => IInv
<1>. SUFFICES ASSUME Init PROVE IInv
  OBVIOUS
<1>1. tickets \in Seq(Nat)
  <2>1. PICK n \in 0..MaxTickets : tickets = [i \in 1..n |-> i]
    BY DEF Init
  <2>2. n \in Nat
    BY PagesAssumption
  <2>. QED
    BY <2>1, <2>2
<1>2. \A a \in Accounts : mailboxes[a] \in Seq({a} \X Ids)
  <2>. TAKE a \in Accounts
  <2>1. mailboxes[a] = <<<<a, "b">>, <<a, "a">>>>
    BY DEF Init
  <2>2. <<a, "b">> \in {a} \X Ids /\ <<a, "a">> \in {a} \X Ids
    BY DEF Ids
  <2>. QED
    BY <2>1, <2>2
<1>3. mailboxes = [a \in Accounts |-> mailboxes[a]] /\ access \in [Credentials -> Accounts \cup {Nothing}]
  BY DEF Init
<1>4. CallOK(Idle, tickets)
  BY DEF CallOK, Idle, Fields
<1>5. CallsInv /\ \A c \in Callers : calls[c] = Idle
  BY DEF Init, CallsInv
<1>. QED
  BY <1>1, <1>2, <1>3, <1>4, <1>5 DEF IInv, DataOK

\* Every answer is what its resource names, and whole: a file that was in the
\* drive the call was allowed to read, or in none, when it was looked at; a page
\* of messages with none left out and all of one mailbox; a summary that counts
\* every ticket once, unless one was cancelled under it (google_http.go 80,
\* gmail_http.go 68, tito_http.go 118), for any data, pages, calls and changes.
THEOREM AnsweredWhole == Spec => []AnsweredAsAsked
<1>1. IInv => AnsweredAsAsked
  <2>. SUFFICES ASSUME IInv, NEW c \in Callers, calls[c].stage = "answered"
                PROVE  OfTheResource(calls[c]) /\ Whole(calls[c])
    BY DEF AnsweredAsAsked
  <2>1. OfTheResource(calls[c]) /\ WholeIn(calls[c], tickets)
    BY DEF IInv, CallOK, AnsweredOK
  <2>. QED
    BY <2>1, Zenon DEF WholeIn, Whole
<1>. QED
  BY <1>1, Initially, Inductive, PTL DEF Spec

-----------------------------------------------------------------------------
(* Every request takes its call on.                                        *)

\* What a call that is under way has still to send.
LEMMA SomethingLeft ==
    ASSUME NEW call, NEW list, call.stage = "reading", ReadingOK(call, list)
    PROVE  /\ RequestsLeft(call) \in Nat \ {0}
           /\ call.due = "file" => RequestsLeft(call) = 2
           /\ call.due = "list" => RequestsLeft(call) = GmailMax + 1
           /\ call.due = "message" => RequestsLeft(call) = Len(call.left)
           /\ call.due = "page" => RequestsLeft(call) = (MaxPages - call.page) + 1
<1>1. GmailMax \in Nat /\ MaxPages \in Nat
  BY PagesAssumption
<1>2. call.due = "message" => Len(call.left) \in Nat \ {0}
  <2>. SUFFICES ASSUME call.due = "message" PROVE Len(call.left) \in Nat \ {0}
    OBVIOUS
  <2>1. call.left \in Seq(Messages) /\ call.left # << >>
    BY DEF ReadingOK, PageOK, Going
  <2>. QED
    BY <2>1, EmptySeq, LenProperties
<1>3. call.due = "page" => call.page \in Nat /\ call.page <= MaxPages
  BY DEF ReadingOK, SummaryOK
<1>. QED
  BY <1>1, <1>2, <1>3 DEF RequestsLeft, ReadingOK

\* A call that has ended sends nothing more.
LEMMA NothingLeft ==
    ASSUME IInv, NEW c \in Callers, calls[c].stage = "reading",
           Fails(c) \/ \E next : DOMAIN next = Fields /\ Answer(c, next)
    PROVE  RequestsLeft(calls'[c]) \in 0..(RequestsLeft(calls[c]) - 1)
<1>1. calls'[c].stage # "reading"
  BY DEF IInv, CallsInv, Fails, Answer, Continue, Idle, Fields
<1>2. RequestsLeft(calls'[c]) = 0
  BY <1>1 DEF RequestsLeft
<1>3. RequestsLeft(calls[c]) \in Nat \ {0}
  BY SomethingLeft DEF IInv, CallOK
<1>. QED
  BY <1>2, <1>3

\* What a call that goes on has left to send.
LEMMA StillLeft ==
    ASSUME IInv, NEW c \in Callers, NEW next, DOMAIN next = Fields, Continue(c, next),
           next.stage = "reading"
    PROVE  /\ next.due \in {"document", "text"} => RequestsLeft(calls'[c]) = 1
           /\ next.due = "message" => RequestsLeft(calls'[c]) = Len(next.left)
           /\ next.due = "page" => RequestsLeft(calls'[c]) = (MaxPages - next.page) + 1
<1>. DEFINE x == [next EXCEPT !.token = Resolve(calls[c])]
<1>1. calls'[c] = x
  BY DEF IInv, CallsInv, Continue
<1>2. x.stage = "reading" /\ x.due = next.due /\ x.left = next.left /\ x.page = next.page
  BY DEF Fields
<1>. HIDE DEF x
<1>. QED
  BY <1>1, <1>2 DEF RequestsLeft

LEMMA FileAdvances ==
    ASSUME IInv, NEW c \in Callers, ReadFile(c)
    PROVE  RequestsLeft(calls'[c]) \in 0..(RequestsLeft(calls[c]) - 1)
<1>. DEFINE call == calls[c]
            id == call.ask.resource[4]
            file == files[id]
            seen == [call EXCEPT !.seen = file.drive]
            last == [seen EXCEPT !.got = <<id>>]
            next == [seen EXCEPT !.due = file.type]
<1>1. /\ Sends(c, "file")
      /\ Answer(c, last) \/ (file.type \in {"document", "text"} /\ Continue(c, next))
  BY DEF ReadFile
<1>2. /\ DOMAIN call = Fields /\ call.stage = "reading" /\ call.due = "file"
      /\ ReadingOK(call, tickets)
  BY <1>1, Sender
<1>3. /\ DOMAIN last = Fields /\ DOMAIN next = Fields
      /\ next.stage = "reading" /\ next.due = file.type
  BY <1>2 DEF Fields
<1>4. RequestsLeft(call) = 2
  BY <1>2, SomethingLeft
<1>. HIDE DEF last, next
<1>5. CASE Answer(c, last)
  BY <1>2, <1>3, <1>5, NothingLeft
<1>6. CASE file.type \in {"document", "text"} /\ Continue(c, next)
  <2>1. RequestsLeft(calls'[c]) = 1
    BY <1>3, <1>6, StillLeft
  <2>. QED
    BY <1>4, <2>1
<1>. QED
  BY <1>1, <1>5, <1>6

LEMMA ListAdvances ==
    ASSUME IInv, NEW c \in Callers, ListMessages(c)
    PROVE  RequestsLeft(calls'[c]) \in 0..(RequestsLeft(calls[c]) - 1)
<1>. DEFINE call == calls[c]
            ids == Take(mailboxes[Resolve(call)], PageOf(call.ask))
            next == [call EXCEPT !.left = ids, !.listed = ids, !.due = "message"]
<1>1. Sends(c, "list") /\ (Answer(c, next) \/ Continue(c, next))
  BY DEF ListMessages
<1>2. /\ DOMAIN call = Fields /\ call.stage = "reading" /\ call.due = "list"
      /\ ReadingOK(call, tickets) /\ call.ask.capability = "message.search"
      /\ Resolve(call) \in Accounts
  BY <1>1, Sender DEF ReadingOK
<1>3. PageOf(call.ask) \in 0..GmailMax /\ GmailMax \in Nat
  BY <1>2, PagesAssumption DEF ReadingOK, Served, GmailPayload, PageOf
<1>4. ids \in Seq(Messages) /\ Len(ids) <= GmailMax
  BY <1>2, <1>3, MailboxType, TakeType
<1>5. /\ DOMAIN next = Fields /\ next.stage = "reading" /\ next.due = "message"
      /\ next.left = ids
  BY <1>2 DEF Fields
<1>6. RequestsLeft(call) = GmailMax + 1
  BY <1>2, SomethingLeft
<1>7. Len(ids) \in Nat
  BY <1>4, LenProperties
<1>. HIDE DEF next, ids
<1>8. CASE Answer(c, next)
  BY <1>2, <1>5, <1>8, NothingLeft
<1>9. CASE Continue(c, next)
  <2>1. RequestsLeft(calls'[c]) = Len(ids)
    BY <1>5, <1>9, StillLeft
  <2>. QED
    BY <1>3, <1>4, <1>6, <1>7, <2>1
<1>. QED
  BY <1>1, <1>8, <1>9

LEMMA MessageAdvances ==
    ASSUME IInv, NEW c \in Callers, ReadMessage(c)
    PROVE  RequestsLeft(calls'[c]) \in 0..(RequestsLeft(calls[c]) - 1)
<1>. DEFINE call == calls[c]
            rest == Tail(call.left)
            read == IF Head(call.left) \in ToSet(mailboxes[Resolve(call)])
                    THEN Append(call.got, <<Head(call.left), Resolve(call)>>) ELSE call.got
            next == [call EXCEPT !.left = rest, !.got = read]
<1>1. Sends(c, "message") /\ (Answer(c, next) \/ Continue(c, next))
  BY DEF ReadMessage
<1>2. /\ DOMAIN call = Fields /\ call.stage = "reading" /\ call.due = "message"
      /\ ReadingOK(call, tickets) /\ call.left \in Seq(Messages) /\ call.left # << >>
  BY <1>1, Sender DEF ReadingOK, PageOK, Going
<1>3. RequestsLeft(call) = Len(call.left)
  BY <1>2, SomethingLeft
<1>4. Len(rest) = Len(call.left) - 1 /\ Len(call.left) \in Nat /\ Len(rest) \in Nat
  BY <1>2, HeadTailProperties, LenProperties
<1>5. /\ DOMAIN next = Fields /\ next.stage = "reading" /\ next.due = "message"
      /\ next.left = rest
  BY <1>2 DEF Fields
<1>. HIDE DEF next, read, rest
<1>6. CASE Answer(c, next)
  BY <1>2, <1>5, <1>6, NothingLeft
<1>7. CASE Continue(c, next)
  <2>1. RequestsLeft(calls'[c]) = Len(rest)
    BY <1>5, <1>7, StillLeft
  <2>. QED
    BY <1>3, <1>4, <2>1
<1>. QED
  BY <1>1, <1>6, <1>7

LEMMA PageAdvances ==
    ASSUME IInv, NEW c \in Callers, ReadPage(c)
    PROVE  RequestsLeft(calls'[c]) \in 0..(RequestsLeft(calls[c]) - 1)
<1>. DEFINE call == calls[c]
            read == call.got \o SubSeq(tickets, (call.page - 1) * PageSize + 1,
                                       Min({call.page * PageSize, Len(tickets)}))
<1>1. PICK page \in NextPages(call.page) :
         LET next == [call EXCEPT !.got = read, !.page = page]
         IN /\ Sends(c, "page")
            /\ Answer(c, next) \/ Fails(c) \/ (Advances(call.page, page) /\ Continue(c, next))
  BY DEF ReadPage, BadPage
<1>. DEFINE next == [call EXCEPT !.got = read, !.page = page]
<1>2. /\ DOMAIN call = Fields /\ call.stage = "reading" /\ call.due = "page"
      /\ ReadingOK(call, tickets) /\ call.page \in Nat \ {0}
  BY <1>1, Sender DEF ReadingOK, SummaryOK
<1>3. RequestsLeft(call) = (MaxPages - call.page) + 1
  BY <1>2, SomethingLeft
<1>4. /\ DOMAIN next = Fields /\ next.stage = "reading" /\ next.due = "page"
      /\ next.page = page
  BY <1>2 DEF Fields
<1>5. page \in Nat /\ MaxPages \in Nat
  BY <1>2, PagesAssumption DEF NextPages
<1>6. Answer(c, next) \/ Fails(c) \/ (Advances(call.page, page) /\ Continue(c, next))
  BY <1>1
<1>. HIDE DEF next, read
<1>7. CASE Answer(c, next) \/ Fails(c)
  BY <1>2, <1>4, <1>7, NothingLeft
<1>8. CASE Advances(call.page, page) /\ Continue(c, next)
  <2>1. RequestsLeft(calls'[c]) = (MaxPages - page) + 1
    BY <1>4, <1>8, StillLeft
  <2>. QED
    BY <1>2, <1>3, <1>5, <1>8, <2>1 DEF Advances
<1>. QED
  BY <1>6, <1>7, <1>8

LEMMA ReadAdvances ==
    ASSUME IInv, NEW c \in Callers, Read(c)
    PROVE  RequestsLeft(calls'[c]) \in 0..(RequestsLeft(calls[c]) - 1)
<1>1. ASSUME NEW got, NEW request, Sends(c, request), Answer(c, [calls[c] EXCEPT !.got = got])
      PROVE  RequestsLeft(calls'[c]) \in 0..(RequestsLeft(calls[c]) - 1)
  <2>1. calls[c].stage = "reading" /\ DOMAIN [calls[c] EXCEPT !.got = got] = Fields
    BY <1>1, Sender
  <2>. QED
    BY <1>1, <2>1, NothingLeft
<1>. QED
  BY <1>1, FileAdvances, ListAdvances, MessageAdvances, PageAdvances
  DEF Read, ReadThing, ReadContent

\* Every request takes its call on, whatever the provider answers and however
\* its data change under the call: a call sends two requests, a page of messages
\* and its list, or MaxPages requests, at most, for any data, calls and changes.
THEOREM CallsGoOn == Spec => CallsAdvance
<1>. DEFINE On(c) ==
            /\ calls[c].stage = "reading"
            /\ calls'[c] \notin {calls[c], [calls[c] EXCEPT !.shrunk = TRUE]}
            => RequestsLeft(calls'[c]) \in 0..(RequestsLeft(calls[c]) - 1)
<1>1. IInv /\ [Next]_vars => [\A c \in Callers : On(c)]_vars
  <2>. SUFFICES ASSUME IInv, Next, NEW c \in Callers, calls[c].stage = "reading",
                       calls'[c] \notin {calls[c], [calls[c] EXCEPT !.shrunk = TRUE]}
                PROVE  RequestsLeft(calls'[c]) \in 0..(RequestsLeft(calls[c]) - 1)
    OBVIOUS
  <2>1. ASSUME NEW d \in Callers, NEW next, calls' = [calls EXCEPT ![d] = next] PROVE d = c
    BY <2>1 DEF IInv, CallsInv
  <2>2. ASSUME NEW d \in Callers, NEW ask \in Asks, Begin(d, ask) PROVE FALSE
    BY <2>1, <2>2 DEF Begin
  <2>3. ASSUME NEW d \in Callers, Read(d) PROVE Read(c)
    BY <2>1, <2>3, ReadChangesOne
  <2>4. ASSUME NEW d \in Callers, Fail(d) PROVE Fails(c)
    BY <2>1, <2>4 DEF Fail, Fails
  <2>5. ~Cancel
    BY DEF Cancel
  <2>. QED
    BY <2>2, <2>3, <2>4, <2>5, ReadAdvances, NothingLeft
    DEF Next, Others, Sell, EditFile, Deliver, Discard, Reconnect
<1>. QED
  BY <1>1, Initially, Inductive, PTL DEF Spec, CallsAdvance

\* A summary is never short, for any page size, bound, calls and changes: it has
\* as many tickets as there are when its last page is read, and more only if
\* some were cancelled under it.
THEOREM NeverShort == Spec => TotalsNeverShort
<1>. DEFINE Holds(c) ==
            /\ calls[c].stage = "reading" /\ calls[c].due = "page" /\ calls'[c].stage = "answered"
            => /\ Len(calls[c].got) <= Len(calls'[c].got)
               /\ Len(tickets) <= Len(calls'[c].got)
               /\ calls[c].shrunk \/ Len(calls'[c].got) = Len(tickets)
<1>1. IInv /\ [Next]_vars => [\A c \in Callers : Holds(c)]_vars
  <2>. SUFFICES ASSUME IInv, Next, NEW c \in Callers, calls[c].stage = "reading",
                       calls[c].due = "page", calls'[c].stage = "answered"
                PROVE  /\ Len(calls[c].got) <= Len(calls'[c].got)
                       /\ Len(tickets) <= Len(calls'[c].got)
                       /\ calls[c].shrunk \/ Len(calls'[c].got) = Len(tickets)
    OBVIOUS
  <2>1. ASSUME NEW d \in Callers, NEW next, calls' = [calls EXCEPT ![d] = next] PROVE d = c
    BY <2>1 DEF IInv, CallsInv
  <2>2. ASSUME NEW d \in Callers, NEW ask \in Asks, Begin(d, ask) PROVE FALSE
    BY <2>1, <2>2 DEF Begin
  <2>3. ASSUME NEW d \in Callers, Read(d) PROVE ReadPage(c)
    <3>1. Read(c)
      BY <2>1, <2>3, ReadChangesOne
    <3>. QED
      BY <3>1 DEF Read, ReadThing, ReadFile, ReadContent, ListMessages, ReadMessage, Sends
  <2>4. ASSUME NEW d \in Callers, Fail(d) PROVE FALSE
    BY <2>1, <2>4 DEF Fail, Fails, Idle, IInv, CallsInv
  <2>5. ASSUME Others PROVE FALSE
    BY <2>5 DEF IInv, CallOK, Fields, Others, Sell, Cancel, EditFile, Deliver, Discard, Reconnect
  <2>. QED
    BY <2>2, <2>3, <2>4, <2>5, LastPage DEF Next
<1>. QED
  BY <1>1, Initially, Inductive, PTL DEF Spec, TotalsNeverShort
=============================================================================
