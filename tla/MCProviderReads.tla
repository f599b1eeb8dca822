-------------------------- MODULE MCProviderReads --------------------------
(* Instance of ProviderReads for TLC: one caller, who asks for everything   *)
(* once or more, while others change at most two things.                    *)
EXTENDS ProviderReads

Ask(capability, resource, named, number) ==
    [capability |-> capability, resource |-> resource, named |-> named,
     number |-> number, credential |-> "vault://k"]
Plain(capability, resource) == Ask(capability, resource, Nothing, 0)

\* The calls of several requests, and those with a payload of their own.
MCFlows ==
    {Plain("drive.metadata.read", <<"drive", "d1", "files", "f1">>),
     Plain("docs.read", <<"drive", "d1", "files", "f1">>),
     Ask("message.search", <<"gmail", "messages">>, Nothing, 0),
     Ask("message.search", <<"gmail", "messages">>, Nothing, 1),
     Ask("message.search", <<"gmail", "messages">>, Nothing, 4),
     Plain("ticket.summary", <<"tito", "org", "events", "conf", "ticket-summary">>)}

MCThings ==
    {Ask("message.get", <<"gmail", "messages", "m1">>, n, 0) : n \in {"m1", "m2"}}
    \cup {Ask("object.list", <<"s3", "b", "p">>, n, 0) : n \in {"p", "q"}}
    \cup {Ask("object.read", <<"s3", "b", "">>, k, 0) : k \in {"", "k"}}
    \cup {Ask("search", r, "q", 0) : r \in {<<"search", "r", "s">>, <<"search", "">>}}
    \cup {Ask("event.list", <<"tito", "org", "events">>, n, p) :
              n \in {"past", "next"}, p \in {-1, 2}}
    \cup {Plain("issue.read", <<"repos", "o", "r", "issues", n>>) : n \in {"05", "five"}}
    \cup {Plain("event.get", <<"tito", "org", "events", e>>) : e \in {"conf", "a.b"}}
    \cup {Plain("invoice.read", <<"accounts", "a", "expenses", "t">>),
          Plain("drive.doc.create", <<"drive", "d1">>)}

MCAsks == MCFlows \cup MCThings
MCNumerals == ("5" :> "5") @@ ("05" :> "5")
=============================================================================
