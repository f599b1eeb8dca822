--------------------------- MODULE PolicyPatterns ---------------------------
(***************************************************************************)
(* The matching language of the policy package (policy/policy.go and       *)
(* policy/decide.go), which every evaluator of the repository calls.       *)
(*                                                                         *)
(* A pattern is a string in the code and a record here: its scheme, and    *)
(* what stands behind the colon cut at its separators.  The any pattern    *)
(* "*" has scheme "any".  An identifier (a user id or an address) carries  *)
(* the scheme and the domain that the string would have.                   *)
(***************************************************************************)
EXTENDS Naturals, Sequences

CONSTANTS
    NoOne,      \* the empty user id, the empty address
    SlashPrefixes \* <<p, t>>: p ends with a slash and token t begins with p

ASSUME SlashPrefixesAssumption ==
    \A x \in SlashPrefixes : x = <<x[1], x[2]>> /\ <<x[1], x[1]>> \in SlashPrefixes

AnyPrincipal == [scheme |-> "any", value |-> "*"]
AnyTarget == [scheme |-> "any", toks |-> <<"*">>]

Inputs(caller) == {caller.user, caller.email} \ {NoOne}

\* A bare pattern is a group name, a user id or an address, whole.
MatchPrincipal(p, caller) ==
    \/ p.scheme = "any"
    \/ p.scheme \in {"group", "bare"} /\ p.value \in caller.groups
    \/ p.scheme = "user" /\ caller.user # NoOne /\ p.value = caller.user.name
    \/ p.scheme \in {"email", "bare"} /\ \E i \in Inputs(caller) : p.value = i.name
    \/ p.scheme = "wildcard" /\ \E i \in Inputs(caller) : p.value = i.scheme
    \/ p.scheme = "domain" /\ \E i \in Inputs(caller) : p.value = i.domain

SlashTokens == {x[1] : x \in SlashPrefixes}

\* The pattern's tokens lead the target's; a slash opens the last one.
ShellMatches(pattern, target) ==
    /\ Len(pattern) \in 1..Len(target)
    /\ \A i \in 1..Len(pattern) :
           IF i = Len(pattern) /\ pattern[i] \in SlashTokens
           THEN <<pattern[i], target[i]>> \in SlashPrefixes
           ELSE target[i] = pattern[i]

\* Segments are equal one by one, up to a star that takes all that is left.
ConnectorMatches(pattern, target) ==
    /\ target # << >>
    /\ \/ \E n \in 1..Len(pattern) :
              /\ pattern[n] = "*"
              /\ n - 1 <= Len(target)
              /\ \A i \in 1..(n - 1) : target[i] = pattern[i]
       \/ pattern = target

TargetMatches(p, target) ==
    \/ p = target
    \/ p.scheme = "any"
    \/ p.toks = <<"*">> /\ p.scheme = target.scheme /\ target.toks # << >>
    \/ p.scheme = "shell" /\ target.scheme = "shell" /\ ShellMatches(p.toks, target.toks)
    \/ p.scheme = "connector" /\ target.scheme = "connector"
          /\ ConnectorMatches(p.toks, target.toks)
=============================================================================
