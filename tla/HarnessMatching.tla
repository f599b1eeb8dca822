-------------------------- MODULE HarnessMatching --------------------------
(***************************************************************************)
(* The dialect kei.harness-match/v1 (harnessmatch/harnessmatch.go): what a *)
(* source and a destination pattern match of a harness tool call, and the  *)
(* outcome of a list of policies, the first match deciding.                *)
(*                                                                         *)
(* A call is a record of its inputs, Nothing or << >> where it has none;   *)
(* "clean" says whether its path is absolute and clean.                    *)
(***************************************************************************)
EXTENDS SubjectMatching, PathGlobs, SequencesExt

\* A leading ~/ that stands for the home directory of the call.
FromHome(dst) == Len(dst.toks) > 1 /\ Head(dst.toks) = "~"

Unrenderable(dst, call) ==
    dst.scheme = "path" /\ call.path # << >> /\ FromHome(dst) /\ call.home = << >>

MatchDst(dst, call) ==
    LET names(values) == dst.toks \in {<<"*">>} \cup values
    IN \/ dst.scheme = "any"
       \/ /\ dst.scheme = "shell" /\ call.argv # << >> /\ dst.toks # << >>
          /\ names({}) \/ IsPrefix(dst.toks, call.argv)
       \/ dst.scheme = "skill" /\ call.skill # Nothing /\ names({<<call.skill>>})
       \/ dst.scheme = "tool" /\ call.tool # Nothing /\ names({<<call.tool>>})
       \/ /\ dst.scheme = "mcp" /\ call.server # Nothing
          /\ names({<<call.server>>} \cup
                   (IF call.mcpTool = Nothing THEN {} ELSE {<<call.server, call.mcpTool>>}))
       \/ /\ dst.scheme = "path" /\ call.path # << >>
          /\ \/ names({}) \/ Unrenderable(dst, call)
             \/ GlobMatch(IF FromHome(dst) THEN call.home \o Tail(dst.toks) ELSE dst.toks,
                          call.path)

\* Sources that only a session can resolve.
Human(src) == src.scheme \notin {"any", "harness", "agent"}

MatchSrc(src, call) ==
    \/ src.scheme = "any"
    \/ src.scheme = "harness" /\ src.value \in {"*", call.kind} \cup ({call.harness} \ {Nothing})
    \/ src.scheme = "agent" /\ call.agent # Nothing /\ src.value \in {"*", call.agent}

\* A command is permitted by a literal argv prefix and by nothing wider.
ShellLiteral(dst) == dst.scheme = "shell" /\ dst.toks # <<"*">>

\* Mutant: a human source is passed over.
HumanPassedOver(policies, call) ==
    {i \in DOMAIN policies : LET p == policies[i] IN
        /\ p.agent \in {Nothing, call.agent}
        /\ MatchDst(p.dst, call)
        /\ call.argv # << >> /\ p.effect = "permit" => ShellLiteral(p.dst)
        /\ MatchSrc(p.src, call)}
\* The positions at which the walk over the policies stops.
Stops(policies, call) ==
    {i \in DOMAIN policies : LET p == policies[i] IN
        /\ p.agent \in {Nothing, call.agent}
        /\ MatchDst(p.dst, call)
        /\ call.argv # << >> /\ p.effect = "permit" => ShellLiteral(p.dst)
        /\ MatchSrc(p.src, call) \/ Human(p.src)}

NotRenderable(reason) == [outcome |-> "not_renderable", reason |-> reason]

\* Mutant: under deny_overrides too the array order decides.
ArrayOrder(policies, stops, denyFirst) == First(stops)
\* Where the walk stops first: the denies, if they go first, stand ahead of all
\* the others, each group in array order.
FirstStop(policies, stops, denyFirst) ==
    LET denies == {i \in stops : policies[i].effect = "deny"}
    IN IF denyFirst /\ denies # {} THEN First(denies) ELSE First(stops)

\* Of the policies, those at the positions held.
EvaluateWith(call, policies, held, denyFirst, known, viaPDP) ==
    LET stops == held \cap Stops(policies, call)
        p == policies[FirstStop(policies, stops, denyFirst)]
    IN IF ~known THEN NotRenderable("unsupported_kind")
       ELSE IF viaPDP THEN NotRenderable("evaluate_via_pdp")
       ELSE IF call.path # << >> /\ ~call.clean THEN NotRenderable("path_not_absolute")
       ELSE IF stops = {} THEN [outcome |-> "unmatched"]
       ELSE IF Human(p.src) THEN NotRenderable("human_source")
       ELSE IF Unrenderable(p.dst, call) THEN NotRenderable("dst_not_renderable")
       ELSE [outcome |-> p.effect, policy |-> p.id]
=============================================================================
