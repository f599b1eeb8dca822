-------------------------- MODULE SubjectMatching --------------------------
(***************************************************************************)
(* What the v1 and the v2 evaluators of the bundle package share: how a    *)
(* source pattern is held against a call and its acting person             *)
(* (bundle/evaluate.go) and which session subjects are refused whatever    *)
(* the policies say (bundle/session.go).                                   *)
(***************************************************************************)
EXTENDS PolicyPatterns

CONSTANT Nothing    \* an empty string, a nil pointer, the zero time

First(S) == CHOOSE i \in S : \A j \in S : i <= j

SrcMatch(p, call, groups, roles) ==
    \/ p.scheme = "agent" /\ call.agent # Nothing /\ p.value \in {call.agent, "*"}
    \/ p.scheme = "org" /\ p.value \in roles
    \/ MatchPrincipal(p, [user |-> call.user, email |-> call.email, groups |-> groups])

StatusReason(status) ==
    CASE status = "pending" -> "subject_pending"
      [] status = "revoked" -> "subject_revoked"
      [] status = "cross_workspace" -> "subject_cross_workspace"
      [] OTHER -> "subject_unlinked"

SubjectGate(subject) ==
    IF subject.status = "linked" /\ subject.user # NoOne THEN "ok"
    ELSE StatusReason(subject.status)
=============================================================================
