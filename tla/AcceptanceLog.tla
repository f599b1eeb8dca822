--------------------------- MODULE AcceptanceLog ---------------------------
(***************************************************************************)
(* What the validation of policy bundles promises the service that         *)
(* enforces them (bundle/bundle.go, Validate and ValidateV2), without      *)
(* saying how: the bundles it accepts form a log that only grows.  Each    *)
(* entry names a version above all the earlier ones, whatever the clock    *)
(* did and however often the process restarted in between, and was         *)
(* accepted no earlier than the clock skew before its issue and before the *)
(* longest validity window after it.                                       *)
(***************************************************************************)
EXTENDS Integers, Sequences

CONSTANTS
    Entry,   \* the acceptances there can be: records with a version, an
             \* issuedAt and the time at which the acceptance took place
    Skew,    \* MaxIssuedAtClockSkew
    Window   \* the longest validity of a bundle

VARIABLE accepted  \* the sequence of the acceptances

InLifetime(e) == e.issuedAt - Skew <= e.at /\ e.at < e.issuedAt + Window

Newest(e) == \A i \in 1..Len(accepted) : accepted[i].version < e.version

Init == accepted = << >>

Accept(e) ==
    /\ InLifetime(e)
    /\ Newest(e)
    /\ accepted' = Append(accepted, e)

Next == \E e \in Entry : Accept(e)

Spec == Init /\ [][Next]_accepted
=============================================================================
