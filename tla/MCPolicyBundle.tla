--------------------------- MODULE MCPolicyBundle ---------------------------
(* Instance of PolicyBundle for TLC: a skew of one tick, a window of two,  *)
(* and documents that meet every check on both sides of its boundary.      *)
EXTENDS BundleHealth

CONSTANTS here, elsewhere

Good(schema, version, issued) ==
    [schema |-> schema, audience |-> here, version |-> version,
     issuedAt |-> issued, notAfter |-> issued + 2, mode |-> "bundle",
     flaws |-> {}]

\* Sound documents of three versions, issued at different times.
Sound == {Good("v1", 1, 1), Good("v2", 1, 2), Good("v2", 2, 1),
          Good("v1", 3, 3)}

\* One document for every flaw and for every envelope check.
Flawed ==
    {[Good(s, 2, 2) EXCEPT !.flaws = {f}] : s \in {"v1", "v2"}, f \in Flaws}
        \cup {[Good(s, 2, 2) EXCEPT !.audience = elsewhere] : s \in {"v1", "v2"}}
        \cup {[Good("v2", 2, 2) EXCEPT !.notAfter = n] : n \in {2, 5}}
        \cup {[Good(s, 3, 2) EXCEPT !.mode = m] : s \in {"v1", "v2"}, m \in {"online", "other"}}
        \cup {Good("other", -1, 2), Good("v1", 0, 2), Good("v2", -1, 2)}

MCDocuments == Sound \cup Flawed
MCAudiences == {here, elsewhere}
=============================================================================
