----------------------------- MODULE PathGlobs -----------------------------
(* Path globs as harnessmatch.go reads them: a path is cut at its slashes,  *)
(* and a star stands for any characters within one segment.                 *)
EXTENDS Naturals, Sequences

CONSTANT StarFits    \* <<p, s>>: p holds a star and segment s fits it

HoldsStar(segment) == segment \in {x[1] : x \in StarFits}

SegmentMatch(p, s) == p = s \/ <<p, s>> \in StarFits

\* Path globs segment by segment; two stars take any number of segments.
\* starts[i] are the places of s from which p matches from its place i on.
GlobMatch(p, s) ==
    LET starts[i \in 1..(Len(p) + 1)] ==
            IF i > Len(p) THEN {Len(s) + 1}
            ELSE IF p[i] = "**" THEN {j \in 1..(Len(s) + 1) : \E k \in starts[i + 1] : j <= k}
            ELSE {j \in 1..Len(s) : SegmentMatch(p[i], s[j]) /\ j + 1 \in starts[i + 1]}
    IN 1 \in starts[1]
=============================================================================
