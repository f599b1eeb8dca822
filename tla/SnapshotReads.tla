--------------------------- MODULE SnapshotReads ---------------------------
(***************************************************************************)
(* What the reads of a skills repository promise, without saying how       *)
(* (providers/skills_repo_http.go 32-38): each call fixes one commit, the  *)
(* one the ref names at some moment of the call, and answers with what     *)
(* that commit holds, whole, or with a failure.                            *)
(***************************************************************************)
CONSTANTS
    Calls, Commits,
    Snapshot,   \* the answer to a call, by call and commit
    Nothing, Failed

VARIABLES
    ref,      \* the commit that the ref names
    view,     \* the commit a call has fixed, or Nothing
    answer    \* the answer of a call, or Nothing

vars == <<ref, view, answer>>

Init ==
    /\ ref \in Commits
    /\ view = [c \in Calls |-> Nothing]
    /\ answer = [c \in Calls |-> Nothing]

Move == ref' \in Commits /\ UNCHANGED <<view, answer>>

Fix(c) ==
    /\ view[c] = Nothing /\ answer[c] = Nothing
    /\ view' = [view EXCEPT ![c] = ref]
    /\ UNCHANGED <<ref, answer>>

Answer(c) ==
    /\ answer[c] = Nothing
    /\ \/ view[c] # Nothing /\ answer' = [answer EXCEPT ![c] = Snapshot[<<c, view[c]>>]]
       \/ answer' = [answer EXCEPT ![c] = Failed]
    /\ UNCHANGED <<ref, view>>

Next == Move \/ \E c \in Calls : Fix(c) \/ Answer(c)

Spec == Init /\ [][Next]_vars
=============================================================================
