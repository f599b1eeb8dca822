----------------------------- MODULE WriteOnce -----------------------------
(***************************************************************************)
(* What a caller may rely on when it repeats a write under one idempotency *)
(* key: a write is made after it was allowed, at most once however often   *)
(* it is asked for, and whoever is told of its success is told of that one *)
(* entity.                                                                 *)
(***************************************************************************)
CONSTANTS
    Entities,  \* what may be made
    WriteOf(_) \* the write that makes an entity: what the keys tell apart

VARIABLES
    allowed,  \* the writes that were allowed
    made,     \* the entities made
    told      \* the successes reported: <<write, entity>>

Init == allowed = {} /\ made = {} /\ told = {}

Allow(w) ==
    /\ allowed' = allowed \cup {w}
    /\ UNCHANGED <<made, told>>

Make(e) ==
    /\ WriteOf(e) \in allowed
    /\ \A other \in made : WriteOf(other) # WriteOf(e)
    /\ made' = made \cup {e}
    /\ UNCHANGED <<allowed, told>>

Tell(e) ==
    /\ e \in made
    /\ told' = told \cup {<<WriteOf(e), e>>}
    /\ UNCHANGED <<allowed, made>>

Next == \E e \in Entities : Allow(WriteOf(e)) \/ Make(e) \/ Tell(e)

vars == <<allowed, made, told>>
Spec == Init /\ [][Next]_vars
=============================================================================
