-------------------------- MODULE SkillsRepoProofs --------------------------
(* Proofs about SkillsRepo for any calls, commits and contents.  A call that *)
(* has resolved holds the tree of its commit, and what it has read is what   *)
(* it planned to read less what is left, so its result is what the commit    *)
(* holds, whatever was pushed in between; and a plan is within the limits.   *)
EXTENDS SkillsRepo, FiniteSetTheorems, FunctionTheorems, TLAPS

Domains ==
    /\ ref \in Commits
    /\ pc \in [Calls -> Stages]
    /\ commit \in [Calls -> Commits \cup {Nothing}]
    /\ DOMAIN tree = Calls /\ DOMAIN todo = Calls /\ DOMAIN got = Calls
    /\ DOMAIN front = Calls /\ DOMAIN answer = Calls

\* The files a call reads of the tree it holds.
Plan(c) == IF Asked[c].op = "list" THEN ToList(tree[c])
           ELSE FilesOf(Asked[c].name, tree[c][Asked[c].name])

Fresh(c) == commit[c] = Nothing /\ answer[c] = Nothing /\ todo[c] = {} /\ got[c] = {}
Resolved(c) ==
    commit[c] \in Commits /\ tree[c] = Content[commit[c]] /\ answer[c] = Nothing
NameValid(c) == Asked[c].op = "fetch" => Asked[c].name \in ValidNames
FetchReady(c) == Asked[c].op = "fetch" => Fetchable(tree[c][Asked[c].name])

\* Where a call stands says what it holds.
CallInv(c) ==
    /\ pc[c] \in {"idle", "resolve"} => Fresh(c)
    /\ pc[c] \notin {"idle", "ended"} => NameValid(c)
    /\ pc[c] \in {"walk", "tree", "front", "read"} => Resolved(c)
    /\ pc[c] \in {"walk", "tree"} => todo[c] = {} /\ got[c] = {}
    /\ pc[c] \in {"tree", "front", "read"} => tree[c] # Nothing
    /\ pc[c] \in {"front", "read"} => FetchReady(c)
    /\ pc[c] = "front" => Asked[c].op = "fetch" /\ todo[c] = Plan(c) /\ got[c] = {}
    /\ pc[c] = "read" =>
           /\ todo[c] \subseteq Plan(c)
           /\ got[c] = {Copy(c, f) : f \in Plan(c) \ todo[c]}
           /\ Asked[c].op = "fetch" =>
                  /\ IsSkill(Asked[c].name, front[c])
                  /\ \E e \in SkillFile(tree[c][Asked[c].name]) : front[c] = e.blob
    /\ pc[c] = "ended" =>
           \/ answer[c] = Failed
           \/ commit[c] \in Commits /\ NameValid(c) /\ answer[c] = SnapshotOf(c, commit[c])

IInv == Domains /\ \A c \in Calls : CallInv(c)

\* A folder has one SKILL.md.
LEMMA OneSkillFile ==
    ASSUME NEW k \in Commits, Content[k] # Nothing, NEW n \in Names,
           NEW e \in SkillFile(Content[k][n])
    PROVE  e = (CHOOSE d \in SkillFile(Content[k][n]) : TRUE) /\ e.blob \in Blobs
<1>1. \A d \in SkillFile(Content[k][n]) : d = e
  BY ContentAssumption DEF SkillFile
<1>. QED
  BY <1>1, ContentAssumption DEF SkillFile, Entry

\* What a listing has read, once nothing is left to read, is the listing of
\* the commit.
LEMMA ListIsSnapshot ==
    ASSUME NEW c \in Calls, Asked[c].op = "list", Resolved(c), tree[c] # Nothing,
           got[c] = {Copy(c, f) : f \in ToList(tree[c])}
    PROVE  Result(c) = SnapshotOf(c, commit[c])
<1>. DEFINE t == Content[commit[c]]
            mine == {Skill(g.name, g.blob) : g \in {h \in got[c] : IsSkill(h.name, h.blob)}}
            theirs == {s \in [name : SkillFolders(t), blob : Blobs] :
                 IsSkill(s.name, s.blob) /\ \E e \in SkillFile(t[s.name]) : e.blob = s.blob}
<1>1. tree[c] = t /\ commit[c] \in Commits /\ t # Nothing
  BY DEF Resolved
<1>2. \A n \in SkillFolders(t) : n \in Names
  BY ContentAssumption DEF SkillFolders
<1>3. ASSUME NEW s \in mine PROVE s \in theirs
  <2>1. PICK f \in ToList(t) : IsSkill(f.name, f.file.blob) /\ s = Skill(f.name, f.file.blob)
    BY <1>1 DEF Copy, BlobOf
  <2>2. PICK n \in SkillFolders(t) : f \in FilesOf(n, SkillFile(t[n]))
    BY <2>1 DEF ToList
  <2>3. f.name = n /\ f.file \in SkillFile(t[n])
    BY <2>2 DEF FilesOf
  <2>4. f.file.blob \in Blobs
    BY <1>1, <1>2, <2>3, OneSkillFile
  <2>. QED
    BY <2>1, <2>2, <2>3, <2>4 DEF Skill
<1>4. ASSUME NEW s \in theirs PROVE s \in mine
  <2>1. PICK e \in SkillFile(t[s.name]) : e.blob = s.blob
    OBVIOUS
  <2>. DEFINE f == [name |-> s.name, file |-> e]
  <2>2. f \in FilesOf(s.name, SkillFile(t[s.name])) /\ s.name \in SkillFolders(t)
    BY <2>1 DEF FilesOf
  <2>3. f \in ToList(t)
    BY <2>2 DEF ToList
  <2>4. Copy(c, f) \in got[c]
    BY <1>1, <2>3
  <2>5. Copy(c, f).name = s.name /\ Copy(c, f).blob = s.blob
    BY <2>1 DEF Copy, BlobOf
  <2>6. s = Skill(s.name, s.blob)
    BY DEF Skill
  <2>. QED
    BY <2>4, <2>5, <2>6
<1>5. mine = theirs
  BY <1>3, <1>4
<1>. QED
  BY <1>1, <1>5 DEF Result, SnapshotOf

\* The same for a fetch: the archive is the folder of the commit.
LEMMA FetchIsSnapshot ==
    ASSUME NEW c \in Calls, Asked[c].op = "fetch", Resolved(c), NameValid(c), FetchReady(c),
           tree[c] # Nothing, IsSkill(Asked[c].name, front[c]),
           \E e \in SkillFile(tree[c][Asked[c].name]) : front[c] = e.blob,
           got[c] = {Copy(c, f) : f \in FilesOf(Asked[c].name, tree[c][Asked[c].name])}
    PROVE  Result(c) = SnapshotOf(c, commit[c])
<1>. DEFINE t == Content[commit[c]]
            name == Asked[c].name
            mine == {[path |-> g.path, exec |-> g.exec, blob |-> g.blob] : g \in got[c]}
            theirs == {[path |-> e.path, exec |-> e.kind = "executable", blob |-> e.blob] :
                          e \in t[name]}
<1>1. tree[c] = t /\ commit[c] \in Commits /\ t # Nothing /\ name \in Names /\ Fetchable(t[name])
  BY ContentAssumption DEF Resolved, NameValid, FetchReady
<1>2. front[c] = (CHOOSE e \in SkillFile(t[name]) : TRUE).blob
  BY <1>1, OneSkillFile
<1>3. \A f \in FilesOf(name, t[name]) : f.file \in t[name]
  BY DEF FilesOf
<1>4. \A e \in t[name] : [name |-> name, file |-> e] \in FilesOf(name, t[name])
  BY DEF FilesOf
<1>5. ASSUME NEW x \in mine PROVE x \in theirs
  <2>1. PICK f \in FilesOf(name, t[name]) :
            x = [path |-> Copy(c, f).path, exec |-> Copy(c, f).exec, blob |-> Copy(c, f).blob]
    BY <1>1
  <2>. QED
    BY <1>3, <2>1 DEF Copy, BlobOf
<1>6. ASSUME NEW x \in theirs PROVE x \in mine
  <2>1. PICK e \in t[name] :
            x = [path |-> e.path, exec |-> e.kind = "executable", blob |-> e.blob]
    OBVIOUS
  <2>. DEFINE f == [name |-> name, file |-> e]
  <2>2. Copy(c, f) \in got[c]
    BY <1>1, <1>4, <2>1
  <2>3. x = [path |-> Copy(c, f).path, exec |-> Copy(c, f).exec, blob |-> Copy(c, f).blob]
    BY <2>1 DEF Copy, BlobOf
  <2>. QED
    BY <2>2, <2>3
<1>7. mine = theirs
  BY <1>5, <1>6
<1>. QED
  BY <1>1, <1>2, <1>7 DEF Result, SnapshotOf

\* A call that has read its plan has the answer of its commit.
LEMMA ResultIsSnapshot ==
    ASSUME NEW c \in Calls, CallInv(c), pc[c] = "read", todo[c] = {}
    PROVE  Result(c) = SnapshotOf(c, commit[c])
<1>1. /\ Resolved(c) /\ NameValid(c) /\ FetchReady(c) /\ tree[c] # Nothing
      /\ got[c] = {Copy(c, f) : f \in Plan(c)}
  BY DEF CallInv
<1>2. CASE Asked[c].op = "list"
  BY <1>1, <1>2, ListIsSnapshot DEF Plan
<1>3. CASE Asked[c].op = "fetch"
  <2>1. /\ IsSkill(Asked[c].name, front[c])
        /\ \E e \in SkillFile(tree[c][Asked[c].name]) : front[c] = e.blob
    BY <1>3 DEF CallInv
  <2>2. got[c] = {Copy(c, f) : f \in FilesOf(Asked[c].name, tree[c][Asked[c].name])}
    BY <1>1, <1>3 DEF Plan
  <2>. QED
    BY <1>1, <1>3, <2>1, <2>2, FetchIsSnapshot
<1>. QED
  BY <1>2, <1>3, AskedAssumption

-----------------------------------------------------------------------------
\* What a step leaves of a call alone keeps the call's invariant.
LEMMA UntouchedCall ==
    ASSUME NEW c \in Calls, CallInv(c), pc'[c] = pc[c], commit'[c] = commit[c],
           tree'[c] = tree[c], todo'[c] = todo[c], got'[c] = got[c],
           front'[c] = front[c], answer'[c] = answer[c]
    PROVE  CallInv(c)'
<1>1. Plan(c)' = Plan(c)
  BY DEF Plan
<1>2. /\ Fresh(c)' = Fresh(c) /\ Resolved(c)' = Resolved(c)
      /\ FetchReady(c)' = FetchReady(c) /\ NameValid(c)' = NameValid(c)
  BY DEF Fresh, Resolved, FetchReady, NameValid
<1>3. \A f : Copy(c, f)' = Copy(c, f)
  BY DEF Copy, BlobOf
<1>. QED
  BY <1>1, <1>2, <1>3 DEF CallInv

LEMMA InitInv == Init => IInv
  BY DEF Init, IInv, Domains, CallInv, Fresh, Stages

\* A call that ends with a failure, from any stage.
LEMMA FailedInv ==
    ASSUME NEW c \in Calls, IInv, End(c, Failed)
    PROVE  CallInv(c)'
<1>1. pc'[c] = "ended" /\ answer'[c] = Failed
  BY DEF End, IInv, Domains
<1>. QED
  BY <1>1 DEF CallInv

\* One step of one call keeps that call's invariant.
LEMMA StepInv ==
    ASSUME NEW c \in Calls, IInv, Begin(c) \/ RefuseName(c) \/ Step(c)
    PROVE  CallInv(c)'
<1>. USE DEF IInv, Domains
<1>1. CallInv(c)
  OBVIOUS
<1>2. CASE Begin(c)
  BY <1>1, <1>2 DEF Begin, Goto, CallInv, Fresh, NameValid
<1>3. CASE RefuseName(c)
  BY <1>3, FailedInv DEF RefuseName
<1>4. CASE Resolve(c)
  BY <1>1, <1>4 DEF Resolve, Goto, CallInv, Fresh, Resolved, NameValid
<1>5. CASE Walk(c)
  <2>1. CASE Missing(c)
    BY <1>5, <2>1, FailedInv DEF Walk
  <2>2. CASE ~Missing(c)
    BY <1>1, <1>5, <2>2 DEF Walk, Missing, Goto, CallInv, Resolved, NameValid
  <2>. QED
    BY <2>1, <2>2
<1>6. CASE ReadTreeToList(c)
  <2>1. CASE Cardinality(SkillFolders(tree[c])) > MaxSkills
    BY <1>6, <2>1, FailedInv DEF ReadTreeToList
  <2>2. CASE ~(Cardinality(SkillFolders(tree[c])) > MaxSkills)
    <3>1. /\ pc'[c] = "read" /\ todo'[c] = ToList(tree[c]) /\ Asked[c].op = "list"
          /\ UNCHANGED <<commit, tree, got, answer>>
      BY <1>6, <2>2 DEF ReadTreeToList, Goto
    <3>2. Plan(c)' = todo'[c] /\ got'[c] = {}
      BY <1>1, <1>6, <3>1 DEF Plan, CallInv, ReadTreeToList
    <3>3. Resolved(c)' /\ tree'[c] # Nothing
      BY <1>1, <1>6, <3>1 DEF CallInv, ReadTreeToList, Resolved
    <3>. QED
      BY <3>1, <3>2, <3>3 DEF CallInv, FetchReady, NameValid
  <2>. QED
    BY <2>1, <2>2
<1>7. CASE ReadTreeToFetch(c)
  <2>1. CASE ~Fetchable(tree[c][Asked[c].name])
    BY <1>7, <2>1, FailedInv DEF ReadTreeToFetch
  <2>2. CASE Fetchable(tree[c][Asked[c].name])
    <3>1. /\ pc'[c] = "front" /\ todo'[c] = FilesOf(Asked[c].name, tree[c][Asked[c].name])
          /\ Asked[c].op = "fetch" /\ UNCHANGED <<commit, tree, got, answer>>
      BY <1>7, <2>2 DEF ReadTreeToFetch, Goto
    <3>2. Plan(c)' = todo'[c] /\ got'[c] = {} /\ NameValid(c)'
      BY <1>1, <1>7, <3>1 DEF Plan, CallInv, ReadTreeToFetch, NameValid
    <3>3. Resolved(c)' /\ FetchReady(c)' /\ tree'[c] # Nothing
      BY <1>1, <1>7, <2>2, <3>1 DEF CallInv, ReadTreeToFetch, Resolved, FetchReady
    <3>. QED
      BY <3>1, <3>2, <3>3 DEF CallInv
  <2>. QED
    BY <2>1, <2>2
<1>8. CASE ReadFront(c)
  <2>1. PICK f \in todo[c] :
            /\ f.file \in SkillFile(tree[c][f.name])
            /\ IF ~IsSkill(f.name, BlobOf(c, f)) THEN End(c, Failed)
               ELSE /\ front' = [front EXCEPT ![c] = BlobOf(c, f)]
                    /\ Goto(c, "read")
                    /\ UNCHANGED <<commit, tree, todo, got>>
    BY <1>8 DEF ReadFront
  <2>2. CASE ~IsSkill(f.name, BlobOf(c, f))
    BY <2>1, <2>2, FailedInv
  <2>3. CASE IsSkill(f.name, BlobOf(c, f))
    <3>1. /\ pc[c] = "front" /\ pc'[c] = "read" /\ front'[c] = f.file.blob
          /\ UNCHANGED <<commit, tree, todo, got, answer>>
      BY <1>8, <2>1, <2>3 DEF ReadFront, Goto, BlobOf
    <3>2. /\ Asked[c].op = "fetch" /\ todo[c] = Plan(c) /\ got[c] = {} /\ tree[c] # Nothing
          /\ Resolved(c) /\ NameValid(c) /\ FetchReady(c)
      BY <1>1, <3>1 DEF CallInv
    <3>3. f.name = Asked[c].name
      BY <2>1, <3>2 DEF Plan, FilesOf
    <3>4. Plan(c)' = Plan(c) /\ Resolved(c)' /\ NameValid(c)' /\ FetchReady(c)'
      BY <3>1, <3>2 DEF Plan, Resolved, NameValid, FetchReady
    <3>5. /\ IsSkill(Asked[c].name, front'[c])
          /\ \E e \in SkillFile(tree'[c][Asked[c].name]) : front'[c] = e.blob
      BY <2>1, <2>3, <3>1, <3>3 DEF BlobOf
    <3>. QED
      BY <3>1, <3>2, <3>4, <3>5 DEF CallInv
  <2>. QED
    BY <2>2, <2>3
<1>9. CASE ReadBlob(c)
  <2>1. PICK f \in todo[c] : todo' = [todo EXCEPT ![c] = @ \ {f}]
                          /\ got' = [got EXCEPT ![c] = @ \cup {Copy(c, f)}]
    BY <1>9 DEF ReadBlob
  <2>2. /\ pc[c] = "read" /\ pc' = pc
        /\ todo'[c] = todo[c] \ {f} /\ got'[c] = got[c] \cup {Copy(c, f)}
        /\ UNCHANGED <<commit, tree, front, answer>>
    BY <1>9, <2>1 DEF ReadBlob
  <2>3. /\ todo[c] \subseteq Plan(c) /\ got[c] = {Copy(c, g) : g \in Plan(c) \ todo[c]}
        /\ tree[c] # Nothing /\ Resolved(c) /\ NameValid(c) /\ FetchReady(c)
        /\ Asked[c].op = "fetch" =>
              /\ IsSkill(Asked[c].name, front[c])
              /\ \E e \in SkillFile(tree[c][Asked[c].name]) : front[c] = e.blob
    BY <1>1, <2>2 DEF CallInv
  <2>4. /\ Plan(c)' = Plan(c) /\ Resolved(c)' /\ NameValid(c)' /\ FetchReady(c)'
        /\ \A g : Copy(c, g)' = Copy(c, g)
    BY <2>2, <2>3 DEF Plan, Resolved, NameValid, FetchReady, Copy, BlobOf
  <2>5. got'[c] = {Copy(c, g) : g \in Plan(c) \ todo'[c]}
    BY <2>1, <2>2, <2>3
  <2>. QED
    BY <2>2, <2>3, <2>4, <2>5 DEF CallInv
<1>10. CASE Finish(c)
  <2>1. /\ pc[c] = "read" /\ pc'[c] = "ended" /\ answer'[c] = Result(c) /\ commit' = commit
        /\ todo[c] = {}
    BY <1>10 DEF Finish, End
  <2>2. Result(c) = SnapshotOf(c, commit[c]) /\ commit[c] \in Commits /\ NameValid(c)'
    BY <1>1, <2>1, ResultIsSnapshot DEF CallInv, Resolved, NameValid
  <2>. QED
    BY <2>1, <2>2 DEF CallInv
<1>11. CASE Fail(c)
  BY <1>11, FailedInv DEF Fail
<1>. QED
  BY <1>2, <1>3, <1>4, <1>5, <1>6, <1>7, <1>8, <1>9, <1>10, <1>11 DEF Step

\* What the step of one call leaves alone.
LEMMA StepIsLocal ==
    ASSUME NEW c \in Calls, IInv, Begin(c) \/ RefuseName(c) \/ Step(c)
    PROVE  /\ Domains'
           /\ \A d \in Calls \ {c} :
                  /\ pc'[d] = pc[d] /\ commit'[d] = commit[d] /\ tree'[d] = tree[d]
                  /\ todo'[d] = todo[d] /\ got'[d] = got[d]
                  /\ front'[d] = front[d] /\ answer'[d] = answer[d]
<1>. USE DEF IInv, Domains, Stages
<1>1. CASE Begin(c)
  BY <1>1 DEF Begin, Goto
<1>2. CASE RefuseName(c)
  BY <1>2 DEF RefuseName, End
<1>3. CASE Resolve(c)
  BY <1>3 DEF Resolve, Goto
<1>4. CASE Walk(c)
  BY <1>4 DEF Walk, Goto, End
<1>5. CASE ReadTreeToList(c)
  BY <1>5 DEF ReadTreeToList, Goto, End
<1>6. CASE ReadTreeToFetch(c)
  BY <1>6 DEF ReadTreeToFetch, Goto, End
<1>7. CASE ReadFront(c)
  BY <1>7 DEF ReadFront, Goto, End
<1>8. CASE ReadBlob(c)
  BY <1>8 DEF ReadBlob
<1>9. CASE Finish(c)
  BY <1>9 DEF Finish, End
<1>10. CASE Fail(c)
  BY <1>10 DEF Fail, End
<1>. QED
  BY <1>1, <1>2, <1>3, <1>4, <1>5, <1>6, <1>7, <1>8, <1>9, <1>10 DEF Step

\* Every step keeps the invariant.
LEMMA NextInv == IInv /\ [Next]_vars => IInv'
<1>. SUFFICES ASSUME IInv, [Next]_vars PROVE IInv'
  OBVIOUS
<1>1. CASE Push
  <2>1. Domains'
    BY <1>1 DEF Push, IInv, Domains
  <2>2. \A c \in Calls : CallInv(c)'
    BY <1>1, UntouchedCall DEF Push, IInv
  <2>. QED
    BY <2>1, <2>2 DEF IInv
<1>2. ASSUME NEW c \in Calls, Begin(c) \/ RefuseName(c) \/ Step(c) PROVE IInv'
  <2>1. Domains'
    BY <1>2, StepIsLocal
  <2>2. \A d \in Calls \ {c} : CallInv(d)'
    BY <1>2, StepIsLocal, UntouchedCall DEF IInv
  <2>. QED
    BY <1>2, <2>1, <2>2, StepInv DEF IInv
<1>3. CASE UNCHANGED vars
  <2>1. Domains'
    BY <1>3 DEF vars, IInv, Domains
  <2>2. \A c \in Calls : CallInv(c)'
    BY <1>3, UntouchedCall DEF vars, IInv
  <2>. QED
    BY <2>1, <2>2 DEF IInv
<1>. QED
  BY <1>1, <1>2, <1>3 DEF Next

\* The strengthened invariant holds throughout.
THEOREM CallsHoldTheirPlan == Spec => []IInv
<1>. QED
  BY InitInv, NextInv, PTL DEF Spec

-----------------------------------------------------------------------------
\* What a call has to read, and has read, stays within the limits.

Most(c) == IF Asked[c].op = "list" THEN MaxSkills ELSE MaxFiles

\* The part of the type invariant that the steps of a call can disturb.
Within(c) ==
    /\ todo[c] \subseteq [name : ValidNames, file : Entry]
    /\ IsFiniteSet(todo[c]) /\ IsFiniteSet(got[c])
    /\ Cardinality(todo[c]) + Cardinality(got[c]) <= Most(c)

\* A listing reads at most one file of each folder that counts as a skill.
LEMMA ListPlan ==
    ASSUME NEW k \in Commits, Content[k] # Nothing
    PROVE  /\ ToList(Content[k]) \subseteq [name : ValidNames, file : Entry]
           /\ IsFiniteSet(ToList(Content[k]))
           /\ Cardinality(ToList(Content[k])) <= Cardinality(SkillFolders(Content[k]))
           /\ Cardinality(SkillFolders(Content[k])) \in Nat
<1>. DEFINE t == Content[k]
            plan == ToList(t)
            folders == SkillFolders(t)
            named == [f \in plan |-> f.name]
<1>1. ASSUME NEW f \in plan
      PROVE  /\ f.name \in folders /\ f.file \in SkillFile(t[f.name])
             /\ f = [name |-> f.name, file |-> f.file]
  <2>1. PICK n \in folders : f \in FilesOf(n, SkillFile(t[n]))
    BY DEF ToList
  <2>. QED
    BY <2>1 DEF FilesOf
<1>2. folders \subseteq ValidNames /\ ValidNames \subseteq Names /\ IsFiniteSet(Names)
  BY ContentAssumption DEF SkillFolders
<1>3. IsFiniteSet(folders) /\ Cardinality(folders) \in Nat
  BY <1>2, FS_Subset, FS_CardinalityType
<1>4. \A n \in Names : SkillFile(t[n]) \subseteq Entry
  BY ContentAssumption DEF SkillFile
<1>5. plan \subseteq [name : ValidNames, file : Entry]
  BY <1>1, <1>2, <1>4
<1>. HIDE DEF plan, folders
<1>6. \A f, g \in plan : f.name = g.name => f = g
  <2>. SUFFICES ASSUME NEW f \in plan, NEW g \in plan, f.name = g.name PROVE f = g
    OBVIOUS
  <2>1. /\ f.name \in Names /\ f.file \in SkillFile(Content[k][f.name])
        /\ g.file \in SkillFile(Content[k][f.name])
    BY <1>1, <1>2
  <2>2. f.file = (CHOOSE d \in SkillFile(Content[k][f.name]) : TRUE)
    BY <2>1, OneSkillFile
  <2>3. g.file = (CHOOSE d \in SkillFile(Content[k][f.name]) : TRUE)
    BY <2>1, OneSkillFile
  <2>. QED
    BY <1>1, <2>2, <2>3
<1>7. named \in Injection(plan, folders)
  BY <1>1, <1>6, Fun_IsInj
<1>8. IsFiniteSet(plan) /\ Cardinality(plan) <= Cardinality(folders)
  BY <1>3, <1>7, FS_Injection
<1>. QED
  BY <1>3, <1>5, <1>8 DEF plan, folders

\* A fetch reads the files of its folder.
LEMMA FetchPlan ==
    ASSUME NEW k \in Commits, Content[k] # Nothing, NEW n \in ValidNames
    PROVE  LET files == FilesOf(n, Content[k][n])
           IN /\ files \subseteq [name : ValidNames, file : Entry]
              /\ IsFiniteSet(files)
              /\ Cardinality(files) <= Cardinality(Content[k][n])
              /\ Cardinality(Content[k][n]) \in Nat
<1>. DEFINE folder == Content[k][n]
            files == FilesOf(n, folder)
            bare == [f \in files |-> f.file]
<1>1. folder \subseteq Entry /\ IsFiniteSet(folder)
  BY ContentAssumption
<1>. HIDE DEF folder
<1>2. Cardinality(folder) \in Nat
  BY <1>1, FS_CardinalityType
<1>3. \A f \in files : f.file \in folder /\ f = [name |-> n, file |-> f.file]
  BY DEF FilesOf
<1>4. files \subseteq [name : ValidNames, file : Entry]
  BY <1>1, <1>3
<1>. HIDE DEF files
<1>5. bare \in Injection(files, folder)
  BY <1>3, Fun_IsInj
<1>6. IsFiniteSet(files) /\ Cardinality(files) <= Cardinality(folder)
  BY <1>1, <1>5, FS_Injection
<1>. QED
  BY <1>2, <1>4, <1>6 DEF files, folder

\* A step of one call keeps its reads within the limits.
LEMMA StepWithin ==
    ASSUME NEW c \in Calls, IInv, Within(c), Begin(c) \/ RefuseName(c) \/ Step(c)
    PROVE  Within(c)'
<1>. USE DEF IInv, Domains
<1>1. CallInv(c) /\ Most(c)' = Most(c) /\ Most(c) \in Nat
  BY BoundsAssumption DEF Most
<1>2. ASSUME todo'[c] = todo[c], got'[c] = got[c] PROVE Within(c)'
  BY <1>1, <1>2 DEF Within
<1>3. ASSUME got[c] = {}, got'[c] = {}, IsFiniteSet(todo'[c]),
             todo'[c] \subseteq [name : ValidNames, file : Entry],
             Cardinality(todo'[c]) <= Most(c)
      PROVE  Within(c)'
  <2>1. IsFiniteSet(got'[c]) /\ Cardinality(got'[c]) = 0 /\ Cardinality(todo'[c]) \in Nat
    BY <1>3, FS_EmptySet, FS_CardinalityType
  <2>. QED
    BY <1>1, <1>3, <2>1 DEF Within
<1>4. ASSUME ReadTreeToList(c), todo' # todo PROVE Within(c)'
  <2>1. /\ Cardinality(SkillFolders(tree[c])) <= MaxSkills \/ Cardinality(SkillFolders(tree[c])) \notin Nat
        /\ todo'[c] = ToList(tree[c]) /\ got' = got
        /\ Asked[c].op = "list" /\ pc[c] = "tree"
    BY <1>4, BoundsAssumption DEF ReadTreeToList, End
  <2>2. /\ commit[c] \in Commits /\ tree[c] = Content[commit[c]] /\ tree[c] # Nothing /\ got[c] = {}
    BY <1>1, <2>1 DEF CallInv, Resolved
  <2>3. /\ ToList(tree[c]) \subseteq [name : ValidNames, file : Entry]
        /\ IsFiniteSet(ToList(tree[c]))
        /\ Cardinality(ToList(tree[c])) <= Cardinality(SkillFolders(tree[c]))
        /\ Cardinality(SkillFolders(tree[c])) \in Nat
    BY <2>2, ListPlan
  <2>4. Cardinality(ToList(tree[c])) <= Most(c)
    BY <2>1, <2>3, BoundsAssumption, FS_CardinalityType DEF Most
  <2>. QED
    BY <1>3, <2>1, <2>2, <2>3, <2>4
<1>5. ASSUME ReadTreeToFetch(c), todo' # todo PROVE Within(c)'
  <2>. DEFINE folder == tree[c][Asked[c].name]
              files == FilesOf(Asked[c].name, folder)
  <2>1. /\ Fetchable(folder) /\ todo'[c] = files /\ got' = got
        /\ Asked[c].op = "fetch" /\ pc[c] = "tree"
    BY <1>5 DEF ReadTreeToFetch, End
  <2>2. /\ commit[c] \in Commits /\ tree[c] = Content[commit[c]] /\ tree[c] # Nothing /\ got[c] = {}
        /\ Asked[c].name \in ValidNames
    BY <1>1, <2>1 DEF CallInv, Resolved, NameValid
  <2>3. /\ files \subseteq [name : ValidNames, file : Entry] /\ IsFiniteSet(files)
        /\ Cardinality(files) <= Cardinality(folder) /\ Cardinality(folder) \in Nat
    BY <2>2, FetchPlan
  <2>4. Cardinality(files) <= Most(c)
    BY <2>1, <2>3, BoundsAssumption, FS_CardinalityType DEF Most, Fetchable
  <2>. QED
    BY <1>3, <2>1, <2>2, <2>3, <2>4
<1>6. ASSUME ReadBlob(c) PROVE Within(c)'
  <2>1. PICK f \in todo[c] : todo'[c] = todo[c] \ {f} /\ got'[c] = got[c] \cup {Copy(c, f)}
    BY <1>6 DEF ReadBlob
  <2>2. /\ IsFiniteSet(todo'[c]) /\ Cardinality(todo'[c]) = Cardinality(todo[c]) - 1
        /\ Cardinality(todo[c]) \in Nat
    BY <2>1, FS_RemoveElement, FS_CardinalityType DEF Within
  <2>3. /\ IsFiniteSet(got'[c]) /\ Cardinality(got'[c]) \in Nat /\ Cardinality(got[c]) \in Nat
        /\ Cardinality(got'[c]) <= Cardinality(got[c]) + 1
    <3>1. IsFiniteSet(got[c]) /\ Cardinality(got[c]) \in Nat
      BY FS_CardinalityType DEF Within
    <3>2. /\ IsFiniteSet(got[c] \cup {Copy(c, f)})
          /\ Cardinality(got[c] \cup {Copy(c, f)})
                 = IF Copy(c, f) \in got[c] THEN Cardinality(got[c]) ELSE Cardinality(got[c]) + 1
      BY <3>1, FS_AddElement
    <3>. QED
      BY <2>1, <3>1, <3>2
  <2>4. todo'[c] \subseteq [name : ValidNames, file : Entry]
    BY <2>1 DEF Within
  <2>5. Cardinality(todo'[c]) + Cardinality(got'[c]) <= Most(c)
    BY <1>1, <2>2, <2>3 DEF Within
  <2>. QED
    BY <1>1, <2>2, <2>3, <2>4, <2>5 DEF Within
<1>. QED
  BY <1>2, <1>4, <1>5, <1>6
  DEF Step, Begin, RefuseName, Resolve, Walk, ReadTreeToList, ReadTreeToFetch, ReadFront, Finish,
      Fail, Goto, End

AllWithin == \A c \in Calls : Within(c)

LEMMA AlwaysWithin == Spec => []AllWithin
<1>1. Init => AllWithin
  BY FS_EmptySet, BoundsAssumption DEF Init, AllWithin, Within, Most
<1>2. IInv /\ AllWithin /\ [Next]_vars => AllWithin'
  <2>. SUFFICES ASSUME IInv, AllWithin, [Next]_vars, NEW d \in Calls PROVE Within(d)'
    BY DEF AllWithin
  <2>1. Within(d)
    BY DEF AllWithin
  <2>2. ASSUME todo'[d] = todo[d], got'[d] = got[d] PROVE Within(d)'
    BY <2>1, <2>2 DEF Within, Most
  <2>3. ASSUME NEW c \in Calls, Begin(c) \/ RefuseName(c) \/ Step(c) PROVE Within(d)'
    <3>1. CASE c = d
      BY <2>1, <2>3, <3>1, StepWithin
    <3>2. CASE c # d
      BY <2>2, <2>3, <3>2, StepIsLocal
    <3>. QED
      BY <3>1, <3>2
  <2>. QED
    BY <2>2, <2>3 DEF Next, Push, vars
<1>. QED
  BY <1>1, <1>2, CallsHoldTheirPlan, PTL DEF Spec

\* The reads of every call stay within the limits of the contract, whatever the
\* commits hold: SkillsRepoMaxSkills blobs for a listing, SkillsRepoMaxFiles for
\* a fetch, and all of folders with valid names (skills_repo_http.go 119, 215).
THEOREM ReadsAreBounded == Spec => []TypeOK
<1>1. IInv /\ AllWithin => TypeOK
  BY DEF IInv, Domains, AllWithin, Within, Most, TypeOK
<1>. QED
  BY <1>1, CallsHoldTheirPlan, AlwaysWithin, PTL

\* What a call still has to do: its stages count down, and so do its files.
LEMMA StepsLeftType ==
    ASSUME NEW c \in Calls, IInv, Within(c)
    PROVE  /\ Most(c) \in Nat /\ Cardinality(todo[c]) \in Nat
           /\ Cardinality(todo[c]) <= Most(c)
           /\ pc[c] = "resolve" => StepsLeft(c) = Most(c) + 5
           /\ pc[c] = "walk" => StepsLeft(c) = Most(c) + 4
           /\ pc[c] = "tree" => StepsLeft(c) = Most(c) + 3
           /\ pc[c] = "front" => StepsLeft(c) = Cardinality(todo[c]) + 2
           /\ pc[c] = "read" => StepsLeft(c) = Cardinality(todo[c]) + 1
           /\ pc[c] \in {"idle", "ended"} => StepsLeft(c) = 0
           /\ pc[c] \in Stages
<1>1. IsFiniteSet(todo[c]) /\ IsFiniteSet(got[c])
      /\ Cardinality(todo[c]) + Cardinality(got[c]) <= Most(c)
  BY DEF Within
<1>2. Cardinality(todo[c]) \in Nat /\ Cardinality(got[c]) \in Nat /\ Most(c) \in Nat
  BY <1>1, FS_CardinalityType, BoundsAssumption DEF Most
<1>3. Cardinality(todo[c]) <= Most(c)
  BY <1>1, <1>2
<1>4. pc[c] \in Stages
  BY DEF IInv, Domains
<1>. QED
  BY <1>2, <1>3, <1>4 DEF StepsLeft, Most

\* A step of a call takes it on.
LEMMA StepAdvances ==
    ASSUME NEW c \in Calls, IInv, IInv', Within(c), Within(c)', Step(c)
    PROVE  StepsLeft(c)' \in 0..(StepsLeft(c) - 1)
<1>. DEFINE m == Most(c)
            n == Cardinality(todo[c])
            before == StepsLeft(c)
            after == StepsLeft(c)'
<1>1. /\ m \in Nat /\ n \in Nat /\ n <= m /\ pc[c] \in Stages
      /\ pc[c] = "resolve" => before = m + 5
      /\ pc[c] = "walk" => before = m + 4
      /\ pc[c] = "tree" => before = m + 3
      /\ pc[c] = "front" => before = n + 2
      /\ pc[c] = "read" => before = n + 1
  BY StepsLeftType
<1>2. /\ Cardinality(todo'[c]) \in Nat /\ Cardinality(todo'[c]) <= m
      /\ pc'[c] = "walk" => after = m + 4
      /\ pc'[c] = "tree" => after = m + 3
      /\ pc'[c] = "front" => after = Cardinality(todo'[c]) + 2
      /\ pc'[c] = "read" => after = Cardinality(todo'[c]) + 1
      /\ pc'[c] \in {"idle", "ended"} => after = 0
  <2>1. m' = m /\ m \in Nat
    BY BoundsAssumption DEF Most
  <2>2. /\ Cardinality(todo'[c]) \in Nat /\ Cardinality(got'[c]) \in Nat
        /\ Cardinality(todo'[c]) + Cardinality(got'[c]) <= m
    BY <2>1, FS_CardinalityType DEF Within
  <2>3. Cardinality(todo'[c]) <= m
    BY <2>1, <2>2
  <2>. QED
    BY <2>1, <2>2, <2>3 DEF StepsLeft, Most
<1>. SUFFICES after \in 0..(before - 1)
  OBVIOUS
<1>. HIDE DEF m, n, before, after
<1>3. pc \in [Calls -> Stages] /\ DOMAIN todo = Calls
  BY DEF IInv, Domains
<1>4. ASSUME NEW result, End(c, result), pc[c] \notin {"idle", "ended"}
      PROVE  after \in 0..(before - 1)
  <2>1. after = 0
    BY <1>2, <1>3, <1>4 DEF End
  <2>2. before \in Nat /\ before > 0
    BY <1>1, <1>4 DEF Stages
  <2>. QED
    BY <2>1, <2>2
<1>5. CASE Resolve(c)
  BY <1>1, <1>2, <1>3, <1>5 DEF Resolve, Goto
<1>6. CASE Walk(c)
  <2>1. CASE Missing(c)
    BY <1>4, <1>6, <2>1 DEF Walk
  <2>2. CASE ~Missing(c)
    BY <1>1, <1>2, <1>3, <1>6, <2>2 DEF Walk, Goto
  <2>. QED
    BY <2>1, <2>2
<1>7. CASE ReadTreeToList(c)
  <2>1. pc[c] = "tree" /\ (End(c, Failed) \/ pc'[c] = "read")
    BY <1>3, <1>7 DEF ReadTreeToList, Goto
  <2>. QED
    BY <1>1, <1>2, <1>4, <2>1
<1>8. CASE ReadTreeToFetch(c)
  <2>1. pc[c] = "tree" /\ (End(c, Failed) \/ pc'[c] = "front")
    BY <1>3, <1>8 DEF ReadTreeToFetch, Goto
  <2>. QED
    BY <1>1, <1>2, <1>4, <2>1
<1>9. CASE ReadFront(c)
  <2>1. pc[c] = "front" /\ (End(c, Failed) \/ (pc'[c] = "read" /\ todo' = todo))
    BY <1>3, <1>9 DEF ReadFront, Goto
  <2>2. CASE pc'[c] = "read" /\ todo' = todo
    BY <1>1, <1>2, <2>1, <2>2 DEF n
  <2>. QED
    BY <1>4, <2>1, <2>2
<1>10. CASE ReadBlob(c)
  <2>1. PICK f \in todo[c] : todo'[c] = todo[c] \ {f}
    BY <1>3, <1>10 DEF ReadBlob
  <2>2. pc[c] = "read" /\ pc'[c] = "read"
    BY <1>10 DEF ReadBlob
  <2>3. Cardinality(todo'[c]) = n - 1
    BY <2>1, FS_RemoveElement DEF Within, n
  <2>. QED
    BY <1>1, <1>2, <2>2, <2>3
<1>11. CASE Finish(c)
  BY <1>4, <1>11 DEF Finish
<1>12. CASE Fail(c)
  BY <1>4, <1>12 DEF Fail
<1>. QED
  BY <1>5, <1>6, <1>7, <1>8, <1>9, <1>10, <1>11, <1>12 DEF Step

\* No call does anything twice, or more than its limit, however often others
\* push and whatever the commits hold: each of its steps brings it nearer to
\* its end, by a count that starts at five more than the files it may read.
THEOREM CallsGoOn == Spec => CallsAdvance
<1>. DEFINE On(c) ==
         pc[c] \notin {"idle", "ended"} /\ <<pc[c], todo[c]>>' # <<pc[c], todo[c]>>
             => StepsLeft(c)' \in 0..(StepsLeft(c) - 1)
<1>1. IInv /\ IInv' /\ AllWithin /\ AllWithin' /\ [Next]_vars => [\A c \in Calls : On(c)]_vars
  <2>. SUFFICES ASSUME IInv, IInv', AllWithin, AllWithin', Next, NEW c \in Calls,
                       pc[c] \notin {"idle", "ended"}, <<pc[c], todo[c]>>' # <<pc[c], todo[c]>>
                PROVE  StepsLeft(c)' \in 0..(StepsLeft(c) - 1)
    OBVIOUS
  <2>1. Within(c) /\ Within(c)'
    BY DEF AllWithin
  <2>2. ASSUME NEW d \in Calls, Begin(d) \/ RefuseName(d) \/ Step(d) PROVE c = d /\ Step(d)
    BY <2>2, StepIsLocal DEF Begin, RefuseName
  <2>3. ~Push
    BY DEF Push
  <2>. QED
    BY <2>1, <2>2, <2>3, StepAdvances DEF Next
<1>. QED
  BY <1>1, CallsHoldTheirPlan, AlwaysWithin, PTL DEF Spec, CallsAdvance

\* What skills.fetch returns is in the listing of the same commit, with the
\* same SKILL.md (skills_repo_http.go 128-138, 158-182).
THEOREM FetchedListed == Spec => []FetchedIsListed
<1>1. IInv => FetchedIsListed
  <2>. SUFFICES ASSUME IInv, NEW f \in Answered("fetch"), NEW l \in Answered("list"),
                       answer[f].commit = answer[l].commit
                PROVE  answer[f].skill \in answer[l].skills
    BY DEF FetchedIsListed
  <2>1. ASSUME NEW c \in Calls, answer[c] \notin {Nothing, Failed}
        PROVE  /\ commit[c] \in Commits /\ NameValid(c)
               /\ answer[c] = SnapshotOf(c, commit[c])
    BY <2>1 DEF IInv, CallInv, Domains, Stages, Fresh, Resolved
  <2>. DEFINE k == commit[f]
              t == Content[k]
              name == Asked[f].name
              blob == (CHOOSE e \in SkillFile(t[name]) : TRUE).blob
  <2>2. /\ f \in Calls /\ Asked[f].op = "fetch" /\ k \in Commits
        /\ name \in ValidNames /\ answer[f] = SnapshotOf(f, k) /\ answer[f] # Failed
    BY <2>1 DEF Answered, NameValid
  <2>3. /\ l \in Calls /\ Asked[l].op = "list" /\ commit[l] \in Commits
        /\ answer[l] = SnapshotOf(l, commit[l]) /\ answer[l] # Failed
    BY <2>1 DEF Answered
  <2>4. /\ t # Nothing /\ Fetchable(t[name]) /\ IsSkill(name, blob)
        /\ answer[f].commit = k /\ answer[f].skill = Skill(name, blob)
    <3>. DEFINE whole == [commit |-> k, skill |-> Skill(name, blob),
                          archive |-> {[path |-> e.path, exec |-> e.kind = "executable",
                                        blob |-> e.blob] : e \in t[name]}]
    <3>1. SnapshotOf(f, k) = IF t = Nothing THEN Failed
                             ELSE IF ~Fetchable(t[name]) \/ ~IsSkill(name, blob) THEN Failed
                             ELSE whole
      BY <2>2 DEF SnapshotOf
    <3>2. whole.commit = k /\ whole.skill = Skill(name, blob)
      OBVIOUS
    <3>. HIDE DEF whole
    <3>3. t # Nothing /\ Fetchable(t[name]) /\ IsSkill(name, blob) /\ answer[f] = whole
      BY <2>2, <3>1
    <3>. QED
      BY <3>2, <3>3
  <2>5. commit[l] = k
    BY <2>3, <2>4 DEF SnapshotOf
  <2>6. answer[l].skills =
            {s \in [name : SkillFolders(t), blob : Blobs] :
                IsSkill(s.name, s.blob) /\ \E e \in SkillFile(t[s.name]) : e.blob = s.blob}
    BY <2>3, <2>4, <2>5 DEF SnapshotOf
  <2>7. PICK e \in SkillFile(t[name]) : TRUE
    BY <2>4 DEF Fetchable
  <2>8. e.blob = blob /\ blob \in Blobs
    BY <2>2, <2>4, <2>7, OneSkillFile, ContentAssumption
  <2>9. name \in SkillFolders(t)
    BY <2>2, <2>7 DEF SkillFolders, SkillFile
  <2>10. \E d \in SkillFile(t[name]) : d.blob = blob
    BY <2>7, <2>8
  <2>. QED
    BY <2>4, <2>6, <2>8, <2>9, <2>10 DEF Skill
<1>. QED
  BY <1>1, CallsHoldTheirPlan, PTL

\* Every step of a call is one of the promise, or none of it.
LEMMA StepIsRead ==
    ASSUME NEW c \in Calls, IInv, Begin(c) \/ RefuseName(c) \/ Step(c)
    PROVE  Reads!Fix(c) \/ Reads!Answer(c) \/ UNCHANGED <<ref, commit, answer>>
<1>. CallInv(c)
  BY DEF IInv
<1>0. ASSUME End(c, Failed), answer[c] = Nothing PROVE Reads!Answer(c)
  BY <1>0 DEF End, Reads!Answer
<1>1. CASE Begin(c)
  BY <1>1 DEF Begin, Goto
<1>2. CASE RefuseName(c)
  BY <1>0, <1>2 DEF RefuseName, CallInv, Fresh
<1>3. CASE Resolve(c)
  BY <1>3 DEF Resolve, Goto, Reads!Fix, CallInv, Fresh
<1>4. CASE Walk(c)
  BY <1>0, <1>4 DEF Walk, Goto, CallInv, Resolved
<1>5. CASE ReadTreeToList(c)
  BY <1>0, <1>5 DEF ReadTreeToList, Goto, CallInv, Resolved
<1>6. CASE ReadTreeToFetch(c)
  BY <1>0, <1>6 DEF ReadTreeToFetch, Goto, CallInv, Resolved
<1>7. CASE ReadFront(c)
  BY <1>0, <1>7 DEF ReadFront, Goto, CallInv, Resolved
<1>8. CASE ReadBlob(c)
  BY <1>8 DEF ReadBlob
<1>9. CASE Finish(c)
  <2>1. /\ commit[c] \in Commits /\ commit[c] # Nothing /\ answer[c] = Nothing
        /\ Result(c) = SnapshotOf(c, commit[c])
    BY <1>9, ResultIsSnapshot, ContentAssumption DEF Finish, CallInv, Resolved
  <2>2. [x \in Calls \X Commits |-> SnapshotOf(x[1], x[2])][<<c, commit[c]>>]
            = SnapshotOf(c, commit[c])
    BY <2>1
  <2>. QED
    BY <1>9, <2>1, <2>2 DEF Finish, End, Reads!Answer
<1>10. CASE Fail(c)
  BY <1>0, <1>10 DEF Fail, CallInv, Fresh, Resolved, IInv, Domains, Stages
<1>. QED
  BY <1>1, <1>2, <1>3, <1>4, <1>5, <1>6, <1>7, <1>8, <1>9, <1>10 DEF Step

\* Every read in one call comes from the same commit (skills_repo_http.go
\* 34): list and fetch implement the promise of SnapshotReads.
THEOREM Refinement == Spec => ReadsOneCommit
<1>1. Init => Reads!Init
  BY DEF Init, Reads!Init
<1>2. IInv /\ [Next]_vars => [Reads!Next]_(Reads!vars)
  <2>. SUFFICES ASSUME IInv, [Next]_vars PROVE [Reads!Next]_(Reads!vars)
    OBVIOUS
  <2>1. CASE Push
    BY <2>1 DEF Push, IInv, Domains, Reads!Next, Reads!Move
  <2>2. ASSUME NEW c \in Calls, Begin(c) \/ RefuseName(c) \/ Step(c)
        PROVE  [Reads!Next]_(Reads!vars)
    BY <2>2, StepIsRead DEF Reads!Next, Reads!vars
  <2>3. CASE UNCHANGED vars
    BY <2>3 DEF vars, Reads!vars
  <2>. QED
    BY <2>1, <2>2, <2>3 DEF Next
<1>. QED
  BY <1>1, <1>2, CallsHoldTheirPlan, PTL DEF Spec, ReadsOneCommit, Reads!Spec
=============================================================================
