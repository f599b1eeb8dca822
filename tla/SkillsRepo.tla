----------------------------- MODULE SkillsRepo -----------------------------
(***************************************************************************)
(* skills.list and skills.fetch against a GitHub repository                *)
(* (providers/skills_repo.go, providers/skills_repo_http.go).  A call      *)
(* resolves the ref to a commit, walks trees to the skills folder or the   *)
(* skill's, reads that tree whole and then one blob after the other, each  *)
(* by its object id.  Others push meanwhile, and every request may fail.   *)
(*                                                                         *)
(* An object id stands for its object: trees and blobs do not change, and  *)
(* the provider is taken to answer a read by id with the object of that    *)
(* id.  A tree is what the skills folder holds of each name.               *)
(***************************************************************************)
EXTENDS Integers, FiniteSetsExt

CONSTANTS
    Calls,          \* the invocations
    Asked,          \* what each asks for: a record of an op and a name
    Names,          \* the names in the skills folder
    ValidNames,     \* those that match skillName
    Commits,
    Content,        \* the skills folder of each commit, or Nothing
    Blobs,
    Front,          \* the name in the frontmatter of a blob, or Nothing
    Nothing, Failed,
    MaxSkills,      \* SkillsRepoMaxSkills
    MaxFiles,       \* SkillsRepoMaxFiles
    MaxFileSize,    \* SkillsRepoMaxFileBytes
    MaxSkillFile,   \* SkillsRepoMaxSkillFileBytes
    MaxSize         \* SkillsRepoMaxArchiveBytes

Kinds == {"file", "executable", "symlink", "submodule", "odd"}
Entry == [path : STRING, kind : Kinds, blob : Blobs, size : Nat]

ASSUME ContentAssumption ==
    /\ ValidNames \subseteq Names /\ IsFiniteSet(Names)
    /\ \A k \in Commits : Content[k] # Nothing =>
           /\ DOMAIN Content[k] = Names
           /\ \A n \in Names :
                  /\ Content[k][n] \subseteq Entry /\ IsFiniteSet(Content[k][n])
                  /\ \A e, d \in Content[k][n] : e.path = d.path => e = d
    /\ Nothing \notin Commits /\ Failed # Nothing
ASSUME BoundsAssumption == MaxSkills \in Nat /\ MaxFiles \in Nat
ASSUME AskedAssumption ==
    \A c \in Calls : Asked[c].op \in {"list", "fetch"} /\ (Asked[c].op = "fetch" => Asked[c].name \in Names)

VARIABLES
    ref,       \* the commit that the source's ref names
    pc,        \* where each call stands
    commit,    \* the commit it resolved, or Nothing
    tree,      \* the tree it holds the id of
    todo,      \* the files it has still to read: records of a name and an entry
    got,       \* the files it has read
    front,     \* the blob of the fetched skill's SKILL.md
    answer     \* its result, Failed, or Nothing while it runs

vars == <<ref, pc, commit, tree, todo, got, front, answer>>

Stages == {"idle", "resolve", "walk", "tree", "front", "read", "ended"}

TypeOK ==
    /\ ref \in Commits
    /\ pc \in [Calls -> Stages]
    /\ commit \in [Calls -> Commits \cup {Nothing}]
    /\ \A c \in Calls :
           /\ todo[c] \subseteq [name : ValidNames, file : Entry]
           /\ Cardinality(todo[c]) + Cardinality(got[c])
                  <= (IF Asked[c].op = "list" THEN MaxSkills ELSE MaxFiles)

-----------------------------------------------------------------------------
(* What a call makes of a tree.                                            *)

\* findSkillFile
SkillFile(folder) ==
    {e \in folder : /\ e.path = "SKILL.md" /\ e.kind \in {"file", "executable"}
                    /\ e.size <= MaxSkillFile}

FilesOf(name, folder) == [name : {name}, file : folder]

\* The folders that count as skills, and of those the files a listing reads.
SkillFolders(t) == {n \in ValidNames : \E e \in t[n] : e.path = "SKILL.md"}
ToList(t) == UNION {FilesOf(n, SkillFile(t[n])) : n \in SkillFolders(t)}

SizeOf(folder) == MapThenSumSet(LAMBDA e : e.size, folder)

\* Mutant: one file more than the bound is let through.
OneFileMore(folder) ==
    /\ \A e \in folder : e.kind \in {"file", "executable"} /\ e.size <= MaxFileSize
    /\ Cardinality(folder) <= MaxFiles + 1 /\ SizeOf(folder) <= MaxSize
    /\ SkillFile(folder) # {}
\* skillFiles, and FetchSkill's demand for a SKILL.md
Fetchable(folder) ==
    /\ \A e \in folder : e.kind \in {"file", "executable"} /\ e.size <= MaxFileSize
    /\ Cardinality(folder) <= MaxFiles /\ SizeOf(folder) <= MaxSize
    /\ SkillFile(folder) # {}

\* skillFromFrontmatter: the frontmatter must name the folder.
IsSkill(name, blob) == Front[blob] = name
Skill(name, blob) == [name |-> name, blob |-> blob]

\* Mutant: the file is looked up again under the ref.
BlobUnderRef(c, f) ==
    LET now == IF Content[ref] = Nothing THEN {}
               ELSE {e \in Content[ref][f.name] : e.path = f.file.path}
    IN IF now = {} THEN f.file.blob ELSE (CHOOSE e \in now : TRUE).blob
BlobOf(c, f) == f.file.blob

Copy(c, f) == [name |-> f.name, path |-> f.file.path,
               exec |-> f.file.kind = "executable", blob |-> BlobOf(c, f)]

Result(c) ==
    IF Asked[c].op = "list"
    THEN [commit |-> commit[c],
          skills |-> {Skill(g.name, g.blob) : g \in {h \in got[c] : IsSkill(h.name, h.blob)}}]
    ELSE [commit |-> commit[c], skill |-> Skill(Asked[c].name, front[c]),
          archive |-> {[path |-> g.path, exec |-> g.exec, blob |-> g.blob] : g \in got[c]}]

-----------------------------------------------------------------------------
Init ==
    /\ ref \in Commits
    /\ pc = [c \in Calls |-> "idle"]
    /\ commit = [c \in Calls |-> Nothing] /\ tree = [c \in Calls |-> Nothing]
    /\ todo = [c \in Calls |-> {}] /\ got = [c \in Calls |-> {}]
    /\ front = [c \in Calls |-> Nothing]
    /\ answer = [c \in Calls |-> Nothing]

Goto(c, stage) == pc' = [pc EXCEPT ![c] = stage] /\ UNCHANGED <<ref, answer>>

End(c, result) ==
    /\ pc' = [pc EXCEPT ![c] = "ended"]
    /\ answer' = [answer EXCEPT ![c] = result]
    /\ UNCHANGED <<ref, commit, tree, todo, got, front>>

\* Invoke and open: the guard, the source, the name, the credential.
Begin(c) ==
    /\ pc[c] = "idle"
    /\ Asked[c].op = "fetch" => Asked[c].name \in ValidNames
    /\ Goto(c, "resolve")
    /\ UNCHANGED <<commit, tree, todo, got, front>>

RefuseName(c) ==
    /\ pc[c] = "idle" /\ Asked[c].op = "fetch" /\ Asked[c].name \notin ValidNames
    /\ End(c, Failed)

Resolve(c) ==
    /\ pc[c] = "resolve"
    /\ commit' = [commit EXCEPT ![c] = ref]
    /\ tree' = [tree EXCEPT ![c] = Content[ref]]
    /\ Goto(c, "walk")
    /\ UNCHANGED <<todo, got, front>>

\* The folder that the call is about is not there.
Missing(c) ==
    tree[c] = Nothing \/ (Asked[c].op = "fetch" /\ tree[c][Asked[c].name] = {})

Walk(c) ==
    /\ pc[c] = "walk"
    /\ IF Missing(c) THEN End(c, Failed)
       ELSE Goto(c, "tree") /\ UNCHANGED <<commit, tree, todo, got, front>>

ReadTreeToList(c) ==
    /\ pc[c] = "tree" /\ Asked[c].op = "list"
    /\ IF Cardinality(SkillFolders(tree[c])) > MaxSkills THEN End(c, Failed)
       ELSE /\ todo' = [todo EXCEPT ![c] = ToList(tree[c])]
            /\ Goto(c, "read")
            /\ UNCHANGED <<commit, tree, got, front>>

ReadTreeToFetch(c) ==
    LET folder == tree[c][Asked[c].name]
    IN /\ pc[c] = "tree" /\ Asked[c].op = "fetch"
       /\ IF ~Fetchable(folder) THEN End(c, Failed)
          ELSE /\ todo' = [todo EXCEPT ![c] = FilesOf(Asked[c].name, folder)]
               /\ Goto(c, "front")
               /\ UNCHANGED <<commit, tree, got, front>>

\* Mutant: the name in the frontmatter is not compared.
FrontUnread(c) ==
    /\ pc[c] = "front"
    /\ \E f \in {h \in todo[c] : h.file \in SkillFile(tree[c][h.name])} :
           /\ front' = [front EXCEPT ![c] = BlobOf(c, f)]
           /\ Goto(c, "read")
           /\ UNCHANGED <<commit, tree, todo, got>>
\* SKILL.md is read for its frontmatter first, and once more for the archive.
ReadFront(c) ==
    /\ pc[c] = "front"
    /\ \E f \in {h \in todo[c] : h.file \in SkillFile(tree[c][h.name])} :
           IF ~IsSkill(f.name, BlobOf(c, f)) THEN End(c, Failed)
           ELSE /\ front' = [front EXCEPT ![c] = BlobOf(c, f)]
                /\ Goto(c, "read")
                /\ UNCHANGED <<commit, tree, todo, got>>

\* The code reads in path order, which no answer shows.
ReadBlob(c) ==
    /\ pc[c] = "read"
    /\ \E f \in todo[c] :
           /\ todo' = [todo EXCEPT ![c] = @ \ {f}]
           /\ got' = [got EXCEPT ![c] = @ \cup {Copy(c, f)}]
    /\ UNCHANGED <<ref, pc, commit, tree, front, answer>>

Finish(c) == pc[c] = "read" /\ todo[c] = {} /\ End(c, Result(c))

\* Mutant: a call that fails starts over.
StartOver(c) ==
    /\ pc[c] \notin {"idle", "ended"}
    /\ todo' = [todo EXCEPT ![c] = {}] /\ got' = [got EXCEPT ![c] = {}]
    /\ Goto(c, "resolve")
    /\ UNCHANGED <<commit, tree, front>>
\* No credential, no answer, 404 or another status, an answer cut short, too
\* large or of another size than the tree says.
Fail(c) == pc[c] \notin {"idle", "ended"} /\ End(c, Failed)

Push ==
    /\ ref' \in Commits
    /\ UNCHANGED <<pc, commit, tree, todo, got, front, answer>>

Step(c) ==
    \/ Resolve(c) \/ Walk(c) \/ ReadTreeToList(c) \/ ReadTreeToFetch(c)
    \/ ReadFront(c) \/ ReadBlob(c) \/ Finish(c) \/ Fail(c)

Next == Push \/ \E c \in Calls : Begin(c) \/ RefuseName(c) \/ Step(c)

Spec == Init /\ [][Next]_vars

\* A call that has begun goes on: one goroutine runs it straight through, and
\* each request ends with an answer or an error.
FairSpec == Spec /\ \A c \in Calls : WF_vars(Step(c))

-----------------------------------------------------------------------------
(* Properties.                                                             *)

\* What commit k holds of a call's request, read at once.
SnapshotOf(c, k) ==
    LET t == Content[k]
        name == Asked[c].name
        blob == (CHOOSE e \in SkillFile(t[name]) : TRUE).blob
    IN IF t = Nothing THEN Failed
       ELSE IF Asked[c].op = "list"
       THEN [commit |-> k,
             skills |-> {s \in [name : SkillFolders(t), blob : Blobs] :
                 IsSkill(s.name, s.blob) /\ \E e \in SkillFile(t[s.name]) : e.blob = s.blob}]
       ELSE IF ~Fetchable(t[name]) \/ ~IsSkill(name, blob) THEN Failed
       ELSE [commit |-> k, skill |-> Skill(name, blob),
             archive |-> {[path |-> e.path, exec |-> e.kind = "executable", blob |-> e.blob] :
                             e \in t[name]}]

Reads == INSTANCE SnapshotReads
            WITH view <- commit, Snapshot <- [x \in Calls \X Commits |-> SnapshotOf(x[1], x[2])]

\* "Every read in one call comes from the same commit" (skills_repo_http.go
\* 34): an answer is what one commit holds, one that the ref named while the
\* call ran, and is whole whatever was pushed and whichever request failed.
ReadsOneCommit == Reads!Spec

Answered(op) == {c \in Calls : Asked[c].op = op /\ answer[c] \notin {Nothing, Failed}}

\* A skill that skills.fetch returns is in the listing of the same commit,
\* with the same SKILL.md: what a listing leaves out, "skills.fetch refuses"
\* (skills_repo_http.go 131).
FetchedIsListed ==
    \A f \in Answered("fetch"), l \in Answered("list") :
        answer[f].commit = answer[l].commit => answer[f].skill \in answer[l].skills

\* How many steps a call still takes at most.
StepsLeft(c) ==
    LET limit == IF Asked[c].op = "list" THEN MaxSkills ELSE MaxFiles
    IN CASE pc[c] = "resolve" -> limit + 5
         [] pc[c] = "walk"    -> limit + 4
         [] pc[c] = "tree"    -> limit + 3
         [] pc[c] = "front"   -> Cardinality(todo[c]) + 2
         [] pc[c] = "read"    -> Cardinality(todo[c]) + 1
         [] OTHER             -> 0

\* A call goes on and never back, however often others push: it resolves the
\* ref once, reads each file once, and no more files than its limit, so that
\* the work of one call is bounded whatever the repository holds
\* (skills_repo_http.go 93-185).
CallsAdvance ==
    [][\A c \in Calls :
          pc[c] \notin {"idle", "ended"} /\ <<pc[c], todo[c]>>' # <<pc[c], todo[c]>>
              => StepsLeft(c)' \in 0..(StepsLeft(c) - 1)]_vars

\* A call that has begun ends, however often others push while it reads.
CallsEnd == \A c \in Calls : pc[c] = "resolve" ~> pc[c] = "ended"
=============================================================================
