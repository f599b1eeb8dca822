---------------------------- MODULE MCSkillsRepo ----------------------------
(* Instance of SkillsRepo for TLC: a listing and two fetches, while the ref *)
(* moves between commits in which the skill "a" is good, good but changed,  *)
(* named otherwise, unsafe, over a bound, or not there at all.              *)
EXTENDS SkillsRepo

File(path, kind, blob, size) == [path |-> path, kind |-> kind, blob |-> blob, size |-> size]
Md(blob, size) == File("SKILL.md", "file", blob, size)
Run(blob) == File("run", "executable", blob, 1)

\* The folders of "a", of "b" and of "no.skill".
Folders(a, b, other) == [n \in Names |-> CASE n = "a" -> a [] n = "b" -> b [] OTHER -> other]

MCContent ==
    [good |-> Folders({Md("mdA", 1), Run("bin1")}, {Md("mdB", 1)}, {Md("mdA", 1)}),
     changed |-> Folders({Md("mdA2", 1), Run("bin2")}, {Md("mdB", 3)}, {}),
     misnamed |-> Folders({Md("mdB", 1), Run("bin1")}, {}, {}),
     linked |-> Folders({Md("mdA", 1), File("run", "symlink", "bin1", 1)}, {}, {Run("bin1")}),
     large |-> Folders({Md("mdA", 1), Run("bin1"), File("doc", "file", "bin2", 1)}, {}, {}),
     bare |-> Nothing]
MCCommits == DOMAIN MCContent

MCFront == [mdA |-> "a", mdA2 |-> "a", mdB |-> "b", bin1 |-> Nothing, bin2 |-> Nothing]
MCBlobs == DOMAIN MCFront

MCCalls == {"l", "f", "g"}
MCAsked == [l |-> [op |-> "list"], f |-> [op |-> "fetch", name |-> "a"],
            g |-> [op |-> "fetch", name |-> "no.skill"]]
=============================================================================
