--------------------------- MODULE MCFieldReview ---------------------------
(* Small documents for FieldReview: an "about" dictionary and a list of    *)
(* projects, with and without ids.                                         *)
EXTENDS FieldReview

MCKeys == {"about", "draft", "id", "needsManualReview", "projects", "title", "version"}

Fields(S, value(_)) == Dict([k \in MCKeys |-> IF k \in S THEN value(k) ELSE Missing])

Project(id, title) == Fields({"id", "title"}, LAMBDA k : IF k = "id" THEN Leaf(id) ELSE Leaf(title))

Bare == Fields({"title"}, LAMBDA k : Leaf("old"))

DraftAbouts == {Null, Bare}
CandidateAbouts == DraftAbouts \cup {Missing}

Old == Project("q", "old")
Reordered == {List(<<>>), List(<<Project("p", "old"), Old>>), List(<<Old, Project("p", "new")>>)}

DraftProjects == Reordered \cup {List(<<Old>>), List(<<Project("p", "old"), Project("p", "new")>>)}
CandidateProjects == Reordered \cup {List(<<Project("p", "new")>>), List(<<Bare>>)}

Page(version, about, projects, doubtful) ==
    Fields({"version", "draft", "needsManualReview", "about", "projects"},
           LAMBDA k : CASE k = "version" -> Leaf(version)
                        [] k = "draft" -> Leaf("true")
                        [] k = "needsManualReview" -> doubtful
                        [] k = "about" -> about
                        [] k = "projects" -> projects)

MCDrafts == {Page("v1", a, p, Leaf("false")) : a \in DraftAbouts, p \in DraftProjects}
MCCandidates ==
    {Page("v2", a, p, Leaf("true")) : a \in CandidateAbouts, p \in CandidateProjects}
    \cup {Page("v2", Bare, List(<<Project("p", "new")>>), Missing),
          Put(Page("v2", Null, List(<<Old>>), Leaf("true")), "version", Missing)}

\* A text, or an item, which may have the id of another one.
MCEntered == {Leaf("edited"), Project("p", "edited"), Project("q", "edited")}
=============================================================================
