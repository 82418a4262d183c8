----------------------------- MODULE MCWriteFlow -----------------------------
(***************************************************************************)
(* An instance of WriteFlow: two members and two sprints, of each pair one *)
(* with a name that occurs in the other's; messages with every key present *)
(* and absent, in the combinations the code treats differently.            *)
(***************************************************************************)
EXTENDS WriteFlow

CONSTANTS ann, anna, bob, one, ten, u1, u2, s1, s10

MCNames == {ann, anna, bob, one, ten}
MCIds == {u1, u2, s1, s10}
MCWithin == {<<n, n>> : n \in MCNames} \cup {<<ann, anna>>, <<one, ten>>}
MCMembers == <<[id |-> u1, name |-> ann], [id |-> u2, name |-> anna]>>
MCSprints == <<[id |-> s10, name |-> ten], [id |-> s1, name |-> one]>>
MCIssues == {1}

No == <<>>
Titled(t) == [title |-> t]
Called(t) == [name |-> t]
Assigned(v) == [assignee |-> v]
Number1(f) == [issue |-> [num |-> 1, form |-> f]]

\* Entities put together from one choice of each set.
Extractions(a, b, c, d) == {w @@ x @@ y @@ z : w \in a, x \in b, y \in c, z \in d}

Message(i, e, c) ==
  [intent |-> i, entities |-> e, cues |-> c, quoted |-> FALSE, sure |-> TRUE,
   project |-> TRUE]

IssueTitles ==
  {No, Titled({"verb", "topic", "meta"}), Titled({"topic", "novel"}),
   Titled({"novel"}), Titled({"mixed", "novel"}), Titled({"filler", "meta", "novel"}),
   Called({"topic"}), Titled(Null) @@ Called({"topic", "mixed", "novel"})}
Assignees ==
  {No, Assigned(ann), Assigned(bob), Assigned(anna) @@ [assignee_id |-> u1],
   [assignee_id |-> ann], [assignee_id |-> u2]}
SprintsNamed == {No, [sprint |-> one], [sprint_id |-> s1]}

CreateIssues ==
  {Message("create_issue", e, c) :
     e \in Extractions(IssueTitles, Assignees, {No, [sprint |-> one]},
                       {No, [priority |-> "p3"], [type |-> "bug"]}),
     c \in {{}, {"bug"}, {"critical", "bug"}}}

UpdateIssues ==
  {Message("update_issue", e, {"high"}) :
     e \in Extractions({No, Number1("int"), Number1("hash"), Number1("words"),
                        [number |-> [num |-> 2, form |-> "int"]]},
                       {No, Assigned(ann), [status |-> "done"]}, SprintsNamed,
                       {No, [priority |-> "p0"], Titled({"topic", "novel"})})}

CreateSprints ==
  {[Message("create_sprint", e, {}) EXCEPT !.quoted = q] :
     e \in Extractions({No, Called({"topic"}), Called({"topic", "novel"}),
                        Called({"mixed", "novel"}), Called({"novel"}),
                        Titled({"novel"})},
                       {No, [goal |-> "a goal"]}, {No}, {No}),
     q \in BOOLEAN}

\* The same, some in doubt and some outside of a project.
Doubtful ==
  {[m EXCEPT !.sure = FALSE] : m \in CreateSprints}
  \cup {[m EXCEPT !.project = FALSE] : m \in UpdateIssues}

IssueWrites == CreateIssues \cup UpdateIssues
Writes == IssueWrites \cup CreateSprints
MCMessages == Writes \cup Doubtful
=============================================================================
