------------------------------- MODULE Entities -------------------------------
(***************************************************************************)
(* What the service does to the entities the LLM extracts from a message:  *)
(* chains/normalizer.py, chains/title_clean.py, chains/extract_guard.py,   *)
(* agents/preview.py and the bodies agents/write_executor.py makes.        *)
(*                                                                         *)
(* Entities are a function from the keys the LLM filled to their values.   *)
(* A title is the set of the parts it is made of; a title with no part is  *)
(* the empty string, which like null is Null.                              *)
(***************************************************************************)
CONSTANT Null

Get(e, k) == IF k \in DOMAIN e THEN e[k] ELSE Null
\* e.get(k) or e.get(l)
Either(e, k, l) == IF Get(e, k) # Null THEN Get(e, k) ELSE Get(e, l)
Default(v, d) == IF v = Null THEN d ELSE v
Without(e, k) == [l \in DOMAIN e \ {k} |-> e[l]]
With(e, k, v) == [l \in DOMAIN e \cup {k} |-> IF l = k THEN v ELSE e[l]]
WithSet(e, k, v) == IF v = Null THEN e ELSE With(e, k, v)
\* {**g, **f}
Over(f, g) == [l \in DOMAIN f \cup DOMAIN g |-> IF l \in DOMAIN f THEN f[l] ELSE g[l]]

-----------------------------------------------------------------------------
(* Titles, by the tokens that are treated alike.  In the user's words:     *)
(* verb, "create a"; topic, what the issue is about; meta, a prepositional *)
(* phrase at the end; quoted, what the message has in quotes.  novel:      *)
(* tokens with no word of the user's; mixed: tokens with an invented word  *)
(* and another, "auth-service" of a message that has "auth" only; filler:  *)
(* a few characters of no content word, which are never called invented    *)
(* (stopwords, single characters, other scripts).  All of these but verb   *)
(* and filler are eight characters or more.                                *)

TitleParts == {"verb", "topic", "meta", "filler", "novel", "mixed", "quoted"}
Titles == (SUBSET TitleParts) \ {{}}

\* Mutation: an emptied title is not recognised as empty.
TextRaw(parts) == parts

Text(parts) == IF parts = {} THEN Null ELSE parts

CleanTitle(t) ==
  IF t = Null THEN Null
  ELSE LET named == t \ {"verb"}
           topic == named \ {"meta"}
       IN  Text(IF topic \subseteq {"filler"} THEN named ELSE topic)

IsGrounded(t) == t = Null \/ t \cap {"novel", "mixed"} = {}

\* Mutation: a token is dropped for any invented word, not for all of them.
StripNovelAny(t) == Text(t \ {"novel", "mixed"})

StripNovel(t) == Text(t \ {"novel"})

EffectiveTitle(e) == CleanTitle(Either(e, "title", "name"))

\* Mutation: the grounded title is kept under the other key.
GroundedIssueMisplaced(e) ==
  LET raw == Either(e, "title", "name")
  IN  IF IsGrounded(raw) THEN e ELSE With(e, "name", StripNovel(raw))

GroundedIssue(e) ==
  LET raw == Either(e, "title", "name")
  IN  IF IsGrounded(raw) THEN e
      ELSE With(Without(e, "name"), "title", StripNovel(raw))

\* The name of a sprint: the user's quoted words before the LLM's.
GroundedSprint(e, quoted) ==
  LET raw == Either(e, "name", "title")
      grounded == IF quoted THEN {"quoted"} ELSE StripNovel(raw)
  IN  IF IsGrounded(raw) \/ grounded = Null THEN e
      ELSE With(Without(e, "title"), "name", grounded)

-----------------------------------------------------------------------------
(* Conventions.  A cue is a word of the message the normaliser looks for,  *)
(* named for what it means.                                                *)

Cues == {"bug", "critical", "high"}
Priorities == {"low", "medium", "high", "critical"}
Aliases == [p0 |-> "critical", urgent |-> "critical", p1 |-> "high",
            p2 |-> "medium", normal |-> "medium", p3 |-> "low", minor |-> "low"]

Canonical(p) == IF p \in DOMAIN Aliases THEN Aliases[p] ELSE p

NormalizedType(e, cues) ==
  IF Get(e, "type") = Null /\ "bug" \in cues THEN "bug" ELSE Get(e, "type")

ConventionalPriority(type, cues) ==
  CASE "critical" \in cues -> "critical"
    [] "critical" \notin cues /\ "high" \in cues -> "high"
    [] cues \cap {"critical", "high"} = {} /\ type = "bug" -> "high"
    [] OTHER -> Null

\* Mutation: the conventions come before what the user said.
NormalizedPriorityEager(e, cues) ==
  LET convention == ConventionalPriority(NormalizedType(e, cues), cues)
  IN  Default(convention, Canonical(Get(e, "priority")))

NormalizedPriority(e, cues) ==
  IF Get(e, "priority") # Null THEN Canonical(e["priority"])
  ELSE ConventionalPriority(NormalizedType(e, cues), cues)

Normalized(e, cues) ==
  WithSet(WithSet(e, "type", NormalizedType(e, cues)),
          "priority", NormalizedPriority(e, cues))

CanonicalPriority(e) ==
  IF Get(e, "priority") = Null THEN e ELSE With(e, "priority", Canonical(e["priority"]))

\* What the supervisor does to the entities of a write before it validates.
Prepared(intent, e, cues, quoted) ==
  CASE intent = "create_issue" -> GroundedIssue(Normalized(e, cues))
    [] intent = "create_sprint" -> GroundedSprint(e, quoted)
    [] intent = "update_issue" -> CanonicalPriority(e)

-----------------------------------------------------------------------------
(* The preview: the pairs of a label and a value it names.                 *)

Mentioned(label, v) == IF v = Null THEN {} ELSE {<<label, v>>}

IssuePreview(e) ==
  {<<"title", EffectiveTitle(e)>>,
   <<"type", Default(Get(e, "type"), "task")>>,
   <<"priority", Default(Get(e, "priority"), "medium")>>}
  \cup Mentioned("assignee", Either(e, "assignee", "assignee_id"))
  \cup Mentioned("sprint", Either(e, "sprint", "sprint_id"))

\* The label an update's preview gives a key; a null value is named too.
LabelOf == [status |-> "status", priority |-> "priority", title |-> "title",
            assignee |-> "assignee", assignee_id |-> "assignee",
            sprint |-> "sprint", sprint_id |-> "sprint"]

UpdatePreview(e) ==
  {<<"issue", Either(e, "issue", "number")>>}
  \cup {<<LabelOf[k], e[k]>> : k \in DOMAIN LabelOf \cap DOMAIN e}

SprintPreview(e) == {<<"name", Either(e, "name", "title")>>}

Preview(intent, e) ==
  CASE intent = "create_issue" -> IssuePreview(e)
    [] intent = "update_issue" -> UpdatePreview(e)
    [] intent = "create_sprint" -> SprintPreview(e)

-----------------------------------------------------------------------------
(* What a confirmed write sends: a function from the fields of the body,   *)
(* and the issue an update addresses, to their values.                     *)

\* The entity an issue's field is posted from.
KeyOf == [title |-> "title", assignee |-> "assignee_id", sprint |-> "sprint_id",
          priority |-> "priority", status |-> "status_id"]

Given(e, fields) == [f \in {g \in fields : Get(e, KeyOf[g]) # Null} |-> e[KeyOf[f]]]

\* Mutation: the executor applies the bug convention again.
IssueBodyRederived(e, status) ==
  Over([type |-> Default(Get(e, "type"), "task"),
        priority |-> IF Get(e, "type") = "bug" THEN "high"
                     ELSE Default(Get(e, "priority"), "medium"),
        status |-> Default(Get(e, "status_id"), status)],
       Given(e, {"title", "assignee", "sprint"}))

IssueBody(e, status) ==
  Over([type |-> Default(Get(e, "type"), "task"),
        priority |-> Default(Get(e, "priority"), "medium"),
        status |-> Default(Get(e, "status_id"), status)],
       Given(e, {"title", "assignee", "sprint"}))

UpdateBody(e) == Given(e, DOMAIN KeyOf)

SprintBody(e) == WithSet([name |-> Either(e, "name", "title")], "goal", Get(e, "goal"))
=============================================================================
