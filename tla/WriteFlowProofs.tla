--------------------------- MODULE WriteFlowProofs ---------------------------
(* Theorems about WriteFlow, for every project, every message and whatever *)
(* the LLM extracts from it.                                               *)
EXTENDS WriteFlow, TLAPS

-----------------------------------------------------------------------------
(* Entities. *)

(* The keys of e after e[k] = v.                                           *)
LEMMA WithDomain == \A e, k, v : DOMAIN With(e, k, v) = DOMAIN e \cup {k}
BY DEF With

(* What e holds after e[k] = v.                                            *)
LEMMA WithGet ==
  \A e, k, v : /\ Get(With(e, k, v), k) = v
               /\ \A l : l # k => Get(With(e, k, v), l) = Get(e, l)
BY DEF With, Get

(* The keys of e after e.pop(k, None).                                     *)
LEMMA WithoutDomain == \A e, k : DOMAIN Without(e, k) = DOMAIN e \ {k}
BY DEF Without

(* What e holds after e.pop(k, None).                                      *)
LEMMA WithoutGet ==
  \A e, k : /\ Get(Without(e, k), k) = Null
            /\ \A l : l # k => Get(Without(e, k), l) = Get(e, l)
BY DEF Without, Get

(* The keys of {**g, **f}.                                                 *)
LEMMA OverDomain == \A f, g : DOMAIN Over(f, g) = DOMAIN f \cup DOMAIN g
BY DEF Over

(* What {**g, **f} holds: f's value where f has the key.                   *)
LEMMA OverGet ==
  \A f, g : /\ \A l : l \notin DOMAIN f => Get(Over(f, g), l) = Get(g, l)
            /\ \A l \in DOMAIN f : Get(Over(f, g), l) = f[l]
BY DEF Over, Get

(* The keys of e after e[k] = v, made only if v is set.                    *)
LEMMA WithSetDomain ==
  \A e, k, v : DOMAIN WithSet(e, k, v) \subseteq DOMAIN e \cup {k}
BY WithDomain DEF WithSet

(* What e holds after e[k] = v, made only if v is set.                     *)
LEMMA WithSetGet ==
  \A e, k, v : /\ v # Null => Get(WithSet(e, k, v), k) = v
               /\ \A l : l # k => Get(WithSet(e, k, v), l) = Get(e, l)
BY WithGet DEF WithSet

(* The normaliser touches the type and the priority only.                  *)
LEMMA NormalizedDomain ==
  \A e, cues : DOMAIN Normalized(e, cues) \subseteq DOMAIN e \cup {"type", "priority"}
BY WithSetDomain DEF Normalized

(* What the normaliser makes of the two; the rest is kept.                 *)
LEMMA NormalizedGet ==
  \A e, cues :
    /\ \A l : l \notin {"type", "priority"} => Get(Normalized(e, cues), l) = Get(e, l)
    /\ NormalizedPriority(e, cues) # Null =>
         Get(Normalized(e, cues), "priority") = NormalizedPriority(e, cues)
BY WithSetGet DEF Normalized

\* The tokens of a title in which some word is the user's.
Owned(t) == {p \in t : p # "novel"}

(* A title without the tokens that are invented altogether is a title or   *)
(* nothing, and a grounded one has no such token.                          *)
LEMMA StripNovelType ==
  ASSUME NEW t \in Titles
  PROVE  /\ StripNovel(t) # Null => StripNovel(t) \in Titles /\ StripNovel(t) = Owned(t)
         /\ IsGrounded(t) => t = Owned(t)
<1>1. t # Null
  BY MessagesAssumption
<1>2. IsGrounded(t) => t = Owned(t)
  BY <1>1 DEF IsGrounded, Owned
<1>3. t \ {"novel"} = Owned(t)
  BY DEF Owned
<1> QED
  BY <1>2, <1>3 DEF StripNovel, Text, Titles

(* Grounding an issue's title: the entities stay an extraction, and the    *)
(* key the executor posts has the pruned title or nothing.                 *)
LEMMA GroundedIssueGet ==
  ASSUME NEW e, IsExtraction(e)
  PROVE  /\ IsExtraction(GroundedIssue(e))
         /\ Get(GroundedIssue(e), "title") # Null =>
              /\ Either(e, "title", "name") # Null
              /\ Get(GroundedIssue(e), "title") = Owned(Either(e, "title", "name"))
         /\ \A l : l \notin {"title", "name"} => Get(GroundedIssue(e), l) = Get(e, l)
<1> DEFINE raw == Either(e, "title", "name")
           w == Without(e, "name")
           pruned == With(w, "title", StripNovel(raw))
<1>1. raw # Null => raw \in Titles
  BY DEF IsExtraction, Either
<1>2. CASE IsGrounded(raw)
  <2>1. GroundedIssue(e) = e
    BY <1>2 DEF GroundedIssue
  <2>2. Get(e, "title") # Null => raw = Get(e, "title")
    BY DEF Either
  <2> QED
    BY <1>1, <1>2, <2>1, <2>2, StripNovelType
<1>3. CASE ~IsGrounded(raw)
  <2>1. GroundedIssue(e) = pruned
    BY <1>3 DEF GroundedIssue
  <2>2. raw \in Titles
    BY <1>1, <1>3 DEF IsGrounded
  <2> HIDE DEF raw
  <2>3. Get(w, "name") = Null /\ \A l : l # "name" => Get(w, l) = Get(e, l)
    BY WithoutGet
  <2>4. DOMAIN w \subseteq DOMAIN e
    BY WithoutDomain
  <2> HIDE DEF w
  <2>5. /\ Get(pruned, "title") = StripNovel(raw)
        /\ \A l : l # "title" => Get(pruned, l) = Get(w, l)
    BY WithGet
  <2>6. DOMAIN pruned \subseteq DOMAIN w \cup {"title"}
    BY WithDomain
  <2> HIDE DEF pruned
  <2>7. IsExtraction(pruned)
    BY <2>2, <2>3, <2>4, <2>5, <2>6, StripNovelType DEF IsExtraction, Keys
  <2> QED
    BY <1>3, <2>1, <2>2, <2>3, <2>5, <2>7, StripNovelType DEF IsGrounded, raw
<1> QED
  BY <1>2, <1>3

(* So is a sprint's name.                                                  *)
LEMMA GroundedSprintType ==
  ASSUME NEW e, IsExtraction(e), NEW quoted \in BOOLEAN
  PROVE  IsExtraction(GroundedSprint(e, quoted))
<1> DEFINE raw == Either(e, "name", "title")
           grounded == IF quoted THEN {"quoted"} ELSE StripNovel(raw)
           w == Without(e, "title")
           pruned == With(w, "name", grounded)
<1>1. raw # Null => raw \in Titles
  BY DEF IsExtraction, Either
<1>2. CASE IsGrounded(raw) \/ grounded = Null
  BY <1>2 DEF GroundedSprint
<1>3. CASE ~(IsGrounded(raw) \/ grounded = Null)
  <2>1. GroundedSprint(e, quoted) = pruned
    BY <1>3 DEF GroundedSprint
  <2>2. grounded \in Titles
    <3>1. {"quoted"} \in Titles
      BY DEF Titles, TitleParts
    <3> QED
      BY <1>1, <1>3, <3>1, StripNovelType DEF IsGrounded
  <2> HIDE DEF raw, grounded
  <2>3. Get(w, "title") = Null /\ \A l : l # "title" => Get(w, l) = Get(e, l)
    BY WithoutGet
  <2>4. DOMAIN w \subseteq DOMAIN e
    BY WithoutDomain
  <2> HIDE DEF w
  <2>5. /\ Get(pruned, "name") = grounded
        /\ \A l : l # "name" => Get(pruned, l) = Get(w, l)
    BY WithGet
  <2>6. DOMAIN pruned \subseteq DOMAIN w \cup {"name"}
    BY WithDomain
  <2> HIDE DEF pruned
  <2> QED
    BY <2>1, <2>2, <2>3, <2>4, <2>5, <2>6 DEF IsExtraction, Keys
<1> QED
  BY <1>2, <1>3

(* What the supervisor makes of an extraction is an extraction, an issue's *)
(* title is pruned and a given priority is kept.                           *)
LEMMA PreparedFacts ==
  ASSUME NEW i \in Intents, NEW e, IsExtraction(e), NEW cues, NEW quoted \in BOOLEAN
  PROVE  /\ IsExtraction(Prepared(i, e, cues, quoted))
         /\ i = "create_issue" /\ Get(Prepared(i, e, cues, quoted), "title") # Null =>
              /\ Either(e, "title", "name") # Null
              /\ Get(Prepared(i, e, cues, quoted), "title") = Owned(Either(e, "title", "name"))
         /\ i # "create_sprint" /\ Get(e, "priority") # Null =>
              Get(Prepared(i, e, cues, quoted), "priority") = Canonical(Get(e, "priority"))
<1> DEFINE p == Prepared(i, e, cues, quoted)
<1>1. CASE i = "create_issue"
  <2> DEFINE n == Normalized(e, cues)
  <2>1. p = GroundedIssue(n)
    BY <1>1 DEF Prepared
  <2>2. DOMAIN n \subseteq DOMAIN e \cup {"type", "priority"}
    BY NormalizedDomain
  <2>3. \A l : l \notin {"type", "priority"} => Get(n, l) = Get(e, l)
    BY NormalizedGet
  <2>4. Get(e, "priority") # Null => Get(n, "priority") = Canonical(Get(e, "priority"))
    <3>1. SUFFICES ASSUME Get(e, "priority") # Null
                   PROVE  Get(n, "priority") = Canonical(Get(e, "priority"))
      OBVIOUS
    <3>2. NormalizedPriority(e, cues) = Canonical(Get(e, "priority"))
      BY <3>1 DEF NormalizedPriority, Get
    <3>3. Canonical(Get(e, "priority")) # Null
      BY <3>1, MessagesAssumption DEF Canonical, Aliases, Priorities
    <3> QED
      BY <3>2, <3>3, NormalizedGet
  <2> HIDE DEF n
  <2>5. IsExtraction(n)
    BY <2>2, <2>3 DEF IsExtraction, Keys
  <2>6. Either(n, "title", "name") = Either(e, "title", "name")
    BY <2>3 DEF Either
  <2> QED
    BY <1>1, <2>1, <2>4, <2>5, <2>6, GroundedIssueGet
<1>2. CASE i = "create_sprint"
  BY <1>2, GroundedSprintType DEF Prepared
<1>3. CASE i = "update_issue"
  <2>1. p = CanonicalPriority(e)
    BY <1>3 DEF Prepared
  <2>2. CASE Get(e, "priority") = Null
    BY <1>3, <2>1, <2>2 DEF CanonicalPriority
  <2>3. CASE Get(e, "priority") # Null
    <3> DEFINE c == Canonical(Get(e, "priority"))
    <3>1. p = With(e, "priority", c)
      BY <2>1, <2>3 DEF CanonicalPriority, Get
    <3> HIDE DEF c
    <3>2. /\ Get(With(e, "priority", c), "priority") = c
          /\ \A l : l # "priority" => Get(With(e, "priority", c), l) = Get(e, l)
      BY WithGet
    <3>3. DOMAIN With(e, "priority", c) \subseteq DOMAIN e \cup {"priority"}
      BY WithDomain
    <3>4. IsExtraction(p)
      <4> HIDE DEF p
      <4> QED
        BY <3>1, <3>2, <3>3 DEF IsExtraction, Keys
    <3> QED
      BY <1>3, <3>1, <3>2, <3>4 DEF c
  <2> QED
    BY <2>2, <2>3
<1> QED
  BY <1>1, <1>2, <1>3 DEF Intents

-----------------------------------------------------------------------------
(* What previews name and bodies carry. *)

(* A label that stands in one pair.                                        *)
LEMMA SingleValue ==
  ASSUME NEW pairs, NEW l, NEW v, {q \in pairs : q[1] = l} = {<<l, v>>}
  PROVE  ValuesOf(pairs, l) = {v} \ {Null}
<1>1. {p[2] : p \in {<<l, v>>}} = {v}
  OBVIOUS
<1> QED
  BY <1>1 DEF ValuesOf

(* What a create's preview says of the labels that are posted.             *)
LEMMA IssuePreviewValues ==
  ASSUME NEW e
  PROVE  /\ ValuesOf(IssuePreview(e), "type") = {Default(Get(e, "type"), "task")}
         /\ ValuesOf(IssuePreview(e), "priority") = {Default(Get(e, "priority"), "medium")}
         /\ ValuesOf(IssuePreview(e), "title") = {EffectiveTitle(e)} \ {Null}
         /\ \A l \in {"name", "issue"} : ValuesOf(IssuePreview(e), l) = {}
<1> DEFINE T == EffectiveTitle(e)
           Y == Default(Get(e, "type"), "task")
           P == Default(Get(e, "priority"), "medium")
           A == Mentioned("assignee", Either(e, "assignee", "assignee_id"))
           S == Mentioned("sprint", Either(e, "sprint", "sprint_id"))
<1>1. Y # Null /\ P # Null
  BY MessagesAssumption DEF Default, Priorities
<1>2. (\A p \in A : p[1] = "assignee") /\ (\A p \in S : p[1] = "sprint")
  BY DEF Mentioned
<1>3. IssuePreview(e) = {<<"title", T>>, <<"type", Y>>, <<"priority", P>>} \cup A \cup S
  BY DEF IssuePreview
<1> HIDE DEF T, Y, P, A, S
<1>4. {q \in IssuePreview(e) : q[1] = "type"} = {<<"type", Y>>}
  BY <1>2, <1>3
<1>5. {q \in IssuePreview(e) : q[1] = "priority"} = {<<"priority", P>>}
  BY <1>2, <1>3
<1>6. {q \in IssuePreview(e) : q[1] = "title"} = {<<"title", T>>}
  BY <1>2, <1>3
<1>7. \A l \in {"name", "issue"} : {q \in IssuePreview(e) : q[1] = l} = {}
  BY <1>2, <1>3
<1>8. ValuesOf(IssuePreview(e), "type") = {Y} /\ ValuesOf(IssuePreview(e), "priority") = {P}
  <2>1. ValuesOf(IssuePreview(e), "type") = {Y} \ {Null}
    BY <1>4, SingleValue
  <2>2. ValuesOf(IssuePreview(e), "priority") = {P} \ {Null}
    BY <1>5, SingleValue
  <2> QED
    BY <1>1, <2>1, <2>2
<1>9. ValuesOf(IssuePreview(e), "title") = {T} \ {Null}
  BY <1>6, SingleValue
<1>10. \A l \in {"name", "issue"} : ValuesOf(IssuePreview(e), l) = {}
  BY <1>7 DEF ValuesOf
<1> QED
  BY <1>8, <1>9, <1>10 DEF Y, P, T

(* What an update's preview says of the labels that are posted.            *)
LEMMA UpdatePreviewValues ==
  ASSUME NEW e
  PROVE  /\ \A l \in {"priority", "title"} :
              ValuesOf(UpdatePreview(e), l) = {Get(e, l)} \ {Null}
         /\ ValuesOf(UpdatePreview(e), "issue") = {Either(e, "issue", "number")} \ {Null}
         /\ \A l \in {"type", "name"} : ValuesOf(UpdatePreview(e), l) = {}
<1> DEFINE N == Either(e, "issue", "number")
           F == {<<LabelOf[k], e[k]>> : k \in DOMAIN LabelOf \cap DOMAIN e}
<1>1. UpdatePreview(e) = {<<"issue", N>>} \cup F
  BY DEF UpdatePreview
<1>2. \A p \in F : p[1] \notin {"issue", "type", "name"}
  BY DEF LabelOf
<1>3. \A l \in {"priority", "title"} : \A p \in F : p[1] = l => l \in DOMAIN e /\ p[2] = e[l]
  BY DEF LabelOf
<1>4. \A l \in {"priority", "title"} :
        l \in DOMAIN e => \E p \in F : p[1] = l /\ p[2] = e[l]
  <2> TAKE l \in {"priority", "title"}
  <2> HAVE l \in DOMAIN e
  <2>1. l \in DOMAIN LabelOf /\ LabelOf[l] = l
    BY DEF LabelOf
  <2>2. <<LabelOf[l], e[l]>> \in F
    BY <2>1
  <2> HIDE DEF F
  <2> QED
    BY <2>1, <2>2
<1> HIDE DEF N, F
<1>5. {q \in UpdatePreview(e) : q[1] = "issue"} = {<<"issue", N>>}
  BY <1>1, <1>2
<1>6. ValuesOf(UpdatePreview(e), "issue") = {N} \ {Null}
  BY <1>5, SingleValue
<1>7. \A l \in {"type", "name"} : ValuesOf(UpdatePreview(e), l) = {}
  BY <1>1, <1>2 DEF ValuesOf
<1>8. \A l \in {"priority", "title"} :
        ValuesOf(UpdatePreview(e), l) = {Get(e, l)} \ {Null}
  <2> TAKE l \in {"priority", "title"}
  <2>1. {p[2] : p \in {q \in UpdatePreview(e) : q[1] = l}}
          = IF l \in DOMAIN e THEN {e[l]} ELSE {}
    BY <1>1, <1>3, <1>4
  <2> QED
    BY <2>1 DEF ValuesOf, Get
<1> QED
  BY <1>6, <1>7, <1>8 DEF N

(* What a sprint's preview says.                                           *)
LEMMA SprintPreviewValues ==
  ASSUME NEW e
  PROVE  /\ ValuesOf(SprintPreview(e), "name") = {Either(e, "name", "title")} \ {Null}
         /\ \A l \in {"type", "priority", "title", "issue"} : ValuesOf(SprintPreview(e), l) = {}
<1> DEFINE N == Either(e, "name", "title")
<1>1. SprintPreview(e) = {<<"name", N>>}
  BY DEF SprintPreview
<1> HIDE DEF N
<1>2. {q \in SprintPreview(e) : q[1] = "name"} = {<<"name", N>>}
  BY <1>1
<1>3. \A l \in {"type", "priority", "title", "issue"} : {q \in SprintPreview(e) : q[1] = l} = {}
  BY <1>1
<1>4. ValuesOf(SprintPreview(e), "name") = {N} \ {Null}
  BY <1>2, SingleValue
<1>5. \A l \in {"type", "priority", "title", "issue"} : ValuesOf(SprintPreview(e), l) = {}
  BY <1>3 DEF ValuesOf
<1> QED
  BY <1>4, <1>5 DEF N

(* The optional fields of a body: those the entities fill.                 *)
LEMMA GivenFacts ==
  ASSUME NEW e, NEW fields, fields \subseteq DOMAIN KeyOf
  PROVE  /\ \A f : f \in DOMAIN Given(e, fields) <=> f \in fields /\ Get(e, KeyOf[f]) # Null
         /\ \A f \in DOMAIN Given(e, fields) : Given(e, fields)[f] = Get(e, KeyOf[f])
BY DEF Given, Get

(* What execute_create_issue posts.                                        *)
LEMMA IssueBodyFacts ==
  ASSUME NEW e, NEW status
  PROVE  LET b == IssueBody(e, status)
         IN  /\ \A l \in {"name", "issue"} : l \notin DOMAIN b
             /\ "type" \in DOMAIN b /\ b["type"] = Default(Get(e, "type"), "task")
             /\ "priority" \in DOMAIN b
             /\ b["priority"] = Default(Get(e, "priority"), "medium")
             /\ Get(e, "title") # Null => "title" \in DOMAIN b /\ b["title"] = Get(e, "title")
<1> DEFINE h == [type |-> Default(Get(e, "type"), "task"),
                 priority |-> Default(Get(e, "priority"), "medium"),
                 status |-> Default(Get(e, "status_id"), status)]
           g == Given(e, {"title", "assignee", "sprint"})
           b == IssueBody(e, status)
<1>1. /\ DOMAIN h = {"type", "priority", "status"}
      /\ h["type"] = Default(Get(e, "type"), "task")
      /\ h["priority"] = Default(Get(e, "priority"), "medium")
  OBVIOUS
<1>2. /\ DOMAIN g \subseteq {"title", "assignee", "sprint"}
      /\ Get(e, "title") # Null => "title" \in DOMAIN g /\ g["title"] = Get(e, "title")
  <2>1. {"title", "assignee", "sprint"} \subseteq DOMAIN KeyOf /\ KeyOf["title"] = "title"
    BY DEF KeyOf
  <2> QED
    BY <2>1 DEF Given, Get
<1>3. b = Over(h, g)
  BY DEF IssueBody
<1> HIDE DEF h, g, b
<1>4. DOMAIN b = DOMAIN h \cup DOMAIN g
  BY <1>3, OverDomain
<1>5. \A l \in DOMAIN b : b[l] = IF l \in DOMAIN h THEN h[l] ELSE g[l]
  BY <1>3 DEF Over
<1>6. /\ \A l \in {"name", "issue"} : l \notin DOMAIN b
      /\ "type" \in DOMAIN b /\ b["type"] = Default(Get(e, "type"), "task")
      /\ "priority" \in DOMAIN b
      /\ b["priority"] = Default(Get(e, "priority"), "medium")
      /\ Get(e, "title") # Null => "title" \in DOMAIN b /\ b["title"] = Get(e, "title")
  BY <1>1, <1>2, <1>4, <1>5
<1> QED
  BY <1>6 DEF b

(* What execute_update_issue patches.                                      *)
LEMMA UpdateBodyFacts ==
  ASSUME NEW e, NEW n
  PROVE  LET b == With(UpdateBody(e), "issue", n)
         IN  /\ \A l \in {"type", "name"} : l \notin DOMAIN b
             /\ \A l \in {"priority", "title"} :
                  /\ l \in DOMAIN b <=> Get(e, l) # Null
                  /\ Get(e, l) # Null => b[l] = Get(e, l)
             /\ "issue" \in DOMAIN b /\ b["issue"] = n
<1> DEFINE u == UpdateBody(e)
           b == With(u, "issue", n)
<1>1. \A l \in {"priority", "title"} : l \in DOMAIN KeyOf /\ KeyOf[l] = l
  BY DEF KeyOf
<1>2. \A l \in {"type", "name", "issue"} : l \notin DOMAIN KeyOf
  BY DEF KeyOf
<1>3. u = Given(e, DOMAIN KeyOf)
  BY DEF UpdateBody
<1>4. \A l \in {"type", "name", "issue"} : l \notin DOMAIN u
  BY <1>2, <1>3, GivenFacts
<1>5. \A l \in {"priority", "title"} :
        /\ l \in DOMAIN u <=> Get(e, l) # Null
        /\ Get(e, l) # Null => u[l] = Get(e, l)
  BY <1>1, <1>3, GivenFacts
<1> HIDE DEF u
<1>6. DOMAIN b = DOMAIN u \cup {"issue"} /\ \A l \in DOMAIN b : b[l] = IF l = "issue" THEN n ELSE u[l]
  BY DEF With
<1> HIDE DEF b
<1>7. /\ \A l \in {"type", "name"} : l \notin DOMAIN b
      /\ \A l \in {"priority", "title"} :
           /\ l \in DOMAIN b <=> Get(e, l) # Null
           /\ Get(e, l) # Null => b[l] = Get(e, l)
      /\ "issue" \in DOMAIN b /\ b["issue"] = n
  BY <1>4, <1>5, <1>6
<1> QED
  BY <1>7 DEF b, u

(* What execute_create_sprint posts.                                       *)
LEMMA SprintBodyFacts ==
  ASSUME NEW e
  PROVE  LET b == SprintBody(e)
         IN  /\ \A l \in {"type", "priority", "title", "issue"} : l \notin DOMAIN b
             /\ "name" \in DOMAIN b /\ b["name"] = Either(e, "name", "title")
<1> DEFINE N == Either(e, "name", "title")
           g == Get(e, "goal")
           b == WithSet([name |-> N], "goal", g)
<1>1. SprintBody(e) = b
  BY DEF SprintBody
<1> HIDE DEF N, g
<1>2. /\ \A l \in {"type", "priority", "title", "issue"} : l \notin DOMAIN b
      /\ "name" \in DOMAIN b /\ b["name"] = N
  BY DEF WithSet, With
<1> QED
  BY <1>1, <1>2 DEF N

-----------------------------------------------------------------------------
(* Type correctness. *)

(* Keeping an id for a name.                                               *)
LEMMA ResolvedType ==
  ASSUME TypeOK, NEW k \in Kinds, NEW id \in Ids
  PROVE  LET r == With(resolved, IdKey[k], id)
         IN  /\ DOMAIN r \subseteq {"assignee_id", "sprint_id"}
             /\ \A l \in DOMAIN r : r[l] \in Ids
<1>1. IdKey[k] \in {"assignee_id", "sprint_id"}
  BY DEF Kinds, IdKey
<1> QED
  BY <1>1 DEF TypeOK, With

(* A lookup that finds a name yields an id.                                *)
LEMMA EntryTypes ==
  ASSUME TypeOK, NEW k \in Kinds, NEW n, NEW i \in Matches(k, n)
  PROVE  Directory(k)[i].id \in Ids
<1>1. Directory(k) \in Seq(Entries)
  BY DEF TypeOK, Directory
<1>2. i \in DOMAIN Directory(k)
  BY DEF Matches
<1>3. Directory(k)[i] \in Entries
  BY <1>1, <1>2
<1> QED
  BY <1>3 DEF Entries

(* A project that loses an entry is a project.                             *)
LEMMA ShorterType ==
  ASSUME NEW S, NEW s \in Seq(S), NEW t \in Shorter(s)
  PROVE  t \in Seq(S)
<1>1. PICK i \in 1 .. Len(s) : t = SubSeq(s, 1, i - 1) \o SubSeq(s, i + 1, Len(s))
  BY DEF Shorter, RemoveAt
<1>2. SubSeq(s, 1, i - 1) \in Seq(S) /\ SubSeq(s, i + 1, Len(s)) \in Seq(S)
  BY SMT
<1> QED
  BY <1>1, <1>2

(* Entities merged with resolved ids are an extraction.                    *)
LEMMA MergedType ==
  ASSUME TypeOK
  PROVE  /\ IsExtraction(Merged)
         /\ \A l : l \notin {"assignee_id", "sprint_id"} => Get(Merged, l) = Get(entities, l)
<1>1. DOMAIN Merged = DOMAIN resolved \cup DOMAIN entities
  BY OverDomain DEF Merged
<1>2. \A l : l \notin DOMAIN resolved => Get(Merged, l) = Get(entities, l)
  BY OverGet DEF Merged
<1>3. \A l : l \notin {"assignee_id", "sprint_id"} => Get(Merged, l) = Get(entities, l)
  BY <1>2 DEF TypeOK
<1> HIDE DEF Merged
<1> QED
  BY <1>1, <1>3 DEF TypeOK, IsExtraction, Keys

(* The intent of a message.                                                *)
LEMMA MessageType ==
  ASSUME TypeOK
  PROVE  /\ intent \in Intents /\ IsExtraction(message.entities)
         /\ message.quoted \in BOOLEAN
BY MessagesAssumption DEF TypeOK, intent

(* The type invariant holds when the message comes.                        *)
LEMMA TypeInit == Init => TypeOK
<1> SUFFICES ASSUME Init PROVE TypeOK
  OBVIOUS
<1>1. DOMAIN resolved = {}
  BY DEF Init
<1>2. IsExtraction(entities)
  BY MessagesAssumption DEF Init
<1>3. stage \in Stages
  BY DEF Init, Stages
<1> QED
  BY <1>1, <1>2, <1>3, NamesAssumption DEF Init, TypeOK

(* Every step keeps the type invariant.                                    *)
LEMMA TypeStep == TypeOK /\ [Next]_vars => TypeOK'
<1> SUFFICES ASSUME TypeOK, [Next]_vars PROVE TypeOK'
  OBVIOUS
<1> USE DEF TypeOK, Stages, Validating, Asking, Failures
<1>1. CASE AskToRephrase
  BY <1>1 DEF AskToRephrase, kept, project
<1>2. CASE Prepare
  <2>1. IsExtraction(entities')
    BY <1>2, MessageType, PreparedFacts DEF Prepare
  <2> QED
    BY <1>2, <2>1 DEF Prepare, kept, project
<1>3. CASE CheckIssue
  BY <1>3 DEF CheckIssue, Lookup, kept, project
<1>4. ASSUME NEW k \in Kinds, SkipName(k) PROVE TypeOK'
  BY <1>4, ResolvedType DEF SkipName, Lookup, After, kept, project
<1>5. ASSUME NEW k \in Kinds, ResolveName(k) PROVE TypeOK'
  <2>1. /\ DOMAIN resolved' \subseteq {"assignee_id", "sprint_id"}
        /\ \A l \in DOMAIN resolved' : resolved'[l] \in Ids
    <3>1. CASE UNCHANGED resolved
      BY <3>1
    <3>2. ASSUME NEW i \in Matches(k, Named(k)),
                 resolved' = With(resolved, IdKey[k], Directory(k)[i].id)
          PROVE  /\ DOMAIN resolved' \subseteq {"assignee_id", "sprint_id"}
                 /\ \A l \in DOMAIN resolved' : resolved'[l] \in Ids
      BY <3>2, EntryTypes, ResolvedType
    <3> QED
      BY <1>5, <3>1, <3>2 DEF ResolveName
  <2>2. stage' \in Validating
    BY <1>5 DEF ResolveName, After, Checking
  <2> QED
    BY <1>5, <2>1, <2>2 DEF ResolveName, Lookup, kept, project
<1>6. ASSUME NEW k \in Kinds, CheckName(k) PROVE TypeOK'
  BY <1>6 DEF CheckName, Lookup, After, kept, project
<1>7. CASE Refuse
  BY <1>7 DEF Refuse, kept, project
<1>8. CASE Propose
  BY <1>8 DEF Propose, kept, project
<1>9. CASE Decline
  BY <1>9 DEF Decline, kept, project
<1>10. CASE Confirm
  BY <1>10, MergedType DEF Confirm, kept, project
<1>11. CASE ExecuteCreateIssue
  BY <1>11 DEF ExecuteCreateIssue, Send, Fail, Execute, kept, project
<1>12. CASE ExecuteUpdateIssue
  BY <1>12 DEF ExecuteUpdateIssue, Send, Fail, Execute, kept, project
<1>13. CASE ExecuteCreateSprint
  BY <1>13 DEF ExecuteCreateSprint, Send, Fail, Execute, kept, project
<1>14. CASE Change
  <2>1. members' \in Seq(Entries) /\ sprints' \in Seq(Entries) /\ issues' \subseteq Nat
    BY <1>14, ShorterType DEF Change
  <2> QED
    BY <1>14, <2>1, NamesAssumption DEF Change
<1>15. CASE UNCHANGED vars
  BY <1>15 DEF vars, project
<1> QED
  BY <1>1, <1>2, <1>3, <1>4, <1>5, <1>6, <1>7, <1>8, <1>9, <1>10, <1>11, <1>12,
     <1>13, <1>14, <1>15 DEF Next, Validate

(* The state of a write keeps its type.                                    *)
THEOREM WriteTypeCorrect == Spec => []TypeOK
BY TypeInit, TypeStep, PTL DEF Spec

-----------------------------------------------------------------------------
(* Preview and execution. *)

Rest ==
  /\ Untouched /\ Pruned /\ PriorityKept /\ PreviewStands
  /\ PostedAsPreviewed /\ TitleIsPruned /\ GivenPriorityWins

(* The rest of the invariant holds when the message comes.                 *)
LEMMA RestInit == Init => Rest
BY DEF Init, Rest, Untouched, Ready, Pruned, PriorityKept, PreviewStands,
       PostedAsPreviewed, TitleIsPruned, GivenPriorityWins, Sent

(* A step that leaves entities, preview and body alone.                    *)
LEMMA QuietStep ==
  ASSUME Rest, UNCHANGED <<message, entities, preview, body>>,
         stage' \notin {"extracted", "awaiting", "executing", "sent"},
         Ready \/ stage' = "needs_input"
  PROVE  Rest'
BY DEF Rest, Untouched, Ready, Pruned, PriorityKept, PreviewStands,
       PostedAsPreviewed, TitleIsPruned, GivenPriorityWins, Sent, intent, Previewed

(* A step of the project, or none.                                         *)
LEMMA OutsideStep ==
  ASSUME Rest, UNCHANGED <<stage, message, entities, preview, body>>
  PROVE  Rest'
BY DEF Rest, Untouched, Ready, Pruned, PriorityKept, PreviewStands,
       PostedAsPreviewed, TitleIsPruned, GivenPriorityWins, Sent, intent, Previewed

(* Prepare prunes the title and keeps a given priority.                    *)
LEMMA PrepareStep ==
  ASSUME TypeOK, Rest, Prepare
  PROVE  Rest'
<1>1. /\ entities = message.entities /\ message' = message
      /\ entities' = Prepared(intent, entities, message.cues, message.quoted)
      /\ stage' \in {"needs_input", "validated", "checking_issue", "resolving_assignee"}
  BY DEF Prepare, Rest, Untouched, kept
<1>2. intent \in Intents /\ message.quoted \in BOOLEAN /\ IsExtraction(entities)
  BY MessageType DEF TypeOK
<1>3. /\ intent = "create_issue" /\ Get(entities', "title") # Null =>
           /\ Either(entities, "title", "name") # Null
           /\ Get(entities', "title") = Owned(Either(entities, "title", "name"))
      /\ intent # "create_sprint" /\ Get(entities, "priority") # Null =>
           Get(entities', "priority") = Canonical(Get(entities, "priority"))
  BY <1>1, <1>2, PreparedFacts
<1> QED
  BY <1>1, <1>3
     DEF Rest, Untouched, Ready, Pruned, PriorityKept, PreviewStands,
         PostedAsPreviewed, TitleIsPruned, GivenPriorityWins, Sent, intent, Owned

(* The preview is built from the entities it stands for.                   *)
LEMMA ProposeStep ==
  ASSUME Rest, Propose
  PROVE  Rest'
<1>1. PreviewStands'
  BY DEF Propose, kept, PreviewStands, Previewed, intent
<1>2. (Untouched /\ Pruned /\ PriorityKept)'
  BY DEF Propose, kept, Rest, Untouched, Pruned, PriorityKept, Ready, intent
<1>3. (PostedAsPreviewed /\ TitleIsPruned /\ GivenPriorityWins)'
  BY DEF Propose, PostedAsPreviewed, TitleIsPruned, GivenPriorityWins, Sent
<1> QED
  BY <1>1, <1>2, <1>3 DEF Rest

(* Only ids are merged: what the preview derives from the other keys       *)
(* stands.                                                                 *)
LEMMA MergedPreview ==
  ASSUME NEW i \in Intents, NEW e, NEW f,
         \A l : l \notin {"assignee_id", "sprint_id"} => Get(f, l) = Get(e, l),
         NEW label \in {"type", "priority", "title", "name", "issue"}
  PROVE  ValuesOf(Preview(i, f), label) = ValuesOf(Preview(i, e), label)
<1>1. \A l \in {"type", "priority", "title", "name", "issue", "number"} : Get(f, l) = Get(e, l)
  OBVIOUS
<1>2. /\ Either(f, "issue", "number") = Either(e, "issue", "number")
      /\ Either(f, "name", "title") = Either(e, "name", "title")
      /\ EffectiveTitle(f) = EffectiveTitle(e)
  BY <1>1 DEF Either, EffectiveTitle
<1>3. CASE i = "create_issue"
  BY <1>1, <1>2, <1>3, IssuePreviewValues DEF Preview
<1>4. CASE i = "update_issue"
  BY <1>1, <1>2, <1>4, UpdatePreviewValues DEF Preview
<1>5. CASE i = "create_sprint"
  BY <1>2, <1>5, SprintPreviewValues DEF Preview
<1> QED
  BY <1>3, <1>4, <1>5 DEF Intents

(* A yes merges ids and leaves what the preview says standing.             *)
LEMMA ConfirmStep ==
  ASSUME TypeOK, Rest, Confirm
  PROVE  Rest'
<1>1. /\ stage = "awaiting" /\ stage' = "executing" /\ entities' = Merged
      /\ UNCHANGED <<message, preview, body>>
  BY DEF Confirm, kept
<1>2. \A l : l \notin {"assignee_id", "sprint_id"} => Get(entities', l) = Get(entities, l)
  BY <1>1, MergedType
<1>3. intent \in Intents /\ intent' = intent
  BY <1>1, MessageType DEF intent
<1>4. PreviewStands'
  <2>1. \A label \in {"type", "priority", "title", "name", "issue"} :
          /\ Previewed(label) = ValuesOf(Preview(intent, entities), label)
          /\ ValuesOf(Preview(intent, entities'), label)
               = ValuesOf(Preview(intent, entities), label)
    BY <1>1, <1>2, <1>3, MergedPreview DEF Rest, PreviewStands
  <2> QED
    BY <1>1, <1>3, <2>1 DEF PreviewStands, Previewed
<1>5. (Untouched /\ Pruned /\ PriorityKept)'
  BY <1>1, <1>2, <1>3 DEF Rest, Untouched, Pruned, PriorityKept, Ready
<1>6. (PostedAsPreviewed /\ TitleIsPruned /\ GivenPriorityWins)'
  BY <1>1 DEF PostedAsPreviewed, TitleIsPruned, GivenPriorityWins, Sent
<1> QED
  BY <1>4, <1>5, <1>6 DEF Rest

(* A send keeps what is not about the request.                             *)
LEMMA SendFrame ==
  ASSUME Rest, NEW i \in Intents, NEW b, Send(i, b)
  PROVE  /\ (Untouched /\ Pruned /\ PriorityKept /\ PreviewStands)'
         /\ intent = i /\ intent' = i /\ stage' = "sent" /\ body' = b
         /\ UNCHANGED <<message, preview>>
         /\ PreviewStands /\ stage = "executing" /\ Ready
         /\ Pruned /\ PriorityKept
BY DEF Send, Execute, kept, Rest, Untouched, Pruned, PriorityKept, PreviewStands,
       Ready, intent

(* A create is posted as previewed, grounded and prioritised.              *)
LEMMA SendIssueStep ==
  ASSUME TypeOK, Rest, Get(entities, "title") # Null,
         Send("create_issue", IssueBody(entities, "default"))
  PROVE  Rest'
<1> DEFINE b == IssueBody(entities, "default")
<1>1. "create_issue" \in Intents
  BY DEF Intents
<1>2. /\ (Untouched /\ Pruned /\ PriorityKept /\ PreviewStands)'
      /\ intent = "create_issue" /\ intent' = "create_issue" /\ stage' = "sent"
      /\ body' = b /\ UNCHANGED <<message, preview>>
      /\ PreviewStands /\ stage = "executing" /\ Ready /\ Pruned /\ PriorityKept
  BY <1>1, SendFrame
<1>3. \A l \in {"type", "priority", "name", "issue"} :
        Previewed(l) = ValuesOf(IssuePreview(entities), l)
  BY <1>2 DEF PreviewStands, Preview
<1>4. /\ \A l \in {"name", "issue"} : l \notin DOMAIN b
      /\ "type" \in DOMAIN b /\ b["type"] = Default(Get(entities, "type"), "task")
      /\ "priority" \in DOMAIN b
      /\ b["priority"] = Default(Get(entities, "priority"), "medium")
      /\ "title" \in DOMAIN b /\ b["title"] = Get(entities, "title")
  BY IssueBodyFacts
<1> HIDE DEF b
<1>5. PostedAsPreviewed'
  <2>1. Previewed("type") = {b["type"]} /\ Previewed("priority") = {b["priority"]}
    BY <1>3, <1>4, IssuePreviewValues
  <2>2. \A l \in {"name", "issue"} : Previewed(l) = {}
    BY <1>3, IssuePreviewValues
  <2> QED
    BY <1>2, <1>4, <2>1, <2>2 DEF PostedAsPreviewed, Previewed
<1>6. TitleIsPruned'
  BY <1>2, <1>4 DEF TitleIsPruned, Sent, Pruned
<1>7. GivenPriorityWins'
  <2>1. SUFFICES ASSUME Get(message.entities, "priority") # Null
                 PROVE  b["priority"] = Canonical(Get(message.entities, "priority"))
    BY <1>2 DEF GivenPriorityWins
  <2>2. Get(entities, "priority") = Canonical(Get(message.entities, "priority"))
    BY <1>2, <2>1 DEF PriorityKept
  <2>3. Canonical(Get(message.entities, "priority")) # Null
    BY <2>1, MessagesAssumption DEF Canonical, Aliases, Priorities
  <2> QED
    BY <1>4, <2>2, <2>3 DEF Default
<1> QED
  BY <1>2, <1>5, <1>6, <1>7 DEF Rest

(* An update is posted as previewed, with the priority given.              *)
LEMMA SendUpdateStep ==
  ASSUME TypeOK, Rest, Number # Null,
         Send("update_issue", With(UpdateBody(entities), "issue", Number))
  PROVE  Rest'
<1> DEFINE b == With(UpdateBody(entities), "issue", Number)
<1>1. "update_issue" \in Intents
  BY DEF Intents
<1>2. /\ (Untouched /\ Pruned /\ PriorityKept /\ PreviewStands)'
      /\ intent = "update_issue" /\ intent' = "update_issue" /\ stage' = "sent"
      /\ body' = b /\ UNCHANGED <<message, preview>>
      /\ PreviewStands /\ stage = "executing" /\ Ready /\ Pruned /\ PriorityKept
  BY <1>1, SendFrame
<1>3. \A l \in {"type", "priority", "title", "name", "issue"} :
        Previewed(l) = ValuesOf(UpdatePreview(entities), l)
  BY <1>2 DEF PreviewStands, Preview
<1>4. /\ \A l \in {"type", "name"} : l \notin DOMAIN b
      /\ \A l \in {"priority", "title"} :
           /\ l \in DOMAIN b <=> Get(entities, l) # Null
           /\ Get(entities, l) # Null => b[l] = Get(entities, l)
      /\ "issue" \in DOMAIN b /\ b["issue"] = Number
  BY UpdateBodyFacts
<1> HIDE DEF b
<1>5. PostedAsPreviewed'
  <2>1. Previewed("issue") = {b["issue"]}
    BY <1>3, <1>4, UpdatePreviewValues DEF Number
  <2>2. \A l \in {"type", "name"} : Previewed(l) = {}
    BY <1>3, UpdatePreviewValues
  <2>3. \A l \in {"priority", "title"} : Previewed(l) = {Get(entities, l)} \ {Null}
    BY <1>3, UpdatePreviewValues
  <2>4. \A l \in {"priority", "title"} :
          Previewed(l) = IF l \in DOMAIN b THEN {b[l]} ELSE {}
    BY <1>4, <2>3
  <2> QED
    BY <1>2, <1>4, <2>1, <2>2, <2>4 DEF PostedAsPreviewed, Previewed
<1>6. TitleIsPruned'
  BY <1>2 DEF TitleIsPruned, Sent
<1>7. GivenPriorityWins'
  <2>1. SUFFICES ASSUME Get(message.entities, "priority") # Null
                 PROVE  b["priority"] = Canonical(Get(message.entities, "priority"))
    BY <1>2 DEF GivenPriorityWins
  <2>2. Get(entities, "priority") = Canonical(Get(message.entities, "priority"))
    BY <1>2, <2>1 DEF PriorityKept
  <2>3. Canonical(Get(message.entities, "priority")) # Null
    BY <2>1, MessagesAssumption DEF Canonical, Aliases, Priorities
  <2> QED
    BY <1>4, <2>2, <2>3
<1> QED
  BY <1>2, <1>5, <1>6, <1>7 DEF Rest

(* A sprint is posted under the name previewed.                            *)
LEMMA SendSprintStep ==
  ASSUME TypeOK, Rest, Either(entities, "name", "title") # Null,
         Send("create_sprint", SprintBody(entities))
  PROVE  Rest'
<1> DEFINE b == SprintBody(entities)
<1>1. "create_sprint" \in Intents
  BY DEF Intents
<1>2. /\ (Untouched /\ Pruned /\ PriorityKept /\ PreviewStands)'
      /\ intent = "create_sprint" /\ intent' = "create_sprint" /\ stage' = "sent"
      /\ body' = b /\ UNCHANGED <<message, preview>>
      /\ PreviewStands /\ stage = "executing" /\ Ready /\ Pruned /\ PriorityKept
  BY <1>1, SendFrame
<1>3. \A l \in {"type", "priority", "name", "issue"} :
        Previewed(l) = ValuesOf(SprintPreview(entities), l)
  BY <1>2 DEF PreviewStands, Preview
<1>4. /\ \A l \in {"type", "priority", "title", "issue"} : l \notin DOMAIN b
      /\ "name" \in DOMAIN b /\ b["name"] = Either(entities, "name", "title")
  BY SprintBodyFacts
<1> HIDE DEF b
<1>5. PostedAsPreviewed'
  <2>1. Previewed("name") = {b["name"]}
    BY <1>3, <1>4, SprintPreviewValues
  <2>2. \A l \in {"type", "priority", "issue"} : Previewed(l) = {}
    BY <1>3, SprintPreviewValues
  <2> QED
    BY <1>2, <1>4, <2>1, <2>2 DEF PostedAsPreviewed, Previewed
<1>6. (TitleIsPruned /\ GivenPriorityWins)'
  BY <1>2 DEF TitleIsPruned, GivenPriorityWins, Sent
<1> QED
  BY <1>2, <1>5, <1>6 DEF Rest

(* A write that is given up posts nothing.                                 *)
LEMMA FailStep ==
  ASSUME Rest, NEW i, NEW outcome \in Failures, Fail(i, outcome)
  PROVE  Rest'
<1>1. /\ UNCHANGED <<message, entities, preview, body>> /\ stage' \in Failures
      /\ stage = "executing"
  BY DEF Fail, Execute, kept
<1>2. Ready /\ stage' \notin {"extracted", "awaiting", "executing", "sent"}
  BY <1>1 DEF Ready, Failures
<1> QED
  BY <1>1, <1>2, QuietStep

(* Every step keeps the rest of the invariant.                             *)
LEMMA RestStep == TypeOK /\ Rest /\ [Next]_vars => Rest'
<1> SUFFICES ASSUME TypeOK, Rest, [Next]_vars PROVE Rest'
  OBVIOUS
<1>1. CASE AskToRephrase
  BY <1>1, QuietStep DEF AskToRephrase, kept
<1>2. CASE Prepare
  BY <1>2, PrepareStep
<1>3. CASE Validate
  <2>1. UNCHANGED <<message, entities, preview, body>>
    BY <1>3 DEF Validate, CheckIssue, SkipName, ResolveName, CheckName, Refuse, Lookup, kept
  <2>2. stage \in Validating /\ stage' \in Validating \cup {"validation_failed"}
    BY <1>3 DEF Validate, CheckIssue, SkipName, ResolveName, CheckName, Refuse,
                Resolving, Checking, After, Validating
  <2>3. Ready /\ stage' \notin {"extracted", "awaiting", "executing", "sent"}
    BY <2>2 DEF Ready, Validating
  <2> QED
    BY <2>1, <2>3, QuietStep
<1>4. CASE Propose
  BY <1>4, ProposeStep
<1>5. CASE Decline
  <2>1. Ready
    BY <1>5 DEF Decline, Ready
  <2> QED
    BY <1>5, <2>1, QuietStep DEF Decline, kept
<1>6. CASE Confirm
  BY <1>6, ConfirmStep
<1>7. CASE ExecuteCreateIssue
  BY <1>7, FailStep, SendIssueStep DEF ExecuteCreateIssue, Failures
<1>8. CASE ExecuteUpdateIssue
  BY <1>8, FailStep, SendUpdateStep DEF ExecuteUpdateIssue, Failures
<1>9. CASE ExecuteCreateSprint
  BY <1>9, FailStep, SendSprintStep DEF ExecuteCreateSprint, Failures
<1>10. CASE Change
  BY <1>10, OutsideStep DEF Change
<1>11. CASE UNCHANGED vars
  BY <1>11, OutsideStep DEF vars
<1> QED
  BY <1>1, <1>2, <1>3, <1>4, <1>5, <1>6, <1>7, <1>8, <1>9, <1>10, <1>11 DEF Next

-----------------------------------------------------------------------------
(* Validation. *)

Lookups ==
  /\ OnCourse /\ MissesTheUnknown /\ FindsTheKnown /\ FindsTheNamed
  /\ ResolvedAsPreviewed

(* Nothing has been looked up when the message comes.                      *)
LEMMA LookupsInit == Init => Lookups
<1> SUFFICES ASSUME Init PROVE Lookups
  OBVIOUS
<1>1. stage = "extracted" /\ errors = {} /\ DOMAIN resolved = {}
  BY DEF Init
<1>2. \A k \in Kinds : stage # Checking(k) /\ stage \notin Past(k)
  BY <1>1 DEF Checking, Past
<1>3. stage \notin Unanswered /\ stage \notin Validating
  BY <1>1 DEF Unanswered, Validating
<1> QED
  BY <1>1, <1>2, <1>3 DEF Lookups, OnCourse, MissesTheUnknown, FindsTheKnown,
                          FindsTheNamed, ResolvedAsPreviewed

(* What is named and what it matches is the same while the entities and    *)
(* the project are.                                                        *)
LEMMA SameNames ==
  ASSUME UNCHANGED <<message, entities, project>>
  PROVE  /\ Unknown' = Unknown /\ intent' = intent /\ (HasNumber <=> HasNumber')
         /\ \A k \in Kinds :
              /\ Named(k)' = Named(k)
              /\ Matches(k, Named(k))' = Matches(k, Named(k))
              /\ \A id : Means(k, Named(k), id)' <=> Means(k, Named(k), id)
              /\ \A n, id : Means(k, n, id)' <=> Means(k, n, id)
BY DEF project, Unknown, intent, HasNumber, Number, Named, Matches, Directory, Means

(* Where the lookups of a kind begin and go on, and when they are over.    *)
LEMMA Course ==
  \A k \in Kinds :
    /\ Resolving(k) \in Validating \ {"validated", "checking_issue"}
    /\ Checking(k) \in Validating \ {"validated", "checking_issue"}
    /\ After(k) \in Validating \ {"checking_issue"}
    /\ Resolving(k) # Checking(k)
    /\ \A l \in Kinds :
         /\ After(k) # Checking(l) /\ Resolving(k) # Checking(l)
         /\ l # k => Checking(k) # Checking(l)
         /\ After(k) \in Past(l) => l = k \/ (Resolving(k) \in Past(l) /\ Checking(k) \in Past(l))
         /\ Checking(k) \in Past(l) => Resolving(k) \in Past(l)
         /\ IdKey[k] = IdKey[l] => k = l
BY DEF Kinds, Resolving, Checking, After, Past, Validating, IdKey

(* A step of the project makes it another one; the write stays as it is.   *)
LEMMA ChangeCounts ==
  ASSUME TypeOK, Change
  PROVE  /\ changes' # 0
         /\ UNCHANGED <<stage, message, entities, resolved, errors, preview, body, outage>>
BY DEF TypeOK, Change

(* A lookup of a kind, by what it leaves alone and where it leads.         *)
LEMMA LookupOf ==
  ASSUME NEW k \in Kinds, SkipName(k) \/ ResolveName(k) \/ CheckName(k)
  PROVE  /\ UNCHANGED <<message, entities, preview, body, project, changes>>
         /\ stage \in {Resolving(k), Checking(k)} /\ stage' \in {Checking(k), After(k)}
         /\ stage = Checking(k) => stage' = After(k)
BY Course DEF SkipName, ResolveName, CheckName, Lookup, kept

(* The lookup of the issue.                                                *)
LEMMA LookupOfIssue ==
  ASSUME CheckIssue
  PROVE  /\ UNCHANGED <<message, entities, preview, body, project, changes, resolved>>
         /\ stage = "checking_issue" /\ stage' = "resolving_assignee"
         /\ \/ errors' = errors /\ (outage' \/ ~HasNumber)
            \/ HasNumber /\ errors' = IF Number.num \in issues THEN errors ELSE errors \cup {"issue"}
BY DEF CheckIssue, Lookup, kept

(* The steps that end validation or come after it, by where they lead.     *)
LEMMA LaterSteps ==
  ASSUME Refuse \/ Propose \/ Decline \/ Confirm \/ ExecuteCreateIssue
           \/ ExecuteUpdateIssue \/ ExecuteCreateSprint
  PROVE  /\ UNCHANGED <<message, project, changes, resolved, errors, outage>>
         /\ \/ Refuse \/ Propose
            \/ stage = "awaiting" /\ stage' \in {"cancelled", "executing"}
            \/ stage = "executing" /\ stage' \in Failures \cup {"sent"}
BY DEF Refuse, Propose, Decline, Confirm, ExecuteCreateIssue, ExecuteUpdateIssue,
       ExecuteCreateSprint, Send, Fail, Execute, kept, Failures

(* The stages after the answer are none of validation's.                   *)
LEMMA Answered ==
  ASSUME NEW s \in Failures \cup {"cancelled", "executing", "sent", "needs_input"}
  PROVE  /\ s \notin Unanswered /\ s \notin Validating /\ s # "extracted"
         /\ \A k \in Kinds : s # Checking(k) /\ s \notin Past(k)
BY DEF Failures, Unanswered, Validating, Checking, Past

(* Every step keeps to the course.                                         *)
LEMMA OnCourseStep ==
  ASSUME TypeOK, OnCourse, [Next]_vars
  PROVE  OnCourse'
<1> USE DEF OnCourse
<1>1. CASE AskToRephrase
  BY <1>1, Answered DEF AskToRephrase
<1>2. CASE Prepare
  <2>1. /\ intent' = intent
        /\ stage' \in {"needs_input", "validated", "checking_issue", "resolving_assignee"}
        /\ stage' = "checking_issue" => intent = "update_issue"
        /\ stage' \in {"checking_issue", "resolving_assignee"} => intent # "create_sprint"
    BY <1>2 DEF Prepare, kept, intent
  <2>2. \A k \in Kinds : stage' # Checking(k)
    BY <2>1, Answered DEF Checking
  <2> QED
    BY <2>1, <2>2 DEF Validating
<1>3. CASE CheckIssue
  <2>1. intent' = intent
    BY <1>3, LookupOfIssue DEF intent
  <2> QED
    BY <1>3, <2>1, LookupOfIssue DEF Validating, Checking
<1>4. ASSUME NEW k \in Kinds, SkipName(k) \/ ResolveName(k) \/ CheckName(k)
      PROVE  OnCourse'
  <2>1. /\ intent' = intent /\ \A l \in Kinds : Named(l)' = Named(l)
    BY <1>4, LookupOf, SameNames
  <2>2. /\ stage \in Validating \ {"validated", "checking_issue"}
        /\ stage' \in Validating \ {"checking_issue"}
    BY <1>4, LookupOf, Course
  <2>3. stage' = Checking(k) => Named(k) \in Names
    BY <1>4, Course DEF SkipName, ResolveName, CheckName
  <2>4. \A l \in Kinds : stage' = Checking(l) => l = k
    BY <1>4, LookupOf, Course
  <2>5. stage' \notin {"extracted", "awaiting", "validation_failed"}
    BY <2>2 DEF Validating
  <2> QED
    BY <2>1, <2>2, <2>3, <2>4, <2>5
<1>5. CASE Refuse \/ Propose
  <2>1. \A k \in Kinds : Checking(k) \in Validating
    BY Course
  <2> QED
    BY <1>5, <2>1 DEF Refuse, Propose, Validating
<1>6. CASE Decline \/ Confirm \/ ExecuteCreateIssue \/ ExecuteUpdateIssue \/ ExecuteCreateSprint
  <2>1. stage' \in Failures \cup {"cancelled", "executing", "sent", "needs_input"}
    BY <1>6 DEF Decline, Confirm, ExecuteCreateIssue, ExecuteUpdateIssue,
                ExecuteCreateSprint, Send, Fail, Execute, Failures
  <2> QED
    BY <2>1, Answered DEF Failures, Unanswered
<1>7. CASE Change \/ UNCHANGED vars
  <2>1. UNCHANGED <<stage, message, entities, resolved, errors>>
    BY <1>7, ChangeCounts DEF vars
  <2>2. intent' = intent /\ \A k \in Kinds : Named(k)' = Named(k)
    BY <2>1 DEF intent, Named
  <2> QED
    BY <2>1, <2>2
<1> QED
  BY <1>1, <1>2, <1>3, <1>4, <1>5, <1>6, <1>7 DEF Next, Validate

(* The steps that leave validation, or do not reach it.                    *)
LEMMA AnsweredSteps ==
  ASSUME AskToRephrase \/ Decline \/ Confirm \/ ExecuteCreateIssue
           \/ ExecuteUpdateIssue \/ ExecuteCreateSprint
  PROVE  /\ stage' \notin Unanswered
         /\ \A k \in Kinds : stage' # Checking(k) /\ stage' \notin Past(k)
<1>1. stage' \in Failures \cup {"cancelled", "executing", "sent", "needs_input"}
  BY LaterSteps DEF AskToRephrase, Refuse, Propose, Decline, Confirm, ExecuteCreateIssue,
     ExecuteUpdateIssue, ExecuteCreateSprint, Send, Fail, Execute, Failures
<1> QED
  BY <1>1, Answered

(* Every step misses only what is unknown.                                 *)
LEMMA MissesStep ==
  ASSUME TypeOK, OnCourse, MissesTheUnknown, [Next]_vars
  PROVE  MissesTheUnknown'
<1>1. CASE AskToRephrase \/ Decline \/ Confirm \/ ExecuteCreateIssue
             \/ ExecuteUpdateIssue \/ ExecuteCreateSprint
  BY <1>1, AnsweredSteps DEF MissesTheUnknown
<1>2. CASE Prepare
  BY <1>2 DEF Prepare, OnCourse, MissesTheUnknown
<1>3. CASE CheckIssue
  <2>1. stage \in Unanswered /\ intent = "update_issue"
    BY <1>3 DEF CheckIssue, OnCourse, Unanswered, Validating
  <2>2. Unknown' = Unknown /\ changes' = changes
    BY <1>3, LookupOfIssue, SameNames
  <2>3. \A e \in errors' : e \in errors \/ e \in Unknown
    BY <1>3, <2>1, LookupOfIssue DEF Unknown
  <2> QED
    BY <2>1, <2>2, <2>3 DEF MissesTheUnknown
<1>4. ASSUME NEW k \in Kinds, SkipName(k) \/ ResolveName(k) \/ CheckName(k)
      PROVE  MissesTheUnknown'
  <2>1. stage \in Unanswered
    BY <1>4, LookupOf, Course DEF Unanswered
  <2>2. Unknown' = Unknown /\ changes' = changes
    BY <1>4, LookupOf, SameNames
  <2>3. \A e \in errors' : e \in errors \/ (e = k /\ stage = Checking(k) /\ Matches(k, Named(k)) = {})
    BY <1>4 DEF SkipName, ResolveName, CheckName
  <2>4. \A e \in errors' : e \in errors \/ e \in Unknown
    BY <2>3 DEF OnCourse, Unknown
  <2> QED
    BY <2>1, <2>2, <2>4 DEF MissesTheUnknown
<1>5. CASE Refuse \/ Propose
  <2>1. stage \in Unanswered
    BY <1>5 DEF Refuse, Propose, Unanswered, Validating
  <2>2. UNCHANGED <<message, entities, project, changes, errors>>
    BY <1>5 DEF Refuse, Propose, kept
  <2> QED
    BY <2>1, <2>2, SameNames DEF MissesTheUnknown
<1>6. CASE Change
  BY <1>6, ChangeCounts DEF MissesTheUnknown
<1>7. CASE UNCHANGED vars
  BY <1>7, SameNames DEF vars, MissesTheUnknown
<1> QED
  BY <1>1, <1>2, <1>3, <1>4, <1>5, <1>6, <1>7 DEF Next, Validate

(* Every step has what was looked up found or missed.                      *)
LEMMA KnownStep ==
  ASSUME TypeOK, OnCourse, FindsTheKnown, [Next]_vars
  PROVE  FindsTheKnown'
<1> DEFINE Decides == changes = 0 /\ ~outage /\ message.project /\ intent # "create_sprint"
           Looked == (Validating \ {"checking_issue"}) \cup {"awaiting"}
           Found(k) == k \in errors \/ (IdKey[k] \in DOMAIN resolved /\ k \notin Unknown)
<1>1. CASE AskToRephrase \/ Decline \/ Confirm \/ ExecuteCreateIssue
             \/ ExecuteUpdateIssue \/ ExecuteCreateSprint
  <2>1. stage' \notin Looked
    BY <1>1, AnsweredSteps DEF Unanswered
  <2> QED
    BY <1>1, <2>1, AnsweredSteps DEF FindsTheKnown
<1>2. CASE Prepare
  <2>1. SUFFICES ASSUME message.project, intent # "create_sprint"
                 PROVE  FindsTheKnown'
    BY <1>2 DEF Prepare, kept, FindsTheKnown, intent
  <2>2. /\ stage' \in {"needs_input", "checking_issue", "resolving_assignee"}
        /\ stage' = "resolving_assignee" => intent # "update_issue"
        /\ message' = message
    BY <1>2, <2>1 DEF Prepare, kept
  <2>3. \A k \in Kinds : stage' # Checking(k) /\ stage' \notin Past(k)
    BY <2>2 DEF Checking, Past
  <2>4. stage' \in Looked => intent' # "update_issue"
    BY <2>2 DEF Validating, intent
  <2>5. stage' \in Looked => Unknown' \cap {"issue"} = {}
    BY <2>4 DEF Unknown, Kinds
  <2> QED
    BY <2>3, <2>5 DEF FindsTheKnown
<1>3. CASE CheckIssue
  <2>1. /\ UNCHANGED <<message, entities, project, changes, resolved>>
        /\ stage' = "resolving_assignee" /\ errors \subseteq errors'
    BY <1>3, LookupOfIssue
  <2>2. \A k \in Kinds : stage' # Checking(k) /\ stage' \notin Past(k)
    BY <2>1 DEF Checking, Past
  <2>3. Unknown' = Unknown
    BY <2>1, SameNames
  <2>4. outage' \/ Unknown \cap {"issue"} \subseteq errors'
    BY <1>3, LookupOfIssue DEF Unknown, Kinds
  <2> QED
    BY <2>2, <2>3, <2>4 DEF FindsTheKnown
<1>4. ASSUME NEW k \in Kinds, SkipName(k) \/ ResolveName(k) \/ CheckName(k)
      PROVE  FindsTheKnown'
  <2>1. UNCHANGED <<message, entities, preview, body, project, changes>>
    BY <1>4, LookupOf
  <2>2. SUFFICES ASSUME Decides, ~outage' PROVE FindsTheKnown'
    <3>1. ~outage' => ~outage
      BY <1>4 DEF SkipName, ResolveName, CheckName, Lookup, TypeOK
    <3> QED
      BY <2>1, <3>1 DEF FindsTheKnown, intent
  <2>3. /\ Unknown' = Unknown
        /\ \A l \in Kinds : Named(l)' = Named(l) /\ Matches(l, Named(l))' = Matches(l, Named(l))
    BY <2>1, SameNames
  <2>4. errors \subseteq errors' /\ DOMAIN resolved \subseteq DOMAIN resolved'
    BY <1>4 DEF SkipName, ResolveName, CheckName, With
  <2>5. Unknown' \cap {"issue"} \subseteq errors'
    <3>1. stage \in Looked
      BY <1>4, LookupOf, Course
    <3> QED
      BY <2>2, <2>3, <2>4, <3>1 DEF FindsTheKnown
  <2>6. ASSUME NEW l \in Kinds, stage' = Checking(l) PROVE Matches(l, Named(l))' = {}
    <3>1. l = k /\ stage = Resolving(k)
      BY <1>4, <2>6, LookupOf, Course
    <3>2. Matches(k, Named(k)) = {}
      BY <1>4, <2>2, <2>6, <3>1, Course DEF SkipName, ResolveName, CheckName, Lookup
    <3> QED
      BY <2>3, <3>1, <3>2
  <2>7. ASSUME NEW l \in Kinds, stage' \in Past(l), Named(l)' # Null PROVE Found(l)'
    <3>1. CASE stage \in Past(l)
      <4>1. Found(l)
        BY <2>2, <2>3, <2>7, <3>1 DEF FindsTheKnown
      <4> QED
        BY <2>3, <2>4, <4>1
    <3>2. CASE stage \notin Past(l)
      <4>1. l = k /\ stage' = After(k)
        BY <1>4, <2>7, <3>2, LookupOf, Course
      <4>2. CASE SkipName(k)
        <5>1. IdKey[k] \in DOMAIN resolved' /\ Named(k) \in Ids
          BY <2>3, <2>7, <4>1, <4>2 DEF SkipName, With
        <5>2. k \notin Unknown
          BY <5>1, NamesAssumption DEF Unknown, Kinds
        <5> QED
          BY <2>3, <4>1, <5>1, <5>2
      <4>3. CASE ResolveName(k)
        <5>1. PICK i \in Matches(k, Named(k)) : resolved' = With(resolved, IdKey[k], Directory(k)[i].id)
          BY <4>1, <4>3, Course DEF ResolveName
        <5>2. IdKey[k] \in DOMAIN resolved'
          BY <5>1 DEF With
        <5>3. k \notin Unknown
          BY <5>1 DEF Unknown, Kinds
        <5> QED
          BY <2>3, <4>1, <5>2, <5>3
      <4>4. CASE CheckName(k)
        <5>1. Matches(k, Named(k)) = {}
          BY <2>2, <4>4 DEF FindsTheKnown, CheckName
        <5>2. k \in errors'
          BY <2>2, <4>4, <5>1 DEF CheckName, Lookup
        <5> QED
          BY <4>1, <5>2
      <4> QED
        BY <1>4, <4>2, <4>3, <4>4
    <3> QED
      BY <3>1, <3>2
  <2> QED
    BY <2>5, <2>6, <2>7 DEF FindsTheKnown
<1>5. CASE Refuse \/ Propose
  <2>1. UNCHANGED <<message, entities, project, changes, errors, resolved, outage>>
    BY <1>5 DEF Refuse, Propose, kept
  <2>2. stage = "validated" /\ stage' \in {"awaiting", "validation_failed"}
    BY <1>5 DEF Refuse, Propose
  <2>3. \A k \in Kinds : stage' # Checking(k) /\ stage \in Past(k)
    BY <2>2 DEF Checking, Past
  <2>4. stage \in Looked /\ (stage' \in Looked => stage' = "awaiting")
    BY <2>2 DEF Validating
  <2>5. Unknown' = Unknown /\ intent' = intent /\ \A k \in Kinds : Named(k)' = Named(k)
    BY <2>1, SameNames
  <2> QED
    BY <2>1, <2>3, <2>4, <2>5 DEF FindsTheKnown
<1>6. CASE Change
  BY <1>6, ChangeCounts DEF FindsTheKnown
<1>7. CASE UNCHANGED vars
  <2>1. /\ Unknown' = Unknown /\ intent' = intent
        /\ \A k \in Kinds : Named(k)' = Named(k) /\ Matches(k, Named(k))' = Matches(k, Named(k))
    BY <1>7, SameNames DEF vars
  <2> QED
    BY <1>7, <2>1 DEF vars, FindsTheKnown
<1> QED
  BY <1>1, <1>2, <1>3, <1>4, <1>5, <1>6, <1>7 DEF Next, Validate

(* An id that a lookup keeps is one of what was named.                     *)
LEMMA KeepsTheNamed ==
  ASSUME OnCourse, NEW k \in Kinds, SkipName(k) \/ ResolveName(k) \/ CheckName(k),
         NEW l \in Kinds, IdKey[l] \in DOMAIN resolved'
  PROVE  \/ IdKey[l] \in DOMAIN resolved /\ resolved'[IdKey[l]] = resolved[IdKey[l]]
         \/ Means(l, Named(l), resolved'[IdKey[l]])
<1>1. CASE UNCHANGED resolved
  BY <1>1
<1>2. ASSUME NEW id, resolved' = With(resolved, IdKey[k], id)
      PROVE  \/ l = k /\ resolved'[IdKey[l]] = id
             \/ IdKey[l] \in DOMAIN resolved /\ resolved'[IdKey[l]] = resolved[IdKey[l]]
  BY <1>2, Course DEF With
<1>3. CASE SkipName(k)
  BY <1>1, <1>2, <1>3 DEF SkipName, Means
<1>4. CASE ResolveName(k)
  <2>1. SUFFICES ASSUME NEW i \in Matches(k, Named(k)), Named(k) \in Names,
                        resolved' = With(resolved, IdKey[k], Directory(k)[i].id)
                 PROVE  \/ IdKey[l] \in DOMAIN resolved /\ resolved'[IdKey[l]] = resolved[IdKey[l]]
                        \/ Means(l, Named(l), resolved'[IdKey[l]])
    BY <1>1, <1>4 DEF ResolveName
  <2>2. Means(k, Named(k), Directory(k)[i].id)
    BY <2>1 DEF Means
  <2> QED
    BY <1>2, <2>1, <2>2
<1> QED
  BY <1>1, <1>3, <1>4 DEF CheckName

(* What a preview names of a kind is among what it shows.                  *)
LEMMA PreviewNames ==
  ASSUME NEW i \in Intents \ {"create_sprint"}, NEW e, NEW k \in Kinds,
         Either(e, k, IdKey[k]) # Null
  PROVE  Either(e, k, IdKey[k]) \in ValuesOf(Preview(i, e), k)
<1> DEFINE v == Either(e, k, IdKey[k])
<1>1. <<k, v>> \in Preview(i, e)
  <2>1. CASE i = "create_issue"
    BY <2>1 DEF Preview, IssuePreview, Mentioned, Kinds, IdKey
  <2>2. CASE i = "update_issue"
    <3>1. k \in DOMAIN LabelOf /\ IdKey[k] \in DOMAIN LabelOf
          /\ LabelOf[k] = k /\ LabelOf[IdKey[k]] = k
      BY DEF LabelOf, Kinds, IdKey
    <3>2. (k \in DOMAIN e /\ v = e[k]) \/ (IdKey[k] \in DOMAIN e /\ v = e[IdKey[k]])
      BY DEF Either, Get
    <3>3. \A q \in DOMAIN LabelOf \cap DOMAIN e : <<LabelOf[q], e[q]>> \in UpdatePreview(e)
      BY DEF UpdatePreview
    <3>4. PICK q \in DOMAIN LabelOf \cap DOMAIN e : LabelOf[q] = k /\ e[q] = v
      BY <3>1, <3>2
    <3>5. <<LabelOf[q], e[q]>> \in UpdatePreview(e)
      BY <3>3
    <3> HIDE DEF v
    <3> QED
      BY <2>2, <3>4, <3>5 DEF Preview
  <2> QED
    BY <2>1, <2>2 DEF Intents
<1> HIDE DEF v
<1>2. v \in {p[2] : p \in {q \in Preview(i, e) : q[1] = k}}
  BY <1>1
<1> QED
  BY <1>2 DEF ValuesOf, v

(* Every step finds what was named, shows it and keeps it.                 *)
LEMMA NamedStep ==
  ASSUME TypeOK, OnCourse, FindsTheNamed, [Next]_vars
  PROVE  FindsTheNamed'
<1>1. CASE AskToRephrase \/ Decline \/ ExecuteCreateIssue \/ ExecuteUpdateIssue \/ ExecuteCreateSprint
  <2>1. stage' \in Failures \cup {"cancelled", "sent", "needs_input"}
    BY <1>1 DEF AskToRephrase, Decline, ExecuteCreateIssue,
       ExecuteUpdateIssue, ExecuteCreateSprint, Send, Fail, Execute, Failures
  <2>2. stage' \notin Unanswered \cup {"awaiting", "executing"}
    BY <2>1 DEF Failures, Unanswered, Validating
  <2> QED
    BY <2>2 DEF FindsTheNamed
<1>2. CASE Prepare
  <2>1. DOMAIN resolved' = {}
    BY <1>2 DEF Prepare, OnCourse
  <2> QED
    BY <2>1 DEF FindsTheNamed
<1>3. CASE CheckIssue
  <2>1. stage \in Unanswered /\ stage' \notin {"awaiting", "executing"}
    BY <1>3, LookupOfIssue DEF Unanswered, Validating
  <2> QED
    BY <1>3, <2>1, LookupOfIssue, SameNames DEF FindsTheNamed
<1>4. ASSUME NEW k \in Kinds, SkipName(k) \/ ResolveName(k) \/ CheckName(k)
      PROVE  FindsTheNamed'
  <2>1. /\ stage \in Unanswered /\ stage \in Validating \ {"validated"}
        /\ stage' \notin {"awaiting", "executing"}
    BY <1>4, LookupOf, Course DEF Unanswered, Validating
  <2>2. UNCHANGED <<message, entities, preview, body, project, changes>>
    BY <1>4, LookupOf
  <2>3. intent' = intent /\ intent # "create_sprint"
    BY <2>1, <2>2, SameNames DEF OnCourse
  <2>4. ASSUME changes = 0, NEW l \in Kinds, IdKey[l] \in DOMAIN resolved'
        PROVE  Means(l, Named(l), resolved'[IdKey[l]])
    BY <1>4, <2>1, <2>4, KeepsTheNamed DEF FindsTheNamed
  <2>5. \A l \in Kinds : \A id : Means(l, Named(l), id)' <=> Means(l, Named(l), id)
    BY <2>2, SameNames
  <2> QED
    BY <2>1, <2>2, <2>3, <2>4, <2>5, SameNames DEF FindsTheNamed
<1>5. CASE Refuse
  <2>1. /\ UNCHANGED <<message, entities, project, changes, resolved>>
        /\ stage \in Unanswered /\ stage' \notin {"awaiting", "executing"}
    BY <1>5 DEF Refuse, kept, Unanswered, Validating
  <2> QED
    BY <2>1, SameNames DEF FindsTheNamed
<1>6. CASE Propose
  <2>1. /\ UNCHANGED <<message, entities, project, changes, resolved>>
        /\ stage \in Unanswered /\ stage' = "awaiting"
        /\ preview' = Preview(intent, entities)
    BY <1>6 DEF Propose, kept, Unanswered, Validating
  <2>2. SUFFICES ASSUME changes = 0, NEW k \in Kinds, IdKey[k] \in DOMAIN resolved
                 PROVE  \E n \in Previewed(k)' : Means(k, n, resolved[IdKey[k]])
    BY <2>1, SameNames DEF FindsTheNamed
  <2>3. intent # "create_sprint" /\ Means(k, Named(k), resolved[IdKey[k]])
    BY <2>1, <2>2 DEF FindsTheNamed
  <2>4. resolved[IdKey[k]] \in Ids
    BY <2>2 DEF TypeOK
  <2>5. Named(k) # Null
    BY <2>3, <2>4, MessagesAssumption DEF Means
  <2>6. Named(k) \in ValuesOf(Preview(intent, entities), k)
    BY <2>3, <2>5, MessageType, PreviewNames DEF Named
  <2> QED
    BY <2>1, <2>3, <2>6 DEF Previewed
<1>7. CASE Confirm
  <2>1. /\ UNCHANGED <<message, project, changes, resolved, preview>>
        /\ stage = "awaiting" /\ stage' = "executing" /\ entities' = Over(resolved, entities)
    BY <1>7 DEF Confirm, kept, Merged
  <2>2. \A l \in DOMAIN resolved : Get(entities', l) = resolved[l]
    BY <2>1, OverGet
  <2>3. stage' \notin Unanswered
    BY <2>1 DEF Unanswered, Validating
  <2>4. \A k \in Kinds : \A n, id : Means(k, n, id)' <=> Means(k, n, id)
    BY <2>1 DEF Means, Matches, Directory, project
  <2> QED
    BY <2>1, <2>2, <2>3, <2>4 DEF FindsTheNamed, Previewed
<1>8. CASE Change
  BY <1>8, ChangeCounts DEF FindsTheNamed
<1>9. CASE UNCHANGED vars
  BY <1>9, SameNames DEF vars, FindsTheNamed, Previewed
<1> QED
  BY <1>1, <1>2, <1>3, <1>4, <1>5, <1>6, <1>7, <1>8, <1>9 DEF Next, Validate

(* A body carries the ids the entities have.                               *)
LEMMA BodyIds ==
  ASSUME NEW e, NEW k \in Kinds, Get(e, IdKey[k]) # Null
  PROVE  /\ \A s : k \in DOMAIN IssueBody(e, s) /\ IssueBody(e, s)[k] = Get(e, IdKey[k])
         /\ \A n : /\ k \in DOMAIN With(UpdateBody(e), "issue", n)
                   /\ With(UpdateBody(e), "issue", n)[k] = Get(e, IdKey[k])
<1>1. /\ k \in {"title", "assignee", "sprint"} /\ k \notin {"type", "priority", "status", "issue"}
      /\ {"title", "assignee", "sprint"} \subseteq DOMAIN KeyOf /\ KeyOf[k] = IdKey[k]
  BY DEF Kinds, KeyOf, IdKey
<1>2. \A fields \in SUBSET DOMAIN KeyOf :
        k \in fields => k \in DOMAIN Given(e, fields) /\ Given(e, fields)[k] = Get(e, IdKey[k])
  BY <1>1, GivenFacts
<1>3. ASSUME NEW s
      PROVE  k \in DOMAIN IssueBody(e, s) /\ IssueBody(e, s)[k] = Get(e, IdKey[k])
  <2> DEFINE g == Given(e, {"title", "assignee", "sprint"})
             h == [type |-> Default(Get(e, "type"), "task"),
                   priority |-> Default(Get(e, "priority"), "medium"),
                   status |-> Default(Get(e, "status_id"), s)]
  <2>1. k \in DOMAIN g /\ g[k] = Get(e, IdKey[k]) /\ k \notin DOMAIN h
    BY <1>1, <1>2
  <2>2. IssueBody(e, s) = Over(h, g)
    BY DEF IssueBody
  <2> HIDE DEF g, h
  <2> QED
    BY <2>1, <2>2 DEF Over
<1>4. ASSUME NEW n
      PROVE  /\ k \in DOMAIN With(UpdateBody(e), "issue", n)
             /\ With(UpdateBody(e), "issue", n)[k] = Get(e, IdKey[k])
  <2>1. k \in DOMAIN UpdateBody(e) /\ UpdateBody(e)[k] = Get(e, IdKey[k])
    BY <1>1, <1>2 DEF UpdateBody
  <2> QED
    BY <1>1, <2>1 DEF With
<1> QED
  BY <1>3, <1>4

(* What is sent carries the ids that were found.                           *)
LEMMA ResolvedStep ==
  ASSUME TypeOK, FindsTheNamed, ResolvedAsPreviewed, [Next]_vars
  PROVE  ResolvedAsPreviewed'
<1>1. CASE stage' # "sent"
  BY <1>1 DEF ResolvedAsPreviewed
<1>2. CASE Change
  BY <1>2, ChangeCounts DEF ResolvedAsPreviewed
<1>3. CASE UNCHANGED vars
  BY <1>3, SameNames DEF vars, ResolvedAsPreviewed, Previewed, intent, project,
     Matches, Directory
<1>4. CASE stage' = "sent" /\ ~Change /\ ~UNCHANGED vars
  <2>1. ExecuteCreateIssue \/ ExecuteUpdateIssue \/ ExecuteCreateSprint
    BY <1>4, LookupOf, LookupOfIssue, Course DEF Next, AskToRephrase, Prepare, Validate,
       Refuse, Propose, Decline, Confirm, Validating
  <2>2. /\ UNCHANGED <<message, entities, project, changes, resolved, preview>>
        /\ stage = "executing" /\ intent' = intent
    BY <1>4, <2>1 DEF ExecuteCreateIssue, ExecuteUpdateIssue, ExecuteCreateSprint,
       Send, Fail, Execute, kept, intent
  <2>3. SUFFICES ASSUME intent # "create_sprint", changes = 0,
                        NEW k \in Kinds, IdKey[k] \in DOMAIN resolved
                 PROVE  /\ k \in DOMAIN body'
                        /\ \/ body'[k] \in Previewed(k)
                           \/ \E n \in Previewed(k) \cap Names :
                                \E i \in Matches(k, n) : Directory(k)[i].id = body'[k]
    BY <2>2 DEF ResolvedAsPreviewed, Previewed, Matches, Directory, project
  <2> DEFINE id == resolved[IdKey[k]]
  <2>4. /\ Get(entities, IdKey[k]) = id /\ id \in Ids
        /\ \E n \in Previewed(k) : Means(k, n, id)
    BY <2>2, <2>3 DEF FindsTheNamed, TypeOK
  <2> HIDE DEF id
  <2>5. Get(entities, IdKey[k]) # Null
    BY <2>4, MessagesAssumption
  <2>6. k \in DOMAIN body' /\ body'[k] = id
    <3>1. CASE ExecuteCreateIssue
      <4>1. body' = IssueBody(entities, "default")
        BY <1>4, <3>1 DEF ExecuteCreateIssue, Send, Fail, Execute
      <4> QED
        BY <2>4, <2>5, <4>1, BodyIds
    <3>2. CASE ExecuteUpdateIssue
      <4>1. body' = With(UpdateBody(entities), "issue", Number)
        BY <1>4, <3>2 DEF ExecuteUpdateIssue, Send, Fail, Execute
      <4> QED
        BY <2>4, <2>5, <4>1, BodyIds
    <3>3. ~ExecuteCreateSprint
      BY <2>3 DEF ExecuteCreateSprint, Send, Fail, Execute
    <3> QED
      BY <2>1, <3>1, <3>2, <3>3
  <2> QED
    BY <2>4, <2>6 DEF Means
<1> QED
  BY <1>1, <1>2, <1>3, <1>4

(* Every step keeps what is known of the lookups.                          *)
LEMMA LookupsStep == TypeOK /\ Lookups /\ [Next]_vars => Lookups'
BY OnCourseStep, MissesStep, KnownStep, NamedStep, ResolvedStep DEF Lookups

(* Types, and what preview and body are derived from, hold in every state. *)
THEOREM WriteInvariant == Spec => []IndInv
<1>1. Init => IndInv
  BY TypeInit, RestInit, LookupsInit DEF IndInv, Rest, Lookups
<1>2. IndInv /\ [Next]_vars => IndInv'
  BY TypeStep, RestStep, LookupsStep DEF IndInv, Rest, Lookups
<1> QED
  BY <1>1, <1>2, PTL DEF Spec

(* What the user confirmed of a type, a priority, an update's title and    *)
(* issue and a sprint's name is what Node is sent.                         *)
THEOREM PreviewIsExecuted == Spec => []PostedAsPreviewed
<1>1. IndInv => PostedAsPreviewed
  BY DEF IndInv
<1> QED
  BY <1>1, WriteInvariant, PTL

(* An issue is created under the title of the message, of which exactly    *)
(* the tokens that are invented altogether are gone.                       *)
THEOREM TitlesArePruned == Spec => []TitleIsPruned
<1>1. IndInv => TitleIsPruned
  BY DEF IndInv
<1> QED
  BY <1>1, WriteInvariant, PTL

(* Conventions never replace a priority the user gave.                     *)
THEOREM GivenPrioritiesArePosted == Spec => []GivenPriorityWins
<1>1. IndInv => GivenPriorityWins
  BY DEF IndInv
<1> QED
  BY <1>1, WriteInvariant, PTL

(* A refusal is justified, and where no lookup failed a proposal knows      *)
(* everything it names: what an assignee and a sprint that are named stand *)
(* for, and an update's issue.                                             *)
THEOREM ValidationIsRight == Spec => []ValidationDecides
<1>1. IndInv => ValidationDecides
  <2> SUFFICES ASSUME IndInv, changes = 0, message.project, intent # "create_sprint"
               PROVE  /\ stage = "validation_failed" => errors # {} /\ errors \subseteq Unknown
                      /\ stage = "awaiting" /\ ~outage =>
                           /\ Unknown = {}
                           /\ \A k \in Kinds : Named(k) # Null => IdKey[k] \in DOMAIN resolved
    BY DEF ValidationDecides
  <2> USE DEF IndInv
  <2>1. stage = "validation_failed" => errors # {} /\ errors \subseteq Unknown
    BY DEF OnCourse, MissesTheUnknown, Unanswered
  <2>2. SUFFICES ASSUME stage = "awaiting", ~outage
                 PROVE  /\ Unknown = {}
                        /\ \A k \in Kinds : Named(k) # Null => IdKey[k] \in DOMAIN resolved
    BY <2>1
  <2>3. errors = {} /\ Unknown \cap {"issue"} = {}
    BY <2>2 DEF OnCourse, FindsTheKnown
  <2>4. \A k \in Kinds : Named(k) # Null => IdKey[k] \in DOMAIN resolved /\ k \notin Unknown
    BY <2>2, <2>3 DEF FindsTheKnown, Past
  <2>5. \A u \in Unknown : u = "issue" \/ (u \in Kinds /\ Named(u) # Null)
    BY MessagesAssumption DEF Unknown
  <2> QED
    BY <2>3, <2>4, <2>5
<1> QED
  BY <1>1, WriteInvariant, PTL

(* The id that validation found, under the name the user confirmed, is the *)
(* one Node is sent.                                                       *)
THEOREM FoundIdsArePosted == Spec => []ResolvedAsPreviewed
<1>1. IndInv => ResolvedAsPreviewed
  BY DEF IndInv
<1> QED
  BY <1>1, WriteInvariant, PTL
=============================================================================
