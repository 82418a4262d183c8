---------------------------- MODULE ReadTurnProofs ----------------------------
(* Theorems about ReadTurn, for every sprint, its issues and statuses, and *)
(* however Node, the models and the other calls behave.                    *)
EXTENDS ReadTurn, SumProofs

-----------------------------------------------------------------------------
(* A summary adds up. *)

(* The labels and the figures of a tally, and what the figures sum up to.  *)
LEMMA TallySums ==
  ASSUME NEW C, IsFiniteSet(DOMAIN C), NEW U, IsFiniteSet(U),
         \A l \in DOMAIN C : C[l] \subseteq U,
         \A l, m \in DOMAIN C : l # m => C[l] \cap C[m] = {}
  PROVE  LET t == Tally(C)
         IN  /\ DOMAIN t = {l \in DOMAIN C : C[l] # {}}
             /\ \A l \in DOMAIN t : t[l] = Cardinality(C[l])
             /\ \A F \in SUBSET DOMAIN t :
                  IsFiniteSet(F) /\ Total(t, F) = Cardinality(UNION {C[l] : l \in F})
             /\ SumOf(t) = Cardinality(UNION {C[l] : l \in DOMAIN C})
<1> DEFINE t == Tally(C)
<1>1. DOMAIN t = {l \in DOMAIN C : C[l] # {}} /\ \A l \in DOMAIN t : t[l] = Cardinality(C[l])
  BY DEF Tally
<1> HIDE DEF t
<1>2. ASSUME NEW F \in SUBSET DOMAIN t
      PROVE  IsFiniteSet(F) /\ Total(t, F) = Cardinality(UNION {C[l] : l \in F})
  <2>1. IsFiniteSet(F) /\ F \subseteq DOMAIN C
    BY <1>1, FS_Subset
  <2> QED
    BY <1>1, <2>1, SumOfSizes
<1>3. UNION {C[l] : l \in DOMAIN t} = UNION {C[l] : l \in DOMAIN C}
  BY <1>1
<1>4. SumOf(t) = Cardinality(UNION {C[l] : l \in DOMAIN C})
  BY <1>2, <1>3 DEF SumOf
<1> QED
  BY <1>1, <1>2, <1>4 DEF t

InStatus(is, c) == {i \in DOMAIN is : is[i].status = c}

(* The segments of the status: each issue is in one.                       *)
LEMMA StatusAddsUp ==
  ASSUME NEW is, IsFiniteSet(DOMAIN is), NEW cs \in SUBSET Statuses
  PROVE  LET seg == StatusSegments(is, cs)
             fin == {c \in DOMAIN seg : c # Other /\ Category[c] = "done"}
         IN  /\ SumOf(seg) = Cardinality(DOMAIN is)
             /\ SumOf([c \in fin |-> seg[c]]) <= DoneOf(is, cs)
             /\ DOMAIN is # {} => DOMAIN seg # {}
             /\ \A c \in cs :
                  LET n == Cardinality(InStatus(is, c))
                  IN  IF n = 0 THEN c \notin DOMAIN seg ELSE c \in DOMAIN seg /\ seg[c] = n
<1> DEFINE C == [l \in cs \cup {Other} |->
                   {i \in DOMAIN is : IF l = Other THEN is[i].status \notin cs
                                      ELSE is[i].status = l}]
           seg == StatusSegments(is, cs)
           fin == {c \in DOMAIN seg : c # Other /\ Category[c] = "done"}
<1>1. Other \notin cs
  BY ReadAssumption
<1>2. IsFiniteSet(DOMAIN C)
  <2>1. IsFiniteSet(cs)
    BY ReadAssumption, FS_Subset
  <2>2. IsFiniteSet(cs \cup {Other})
    BY <2>1, FS_AddElement
  <2> QED
    BY <2>2
<1>3. /\ \A l \in DOMAIN C : C[l] \subseteq DOMAIN is
      /\ \A l, m \in DOMAIN C : l # m => C[l] \cap C[m] = {}
  BY <1>1
<1>4. UNION {C[l] : l \in DOMAIN C} = DOMAIN is
  <2>1. \A i \in DOMAIN is : \E l \in DOMAIN C : i \in C[l]
    BY <1>1
  <2> HIDE DEF C
  <2> QED
    BY <1>3, <2>1
<1>5. \A c \in cs : c \in DOMAIN C /\ C[c] = {i \in DOMAIN is : is[i].status = c}
  BY <1>1
<1>6. seg = Tally(C)
  BY DEF StatusSegments
<1> HIDE DEF seg, C
<1>7. /\ DOMAIN seg = {l \in DOMAIN C : C[l] # {}}
      /\ \A l \in DOMAIN seg : seg[l] = Cardinality(C[l])
      /\ \A F \in SUBSET DOMAIN seg :
           IsFiniteSet(F) /\ Total(seg, F) = Cardinality(UNION {C[l] : l \in F})
      /\ SumOf(seg) = Cardinality(DOMAIN is)
  BY <1>2, <1>3, <1>4, <1>6, TallySums
<1>8. SumOf([c \in fin |-> seg[c]]) <= DoneOf(is, cs)
  <2> DEFINE g == [c \in fin |-> seg[c]]
             D == {i \in DOMAIN is : IsDone(is[i], cs)}
  <2>1. fin \in SUBSET DOMAIN seg
    OBVIOUS
  <2>2. DOMAIN g = fin /\ \A c \in fin : g[c] = seg[c]
    OBVIOUS
  <2> HIDE DEF g
  <2>3. SumOf(g) = Cardinality(UNION {C[l] : l \in fin})
    <3>1. IsFiniteSet(fin) /\ Total(seg, fin) = Cardinality(UNION {C[l] : l \in fin})
      BY <1>7, <2>1
    <3>2. Total(g, fin) = Total(seg, fin)
      BY <2>2, <3>1, SumSame
    <3> QED
      BY <2>2, <3>1, <3>2 DEF SumOf
  <2>4. \A l \in fin : C[l] \subseteq D
    <3>1. \A l \in DOMAIN C : l # Other => l \in cs
      BY DEF C
    <3>2. \A l \in fin : l \in cs /\ Category[l] = "done"
      BY <1>7, <3>1
    <3> QED
      BY <1>5, <3>2 DEF IsDone
  <2>5. UNION {C[l] : l \in fin} \in SUBSET D /\ D \in SUBSET DOMAIN is
    BY <2>4
  <2> HIDE DEF D
  <2>6. IsFiniteSet(D)
    BY <2>5, FS_Subset
  <2>7. Cardinality(UNION {C[l] : l \in fin}) <= Cardinality(D)
    BY <2>5, <2>6, FS_Subset
  <2> QED
    BY <2>3, <2>7 DEF DoneOf, D, g
<1>9. DOMAIN is # {} => DOMAIN seg # {}
  BY <1>4, <1>7
<1>10. ASSUME NEW c \in cs
       PROVE  LET n == Cardinality(InStatus(is, c))
              IN  IF n = 0 THEN c \notin DOMAIN seg ELSE c \in DOMAIN seg /\ seg[c] = n
  <2>1. C[c] \in SUBSET DOMAIN is /\ c \in DOMAIN C
    BY <1>3, <1>5
  <2>2. IsFiniteSet(C[c])
    BY <2>1, FS_Subset
  <2>3. Cardinality(C[c]) = 0 <=> C[c] = {}
    BY <2>2, FS_EmptySet
  <2> QED
    BY <1>5, <1>7, <2>1, <2>3 DEF InStatus
<1> QED
  BY <1>7, <1>8, <1>9, <1>10 DEF seg

(* The segments of the priority: each issue is in one at most.             *)
LEMMA PriorityAddsUp ==
  ASSUME NEW is, IsFiniteSet(DOMAIN is)
  PROVE  SumOf(PrioritySegments(is)) <= Cardinality(DOMAIN is)
<1> DEFINE C == [l \in Severities |-> {i \in DOMAIN is : Priority[i] = l}]
           all == UNION {C[l] : l \in DOMAIN C}
<1>1. /\ IsFiniteSet(DOMAIN C)
      /\ \A l \in DOMAIN C : C[l] \subseteq DOMAIN is
      /\ \A l, m \in DOMAIN C : l # m => C[l] \cap C[m] = {}
  BY ReadAssumption
<1>2. all \in SUBSET DOMAIN is
  OBVIOUS
<1>3. PrioritySegments(is) = Tally(C)
  BY DEF PrioritySegments
<1> HIDE DEF C
<1>4. SumOf(Tally(C)) = Cardinality(all)
  BY <1>1, TallySums
<1>5. Cardinality(all) <= Cardinality(DOMAIN is)
  BY <1>2, FS_Subset
<1> QED
  BY <1>3, <1>4, <1>5

(* The figures of the text and of the blocks, of whatever was read.        *)
LEMMA TextAndBlocksAddUp ==
  ASSUME NEW s, NEW is, IsFiniteSet(DOMAIN is), NEW cs \in SUBSET Statuses
  PROVE  AddsUp(TextOf(s, is, cs), BlocksOf(is, cs))
<1> DEFINE f == TextOf(s, is, cs)
           seg == StatusSegments(is, cs)
           pri == PrioritySegments(is)
           fin == {c \in DOMAIN seg : c # Other /\ Category[c] = "done"}
           n == Cardinality(DOMAIN is)
           done == DoneOf(is, cs)
           blocks == BlocksOf(is, cs)
<1>1. f.status = seg /\ f.priority = pri /\ f.total = n /\ f.done = done
  BY DEF TextOf
<1>2. /\ SumOf(seg) = n /\ SumOf([c \in fin |-> seg[c]]) <= done
      /\ DOMAIN is # {} => DOMAIN seg # {}
  BY StatusAddsUp
<1>3. SumOf(pri) <= n
  BY PriorityAddsUp
<1>4. n \in Nat /\ done \in Nat /\ done <= n
  <2>1. {i \in DOMAIN is : IsDone(is[i], cs)} \in SUBSET DOMAIN is
    OBVIOUS
  <2>2. /\ IsFiniteSet({i \in DOMAIN is : IsDone(is[i], cs)})
        /\ Cardinality({i \in DOMAIN is : IsDone(is[i], cs)}) <= n
    BY <2>1, FS_Subset
  <2> QED
    BY <2>2, FS_CardinalityType DEF DoneOf
<1>5. n > 0 => DOMAIN is # {}
  BY FS_EmptySet
<1> HIDE DEF f, seg, pri, n, done
<1>6. \A b \in blocks : b.type = "breakdown" => b.segments \in {seg, pri}
  BY DEF BlocksOf, ProgressBlock, Breakdown, seg, pri
<1>7. DOMAIN is # {} => \E b \in blocks : b.type = "breakdown" /\ b.dimension = "status"
  <2> SUFFICES ASSUME DOMAIN is # {}
               PROVE  \E b \in blocks : b.type = "breakdown" /\ b.dimension = "status"
    OBVIOUS
  <2> DEFINE b == [type |-> "breakdown", dimension |-> "status", segments |-> seg]
  <2>1. is # <<>> /\ seg # <<>>
    BY <1>2
  <2>2. b \in blocks
    BY <2>1 DEF BlocksOf, Breakdown, seg
  <2>3. b.type = "breakdown" /\ b.dimension = "status"
    OBVIOUS
  <2> HIDE DEF b, blocks
  <2> QED
    BY <2>2, <2>3
<1> HIDE DEF blocks
<1>8. \A b \in blocks : b.type = "breakdown" => SumOf(b.segments) <= n
  BY <1>2, <1>3, <1>4, <1>6
<1>9. AddsUp(f, blocks)
  BY <1>1, <1>2, <1>3, <1>4, <1>5, <1>7, <1>8 DEF AddsUp
<1> QED
  BY <1>9 DEF f, blocks

-----------------------------------------------------------------------------
(* The statistics. *)

(* A product grows with its factors.                                       *)
LEMMA TimesGrows == \A a, b, c \in Nat : a <= b => c * a <= c * b /\ a * c <= b * c
<1> SUFFICES ASSUME NEW a \in Nat, NEW b \in Nat, NEW c \in Nat, a <= b
             PROVE  c * a <= c * b /\ a * c <= b * c
  OBVIOUS
<1>1. PICK d \in Nat : b = a + d
  <2>1. b - a \in Nat /\ b = a + (b - a)
    OBVIOUS
  <2> QED
    BY <2>1
<1>2. c * b = c * a + c * d /\ b * c = a * c + d * c
  BY <1>1
<1>3. c * d \in Nat /\ d * c \in Nat /\ c * a \in Nat /\ a * c \in Nat
  OBVIOUS
<1> QED
  BY <1>2, <1>3

(* The samples after one more: the new one is the last, and the first is   *)
(* dropped if there were Window of them.                                   *)
LEMMA RecordedSamples ==
  ASSUME NEW q \in Seq(Durations), Len(q) <= Window, NEW ms \in Durations
  PROVE  LET all == Append(q, ms)
             r == IF Len(all) > Window THEN Tail(all) ELSE all
             d == IF Len(all) > Window THEN 1 ELSE 0
         IN  /\ r \in Seq(Durations) /\ Len(r) = Len(q) + 1 - d
             /\ r[Len(r)] = ms
             /\ \A k \in DOMAIN r : k # Len(r) => k + d \in DOMAIN q /\ r[k] = q[k + d]
<1> DEFINE all == Append(q, ms)
           r == IF Len(all) > Window THEN Tail(all) ELSE all
           d == IF Len(all) > Window THEN 1 ELSE 0
<1>1. /\ all \in Seq(Durations) /\ Len(all) = Len(q) + 1 /\ Len(q) \in Nat
      /\ \A k \in 1 .. Len(q) + 1 : all[k] = IF k = Len(q) + 1 THEN ms ELSE q[k]
  OBVIOUS
<1>2. Window \in Nat \ {0}
  BY ReadAssumption
<1> HIDE DEF all
<1>3. CASE Len(all) > Window
  <2>1. /\ Tail(all) \in Seq(Durations) /\ Len(Tail(all)) = Len(q)
        /\ \A k \in 1 .. Len(q) : Tail(all)[k] = all[k + 1]
    BY <1>1, <1>2
  <2>2. r = Tail(all) /\ d = 1
    BY <1>3
  <2> HIDE DEF r, d
  <2> QED
    BY <1>1, <1>2, <2>1, <2>2 DEF all
<1>4. CASE ~(Len(all) > Window)
  <2>1. r = all /\ d = 0
    BY <1>4
  <2> HIDE DEF r, d
  <2> QED
    BY <1>1, <1>2, <2>1 DEF all
<1> QED
  BY <1>3, <1>4

(* The end of a call keeps what the statistics add up to.                  *)
LEMMA RecordStep ==
  ASSUME TypeOK, StatsAddUp, NEW ms \in Durations, Recorded(ms)
  PROVE  /\ StatsAddUp' /\ stats'.count = stats.count + 1 /\ since' \in 0 .. Window
         /\ Len(stats'.samples) = Smaller(stats'.count, Window)
<1> DEFINE q == stats.samples
           all == Append(q, ms)
           r == IF Len(all) > Window THEN Tail(all) ELSE all
           d == IF Len(all) > Window THEN 1 ELSE 0
           M == Larger(stats.max, ms)
<1>1. /\ stats.count \in Nat /\ stats.total \in Nat /\ stats.max \in Nat /\ q \in Seq(Durations)
      /\ stats.total <= stats.count * stats.max /\ since <= stats.count
      /\ \A k \in DOMAIN q :
           /\ q[k] <= stats.max
           /\ k > Len(q) - since => \E e \in Durations : q[k] < e
  BY DEF StatsAddUp
<1>2. /\ Window \in Nat \ {0} /\ ms \in Nat /\ Durations \subseteq Nat
      /\ since \in 0 .. Window /\ Len(q) = Smaller(stats.count, Window)
  BY ReadAssumption DEF TypeOK
<1>3. /\ stats' = [count |-> stats.count + 1, total |-> stats.total + ms, max |-> M, samples |-> r]
      /\ since' = IF \A e \in Durations : e <= ms THEN 0
                  ELSE IF since < Window THEN since + 1 ELSE since
  BY DEF Recorded, Record
<1>4. /\ stats'.count = stats.count + 1 /\ stats'.total = stats.total + ms
      /\ stats'.max = M /\ stats'.samples = r
  BY <1>3
<1>5. M \in Nat /\ stats.max <= M /\ ms <= M
  BY <1>1, <1>2 DEF Larger
<1>6. Len(q) <= Window /\ Len(q) \in Nat /\ Len(q) <= stats.count
      /\ (Len(q) < Window => Len(q) = stats.count)
  BY <1>1, <1>2 DEF Smaller
<1>7. /\ r \in Seq(Durations) /\ Len(r) = Len(q) + 1 - d
      /\ r[Len(r)] = ms
      /\ \A k \in DOMAIN r : k # Len(r) => k + d \in DOMAIN q /\ r[k] = q[k + d]
  BY <1>1, <1>2, <1>6, RecordedSamples
<1>8. d = IF Len(q) = Window THEN 1 ELSE 0
  BY <1>1, <1>2, <1>6
<1> HIDE DEF q, all, r, d, M
<1>9. Len(r) = Smaller(stats.count + 1, Window)
  BY <1>1, <1>2, <1>6, <1>7, <1>8 DEF Smaller
<1>10. stats.total + ms <= (stats.count + 1) * M
  <2> DEFINE c == stats.count
             t == stats.total
             m == stats.max
  <2>1. c \in Nat /\ t \in Nat /\ m \in Nat /\ t <= c * m
    BY <1>1
  <2> HIDE DEF c, t, m
  <2>2. c * m <= c * M
    BY <1>5, <2>1, TimesGrows DEF m
  <2>3. (c + 1) * M = c * M + M /\ c * M \in Nat /\ c * m \in Nat
    BY <1>5, <2>1
  <2>4. t + ms <= (c + 1) * M
    BY <1>2, <1>5, <2>1, <2>2, <2>3
  <2> QED
    BY <2>4 DEF c, t
<1>11. since' \in 0 .. Window /\ since' <= stats.count + 1
  BY <1>1, <1>2, <1>3
<1>12. \A k \in DOMAIN r : k \in 1 .. Len(r)
  BY <1>7
<1>13. \A k \in DOMAIN q : k \in 1 .. Len(q) /\ q[k] \in Durations
  BY <1>1
<1>14. ASSUME NEW k \in DOMAIN r PROVE r[k] <= M
  <2>1. k = Len(r) => r[k] <= M
    BY <1>5, <1>7
  <2>2. CASE k # Len(r)
    <3>1. k + d \in DOMAIN q /\ r[k] = q[k + d]
      BY <1>7, <2>2
    <3>2. q[k + d] <= stats.max /\ q[k + d] \in Nat
      BY <1>1, <1>2, <1>13, <3>1
    <3> QED
      BY <1>1, <1>5, <3>1, <3>2
  <2> QED
    BY <2>1, <2>2
<1>15. ASSUME NEW k \in DOMAIN r, k > Len(r) - since'
       PROVE  \E e \in Durations : r[k] < e
  <2>1. since' # 0 /\ ~(\A e \in Durations : e <= ms)
    BY <1>3, <1>7, <1>8, <1>6, <1>12, <1>15
  <2>2. PICK e \in Durations : ms < e
    BY <1>2, <2>1
  <2>3. k = Len(r) => r[k] < e
    BY <1>7, <2>2
  <2>4. CASE k # Len(r)
    <3>1. k + d \in DOMAIN q /\ r[k] = q[k + d]
      BY <1>7, <2>4
    <3>2. since' = IF since < Window THEN since + 1 ELSE since
      BY <1>3, <2>1
    <3>3. k + d > Len(q) - since
      BY <1>2, <1>6, <1>7, <1>8, <1>12, <1>15, <3>2
    <3> QED
      BY <1>1, <3>1, <3>3
  <2> QED
    BY <2>3, <2>4
<1>16. StatsAddUp'
  <2>1. stats' \in [count : Nat, total : Nat, max : Nat, samples : Seq(Durations)]
    BY <1>1, <1>2, <1>3, <1>5, <1>7
  <2> QED
    BY <1>4, <1>10, <1>11, <1>14, <1>15, <2>1 DEF StatsAddUp
<1> QED
  BY <1>4, <1>9, <1>11, <1>16

-----------------------------------------------------------------------------
(* The turn. *)

(* Which agent an intent is routed to.                                     *)
LEMMA Routes ==
  \A i : /\ Agent(i) = "summarize_agent" <=> i = "SUMMARIZE"
         /\ Agent(i) = "sprint_agent" <=> i = "QUERY_SPRINT"
         /\ Agent(i) \in ReAct => i # "SUMMARIZE"
BY DEF Agent, ReAct

(* A reply that is a text.                                                 *)
LEMMA TextFacts ==
  ASSUME NEW says \in {"none", "plain", "mentions", "admits", "absent"}, NEW caveat \in BOOLEAN
  PROVE  LET r == Text(says, caveat)
         IN  IsReply(r) /\ r.says = says /\ r.caveat = caveat /\ r.figures = None
BY DEF Text, IsReply

(* What stands for no reply yet.                                           *)
LEMMA NoReplyFacts == IsReply(NoReply) /\ NoReply.says = "none" /\ NoReply.figures = None
BY TextFacts DEF NoReply

(* What finalize_react_reply makes of a failed call: an admission, or a    *)
(* text that has one of its words.                                         *)
LEMMA FinalizeFacts ==
  ASSUME NEW says \in {"plain", "mentions", "admits"}, NEW calls
  PROVE  /\ IsReply(Finalize(says, calls)) /\ Finalize(says, calls).figures = None
         /\ Finalize(says, calls).says = says
         /\ ToolErrorInTrace(calls) => Admits(Finalize(says, calls)) \/ says = "mentions"
<1> DEFINE caveat == ToolErrorInTrace(calls) /\ ~AlreadyFlagsFailure(says)
<1>1. caveat \in BOOLEAN /\ Finalize(says, calls) = Text(says, caveat)
  BY DEF Finalize
<1>2. ToolErrorInTrace(calls) => caveat \/ says \in {"admits", "mentions"}
  BY DEF AlreadyFlagsFailure
<1> HIDE DEF caveat
<1>3. /\ IsReply(Finalize(says, calls)) /\ Finalize(says, calls).figures = None
      /\ Finalize(says, calls).says = says /\ Finalize(says, calls).caveat = caveat
  BY <1>1, TextFacts
<1> QED
  BY <1>2, <1>3 DEF Admits

(* Another set of blocks leaves the text.                                  *)
LEMMA OtherBlocks ==
  ASSUME NEW r, IsReply(r), NEW b
  PROVE  LET s == [r EXCEPT !.blocks = b]
         IN  /\ IsReply(s) /\ s.says = r.says /\ s.caveat = r.caveat
             /\ s.figures = r.figures /\ s.blocks = b
BY DEF IsReply

(* What an agent says has no figures.                                      *)
LEMMA NoFigures ==
  ASSUME AgentAnswers \/ AgentRaises \/ FetchFails
  PROVE  reply'.figures = None
<1>1. CASE AgentAnswers
  <2>1. PICK says \in {"plain", "mentions", "admits"} :
          reply' = IF Agent(intent) = "sprint_agent" THEN Text(says, FALSE)
                   ELSE Finalize(says, trace)
    BY <1>1 DEF AgentAnswers, Say
  <2>2. Text(says, FALSE).figures = None /\ Finalize(says, trace).figures = None
    BY TextFacts, FinalizeFacts
  <2> QED
    BY <2>1, <2>2
<1>2. CASE AgentRaises
  BY <1>2, TextFacts DEF AgentRaises, Say
<1>3. CASE FetchFails
  BY <1>3, TextFacts DEF FetchFails, Say
<1> QED
  BY <1>1, <1>2, <1>3

(* The blocks are made of the reply, and nothing else of it.               *)
LEMMA BlocksOnly ==
  ASSUME TypeOK, Emit \/ Edge
  PROVE  /\ at \in {"emit", "edge"} /\ UNCHANGED <<trace, intent>>
         /\ reply.says # "none" /\ IsReply(reply') /\ reply'.says = reply.says
         /\ reply'.caveat = reply.caveat /\ reply'.figures = reply.figures
         /\ Edge => reply'.blocks = WireBlocks(reply)
<1>1. /\ IsReply(reply) /\ at \in {"emit", "edge"} /\ UNCHANGED <<trace, intent>>
      /\ reply.says # "none"
  BY DEF Emit, Edge, TypeOK
<1>2. CASE UNCHANGED reply /\ ~Edge
  BY <1>1, <1>2
<1>3. ASSUME NEW b, reply' = [reply EXCEPT !.blocks = b]
      PROVE  /\ IsReply(reply') /\ reply'.says = reply.says /\ reply'.blocks = b
             /\ reply'.caveat = reply.caveat /\ reply'.figures = reply.figures
  BY <1>1, <1>3, OtherBlocks
<1>4. CASE Edge
  BY <1>1, <1>3, <1>4 DEF Edge
<1>5. CASE Emit /\ ~UNCHANGED reply
  <2>1. PICK b : reply' = [reply EXCEPT !.blocks = b]
    BY <1>5 DEF Emit
  <2> QED
    BY <1>1, <1>3, <1>4, <2>1
<1> QED
  BY <1>2, <1>4, <1>5

(* One more call of Node.                                                  *)
LEMMA OneMoreCall ==
  ASSUME TypeOK, NEW got \in {"Failed", "none", "data"}
  PROVE  LET t == Append(trace, got)
         IN  /\ t \in Seq({"Failed", "none", "data"}) /\ Len(t) = Len(trace) + 1
             /\ Len(trace) \in Nat
             /\ ToolErrorInTrace(t) <=> ToolErrorInTrace(trace) \/ got = "Failed"
<1> DEFINE t == Append(trace, got)
<1>1. /\ t \in Seq({"Failed", "none", "data"}) /\ Len(t) = Len(trace) + 1 /\ Len(trace) \in Nat
      /\ DOMAIN trace = 1 .. Len(trace) /\ DOMAIN t = 1 .. Len(trace) + 1
      /\ t[Len(trace) + 1] = got /\ \A k \in 1 .. Len(trace) : t[k] = trace[k]
  BY DEF TypeOK
<1> HIDE DEF t
<1>2. Len(trace) + 1 \in DOMAIN t /\ \A k \in DOMAIN t : k \in DOMAIN trace \/ k = Len(trace) + 1
  BY <1>1
<1>3. \A k \in DOMAIN trace : k \in DOMAIN t /\ t[k] = trace[k]
  BY <1>1
<1>4. ToolErrorInTrace(t) <=> ToolErrorInTrace(trace) \/ got = "Failed"
  BY <1>1, <1>2, <1>3 DEF ToolErrorInTrace
<1> QED
  BY <1>1, <1>4 DEF t

(* No call failed of none.                                                 *)
LEMMA NoCall == ~ToolErrorInTrace(<<>>) /\ <<>> \in Seq({"Failed", "none", "data"}) /\ Len(<<>>) = 0
BY DEF ToolErrorInTrace

(* The stages a call of the summary is awaited in.                         *)
LEMMA Calls ==
  /\ DOMAIN Fetched = {"sprints", "active", "issues", "statuses"}
  /\ Fetched.sprints = 0 /\ Fetched.active = 1 /\ Fetched.issues = 2 /\ Fetched.statuses = 3
  /\ Fetched["sprints"] = 0 /\ Fetched["active"] = 1 /\ Fetched["issues"] = 2
  /\ Fetched["statuses"] = 3
BY DEF Fetched

(* The trace has room for one more call.                                   *)
LEMMA RoomForACall ==
  ASSUME TypeOK, TurnSoFar, at \in DOMAIN Fetched \/ (at = "agent" /\ Len(trace) < MaxCalls),
         NEW got \in {"Failed", "none", "data"}
  PROVE  Len(Append(trace, got)) <= Larger(MaxCalls, 4)
<1>1. Len(Append(trace, got)) = Len(trace) + 1 /\ Len(trace) \in Nat
  BY OneMoreCall
<1>2. MaxCalls \in Nat
  BY ReadAssumption
<1>3. at \in DOMAIN Fetched => Len(trace) <= 3
  BY <1>1, Calls DEF TurnSoFar
<1> QED
  BY <1>1, <1>2, <1>3 DEF Larger

(* The type invariant holds when the service starts.                       *)
LEMMA TypeInit == Init => TypeOK
<1> SUFFICES ASSUME Init PROVE TypeOK
  OBVIOUS
<1>1. /\ {MaxCalls, MaxChanges, MaxRecords} \subseteq Nat /\ Window \in Nat \ {0}
  BY ReadAssumption
<1>2. stats.count = 0 /\ Len(stats.samples) = 0
  BY DEF Init, NoStats
<1>3. Len(stats.samples) = Smaller(stats.count, Window)
  BY <1>1, <1>2 DEF Smaller
<1>4. trace \in Seq({"Failed", "none", "data"}) /\ Len(trace) <= Larger(MaxCalls, 4)
  BY <1>1, NoCall DEF Init, Larger
<1>5. DOMAIN issues \subseteq Issues
  BY DEF Init
<1>6. /\ rows \in [Issues -> Rows \cup {None}] /\ sprints \in [Sprints -> {"planned", "active", None}]
      /\ columns \subseteq Statuses
  BY ReadAssumption DEF Init
<1>7. stats.count \in 0 .. MaxRecords /\ since \in 0 .. Window /\ changes \in 0 .. MaxChanges
  BY <1>1, <1>2 DEF Init
<1> QED
  BY <1>3, <1>4, <1>5, <1>6, <1>7, NoReplyFacts DEF Init, TypeOK

(* Every step keeps the type invariant.                                    *)
LEMMA TypeStep == TypeOK /\ TurnSoFar /\ StatsAddUp /\ [Next]_vars => TypeOK'
<1> SUFFICES ASSUME TypeOK, TurnSoFar, StatsAddUp, [Next]_vars PROVE TypeOK'
  OBVIOUS
<1> USE DEF TypeOK
<1>0. {MaxCalls, MaxChanges, MaxRecords} \subseteq Nat
  BY ReadAssumption
<1>1. CASE NodeStep
  <2>1. changes' \in 0 .. MaxChanges /\ steady' = FALSE
        /\ UNCHANGED <<at, intent, query, trace, sprint, issues, reply, latency>>
    BY <1>0, <1>1 DEF NodeStep, ChangeIssue, ChangeSprint, ChangeStatus, Change
  <2>2. rows' \in [Issues -> Rows \cup {None}]
    <3>1. CASE UNCHANGED rows
      BY <3>1
    <3>2. ASSUME NEW i \in Issues, ChangeIssue(i) PROVE rows' \in [Issues -> Rows \cup {None}]
      <4>1. PICK r \in Edits(rows[i]) : rows' = [rows EXCEPT ![i] = r]
        BY <3>2 DEF ChangeIssue
      <4>2. r \in Rows \cup {None}
        BY DEF Edits
      <4> QED
        BY <4>1, <4>2
    <3> QED
      BY <1>1, <3>1, <3>2 DEF NodeStep, ChangeSprint, ChangeStatus
  <2>3. sprints' \in [Sprints -> {"planned", "active", None}] /\ columns' \subseteq Statuses
    BY <1>1 DEF NodeStep, ChangeIssue, ChangeSprint, ChangeStatus
  <2> QED
    BY <2>1, <2>2, <2>3 DEF latency
<1>2. CASE AnotherCallEnds
  <2>1. PICK ms \in Durations : Recorded(ms)
    BY <1>2 DEF AnotherCallEnds
  <2>2. stats.count < MaxRecords /\ stats'.count = stats.count + 1 /\ since' \in 0 .. Window
        /\ Len(stats'.samples) = Smaller(stats'.count, Window)
    BY <1>2, <2>1, RecordStep DEF AnotherCallEnds
  <2> QED
    BY <1>0, <1>2, <2>2 DEF AnotherCallEnds, node
<1>3. CASE CallTool
  <2>1. PICK got \in {"Failed", "none", "data"} : trace' = Append(trace, got)
    BY <1>3 DEF CallTool
  <2>2. Len(trace') <= Larger(MaxCalls, 4) /\ trace' \in Seq({"Failed", "none", "data"})
    BY <1>3, <2>1, OneMoreCall, RoomForACall DEF CallTool
  <2> QED
    BY <1>3, <2>2 DEF CallTool, node, latency
<1>4. CASE AgentAnswers
  <2>1. IsReply(reply') /\ reply'.says # "none"
    BY <1>4, TextFacts, FinalizeFacts DEF AgentAnswers, Say
  <2> QED
    BY <1>4, <2>1 DEF AgentAnswers, Say, node, latency
<1>5. CASE AgentRaises
  BY <1>5, TextFacts DEF AgentRaises, Say, node, latency
<1>6. CASE FetchFails
  <2>1. /\ trace' = Append(trace, "Failed") /\ at \in DOMAIN Fetched
        /\ reply' = Text(IF at = "active" THEN "absent" ELSE "admits", FALSE)
        /\ at' = "edge" /\ UNCHANGED <<node, intent, query, steady, latency, sprint, issues>>
    BY <1>6, Calls DEF FetchFails, Say
  <2>2. Len(trace') <= Larger(MaxCalls, 4) /\ trace' \in Seq({"Failed", "none", "data"})
    BY <2>1, OneMoreCall, RoomForACall
  <2>3. IsReply(reply') /\ reply'.says # "none"
    BY <2>1, TextFacts
  <2> QED
    BY <2>1, <2>2, <2>3 DEF node, latency
<1>7. ASSUME NEW l \in {"active", "issues", "statuses"}, at \in DOMAIN Fetched, Goto(l),
             sprint' \in Sprints \cup {None}, DOMAIN issues' \subseteq Issues
      PROVE  TypeOK'
  <2>1. /\ trace' = Append(trace, "data") /\ at' = l /\ steady' \in BOOLEAN
        /\ UNCHANGED <<node, intent, query, reply, latency>>
    BY <1>7 DEF Goto
  <2>2. Len(trace') <= Larger(MaxCalls, 4) /\ trace' \in Seq({"Failed", "none", "data"})
    BY <1>7, <2>1, OneMoreCall, RoomForACall
  <2> QED
    BY <1>7, <2>1, <2>2 DEF node, latency
<1>8. CASE FetchSprints
  <2>1. \A q : Resolve(q) \subseteq Sprints
    BY DEF Resolve, Existing
  <2> QED
    BY <1>7, <1>8, <2>1, Calls DEF FetchSprints
<1>9. CASE FetchActive
  <2>1. CASE ActiveSprints = {} /\ Say(Text("absent", FALSE), "edge")
    BY <1>9, <2>1, TextFacts DEF FetchActive, Say, Goto, node, latency
  <2>2. ASSUME NEW s \in ActiveSprints, Goto("issues"), sprint' = s PROVE TypeOK'
    BY <1>7, <1>9, <2>2, Calls DEF FetchActive, ActiveSprints
  <2> QED
    BY <1>9, <2>1, <2>2 DEF FetchActive
<1>10. CASE FetchIssues
  BY <1>7, <1>10, Calls DEF FetchIssues
<1>11. CASE FetchStatuses
  <2>1. IsReply(reply') /\ reply'.says # "none"
    BY <1>11 DEF FetchStatuses, Say, IsReply
  <2> QED
    BY <1>11, <2>1 DEF FetchStatuses, Say, node, latency
<1>12. CASE Emit
  <2>1. IsReply(reply') /\ reply'.says # "none"
    BY <1>12, BlocksOnly
  <2> QED
    BY <1>12, <2>1 DEF Emit, node, latency
<1>13. CASE Edge
  <2>1. PICK ms \in Durations : Recorded(ms)
    BY <1>13 DEF Edge
  <2>2. stats.count < MaxRecords /\ stats'.count = stats.count + 1 /\ since' \in 0 .. Window
        /\ Len(stats'.samples) = Smaller(stats'.count, Window)
    BY <1>13, <2>1, RecordStep DEF Edge, TurnSoFar
  <2>3. IsReply(reply')
    BY <1>13, BlocksOnly
  <2> QED
    BY <1>0, <1>13, <2>2, <2>3 DEF Edge, node
<1>14. ASSUME NEW i \in Intents, NEW q \in Queries, Begin(i, q) PROVE TypeOK'
  <2>1. /\ at' \in {"agent", "sprints", "edge"} /\ trace' = <<>> /\ issues' = <<>>
        /\ reply' = IF at' = "edge" THEN Text("plain", FALSE) ELSE NoReply
        /\ intent' = i /\ query' \in Queries \cup {None} /\ sprint' = None /\ steady' = FALSE
        /\ UNCHANGED <<node, latency>>
    BY <1>14 DEF Begin
  <2>2. trace' \in Seq({"Failed", "none", "data"}) /\ Len(trace') <= Larger(MaxCalls, 4)
    BY <1>0, <2>1, NoCall DEF Larger
  <2>3. DOMAIN issues' \subseteq Issues
    BY <2>1
  <2> QED
    BY <2>1, <2>2, <2>3, TextFacts, NoReplyFacts DEF node, latency
<1>15. CASE UNCHANGED vars
  BY <1>15 DEF vars, node, latency
<1> QED
  BY <1>1, <1>2, <1>3, <1>4, <1>5, <1>6, <1>8, <1>9, <1>10, <1>11, <1>12, <1>13,
     <1>14, <1>15 DEF Next, TurnStep

(* A step of Node's data, which makes one issue at most.                     *)
LEMMA NodeFacts ==
  ASSUME TypeOK, NodeStep
  PROVE  /\ UNCHANGED <<at, intent, query, trace, sprint, issues, reply, stats, since>>
         /\ at \in DOMAIN Fetched /\ steady' = FALSE
         /\ IsFiniteSet({k \in Issues : rows[k] # None}) =>
              IsFiniteSet({k \in Issues : rows'[k] # None})
<1>1. /\ UNCHANGED <<at, intent, query, trace, sprint, issues, reply, stats, since>>
      /\ at \in DOMAIN Fetched /\ steady' = FALSE
  BY Calls DEF NodeStep, ChangeIssue, ChangeSprint, ChangeStatus, Change, latency
<1>2. CASE UNCHANGED rows
  BY <1>1, <1>2
<1>3. ASSUME NEW i \in Issues, ChangeIssue(i), IsFiniteSet({k \in Issues : rows[k] # None})
      PROVE  IsFiniteSet({k \in Issues : rows'[k] # None})
  <2>1. PICK r : rows' = [rows EXCEPT ![i] = r]
    BY <1>3 DEF ChangeIssue
  <2>2. {k \in Issues : rows'[k] # None} \subseteq {k \in Issues : rows[k] # None} \cup {i}
    BY <2>1 DEF TypeOK
  <2>3. IsFiniteSet({k \in Issues : rows[k] # None} \cup {i})
    BY <1>3, FS_AddElement
  <2> QED
    BY <2>2, <2>3, FS_Subset
<1> QED
  BY <1>1, <1>2, <1>3 DEF NodeStep, ChangeSprint, ChangeStatus

(* The turn has done nothing when the service starts.                      *)
LEMMA TurnInit == Init => TurnSoFar /\ FailuresAdmitted /\ SteadySoFar /\ SummaryAddsUp
<1> SUFFICES ASSUME Init PROVE TurnSoFar /\ FailuresAdmitted /\ SteadySoFar /\ SummaryAddsUp
  OBVIOUS
<1>1. /\ at = "idle" /\ trace = <<>> /\ steady = FALSE /\ reply = NoReply
      /\ DOMAIN issues = {} /\ rows = Rows0
  BY DEF Init
<1>2. IsFiniteSet({i \in Issues : rows[i] # None}) /\ IsFiniteSet(DOMAIN issues)
  BY <1>1, ReadAssumption, FS_EmptySet
<1>3. TurnSoFar
  BY <1>1, <1>2, Calls DEF TurnSoFar
<1> QED
  BY <1>1, <1>3, NoCall, NoReplyFacts DEF FailuresAdmitted, SteadySoFar, SummaryAddsUp, Summarised

(* Every step keeps what a turn has done to what it awaits.                *)
LEMMA TurnSoFarStep ==
  ASSUME TypeOK, TurnSoFar, [Next]_vars
  PROVE  TurnSoFar'
<1> USE DEF TurnSoFar
<1> USE Calls
<1>1. CASE NodeStep
  <2>1. IsFiniteSet({i \in Issues : rows'[i] # None})
    BY <1>1, NodeFacts
  <2> QED
    BY <1>1, <2>1, NodeFacts
<1>2. CASE AnotherCallEnds
  BY <1>2 DEF AnotherCallEnds, node
<1>3. CASE CallTool
  <2>1. PICK got \in {"Failed", "none", "data"} : trace' = Append(trace, got)
    BY <1>3 DEF CallTool
  <2>2. Len(trace') <= MaxCalls
    BY <1>3, <2>1, OneMoreCall, ReadAssumption DEF CallTool
  <2> QED
    BY <1>3, <2>2 DEF CallTool, node, latency
<1>4. CASE AgentAnswers \/ AgentRaises
  <2>1. reply'.figures = None
    BY <1>4, NoFigures
  <2> QED
    BY <1>4, <2>1 DEF AgentAnswers, AgentRaises, Say, node, latency
<1>5. CASE FetchFails \/ FetchStatuses
  BY <1>5 DEF FetchFails, FetchStatuses, Say, node, latency
<1>6. ASSUME NEW l \in {"active", "issues", "statuses"}, at \in DOMAIN Fetched, Goto(l),
             Fetched[at] + 1 <= Fetched[l], IsFiniteSet(DOMAIN issues')
      PROVE  TurnSoFar'
  <2>1. /\ trace' = Append(trace, "data") /\ at' = l
        /\ UNCHANGED <<node, intent, query, reply, latency>>
    BY <1>6 DEF Goto
  <2>2. Len(trace') <= Fetched[l] /\ ~ToolErrorInTrace(trace')
    BY <1>6, <2>1, OneMoreCall
  <2> QED
    BY <1>6, <2>1, <2>2 DEF node, latency
<1>7. CASE FetchSprints
  BY <1>6, <1>7 DEF FetchSprints
<1>8. CASE FetchActive
  <2>1. CASE Say(Text("absent", FALSE), "edge")
    BY <1>8, <2>1 DEF FetchActive, Say, node, latency
  <2>2. CASE Goto("issues")
    BY <1>6, <1>8, <2>2 DEF FetchActive
  <2> QED
    BY <1>8, <2>1, <2>2 DEF FetchActive
<1>9. CASE FetchIssues
  <2>1. DOMAIN issues' \subseteq {i \in Issues : rows[i] # None}
    BY <1>9 DEF FetchIssues
  <2>2. IsFiniteSet(DOMAIN issues')
    BY <2>1, FS_Subset
  <2> QED
    BY <1>6, <1>9, <2>2 DEF FetchIssues
<1>10. CASE Emit \/ Edge
  BY <1>10 DEF Emit, Edge, node, latency
<1>11. ASSUME NEW i \in Intents, NEW q \in Queries, Begin(i, q) PROVE TurnSoFar'
  <2>1. /\ at' \in {"agent", "sprints", "edge"} /\ trace' = <<>> /\ issues' = <<>>
        /\ at' = "agent" => Agent(i) \in ReAct
        /\ at' = "sprints" => Agent(i) = "summarize_agent"
        /\ intent' = i /\ stats.count < MaxRecords /\ UNCHANGED <<node, latency>>
    BY <1>11 DEF Begin
  <2>2. Len(trace') = 0 /\ ~ToolErrorInTrace(trace') /\ DOMAIN issues' = {}
    BY <2>1, NoCall
  <2>3. IsFiniteSet(DOMAIN issues') /\ 0 <= MaxCalls
    BY <2>2, FS_EmptySet, ReadAssumption
  <2> QED
    BY <2>1, <2>2, <2>3, Routes DEF node, latency
<1>12. CASE UNCHANGED vars
  BY <1>12 DEF vars, node, latency
<1> QED
  BY <1>1, <1>2, <1>3, <1>4, <1>5, <1>7, <1>8, <1>9, <1>10, <1>11, <1>12 DEF Next, TurnStep

(* Every step keeps a failed call admitted, but for the three ways.        *)
LEMMA FailuresStep ==
  ASSUME TypeOK, TurnSoFar, FailuresAdmitted, [Next]_vars
  PROVE  FailuresAdmitted'
<1> USE DEF FailuresAdmitted
<1>1. CASE NodeStep
  BY <1>1, NodeFacts, Calls
<1>2. CASE AnotherCallEnds \/ UNCHANGED vars
  BY <1>2 DEF AnotherCallEnds, vars, Admits
<1>3. CASE CallTool
  BY <1>3 DEF CallTool
<1>4. CASE AgentAnswers
  <2>1. PICK says \in {"plain", "mentions", "admits"} :
          reply' = IF Agent(intent) = "sprint_agent" THEN Text(says, FALSE)
                   ELSE Finalize(says, trace)
    BY <1>4 DEF AgentAnswers, Say
  <2>2. trace' = trace /\ intent' = intent
    BY <1>4 DEF AgentAnswers, Say
  <2>3. Agent(intent) # "sprint_agent" /\ ToolErrorInTrace(trace) =>
          Admits(Finalize(says, trace)) \/ Finalize(says, trace).says = "mentions"
    BY FinalizeFacts
  <2> QED
    BY <2>1, <2>2, <2>3, Routes DEF Admits
<1>5. CASE AgentRaises
  <2>1. reply'.says = "admits"
    BY <1>5, TextFacts DEF AgentRaises, Say
  <2> QED
    BY <2>1 DEF Admits
<1>6. CASE FetchFails
  <2>1. reply'.says \in {"absent", "admits"}
    BY <1>6, TextFacts DEF FetchFails, Say
  <2> QED
    BY <2>1 DEF Admits
<1>7. CASE FetchSprints \/ FetchIssues
  BY <1>7 DEF FetchSprints, FetchIssues, Goto
<1>8. CASE FetchActive
  <2>1. \/ at' = "issues" \/ reply' = Text("absent", FALSE)
    BY <1>8 DEF FetchActive, Say, Goto
  <2> QED
    BY <2>1, TextFacts
<1>9. CASE FetchStatuses
  BY <1>9, Calls DEF FetchStatuses, Say, TurnSoFar
<1>10. CASE Emit \/ Edge
  BY <1>10, BlocksOnly DEF Admits
<1>11. ASSUME NEW i \in Intents, NEW q \in Queries, Begin(i, q) PROVE FailuresAdmitted'
  BY <1>11, NoCall DEF Begin
<1> QED
  BY <1>1, <1>2, <1>3, <1>4, <1>5, <1>6, <1>7, <1>8, <1>9, <1>10, <1>11 DEF Next, TurnStep

(* Every step keeps the figures adding up.                                 *)
LEMMA SummaryStep ==
  ASSUME TypeOK, TurnSoFar, SummaryAddsUp, [Next]_vars
  PROVE  SummaryAddsUp'
<1> USE DEF SummaryAddsUp, Summarised
<1>1. CASE NodeStep
  BY <1>1, NodeFacts
<1>2. CASE AnotherCallEnds \/ CallTool \/ FetchSprints \/ FetchIssues \/ UNCHANGED vars
  <2>1. reply' = reply
    BY <1>2 DEF AnotherCallEnds, CallTool, FetchSprints, FetchIssues, Goto, vars
  <2> QED
    BY <2>1
<1>3. CASE AgentAnswers \/ AgentRaises \/ FetchFails
  <2>1. reply'.figures = None
    BY <1>3, NoFigures
  <2> QED
    BY <2>1
<1>4. CASE FetchActive
  <2>1. reply' = reply \/ reply' = Text("absent", FALSE)
    BY <1>4 DEF FetchActive, Say, Goto
  <2> QED
    BY <2>1, TextFacts
<1>5. CASE FetchStatuses
  <2>1. /\ reply'.figures = TextOf(sprint, issues, columns)
        /\ reply'.blocks = BlocksOf(issues, columns)
    BY <1>5 DEF FetchStatuses, Say
  <2>2. IsFiniteSet(DOMAIN issues) /\ columns \in SUBSET Statuses
    BY DEF TurnSoFar, TypeOK
  <2>3. AddsUp(TextOf(sprint, issues, columns), BlocksOf(issues, columns))
    BY <2>2, TextAndBlocksAddUp
  <2> QED
    BY <2>1, <2>3
<1>6. CASE Emit
  BY <1>6, BlocksOnly DEF Emit, TurnSoFar
<1>7. CASE Edge
  <2>1. reply'.figures = reply.figures /\ reply'.blocks = WireBlocks(reply)
    BY <1>7, BlocksOnly
  <2>2. SUFFICES ASSUME AddsUp(reply.figures, reply.blocks), reply.blocks = {}
                 PROVE  AddsUp(reply.figures, {[type |-> "prose"]})
    BY <2>1 DEF WireBlocks
  <2>3. \A b \in {[type |-> "prose"]} : b.type # "breakdown"
    OBVIOUS
  <2> QED
    BY <2>2, <2>3 DEF AddsUp
<1>8. ASSUME NEW i \in Intents, NEW q \in Queries, Begin(i, q) PROVE SummaryAddsUp'
  <2>1. reply' = NoReply \/ reply' = Text("plain", FALSE)
    BY <1>8 DEF Begin
  <2> QED
    BY <2>1, TextFacts, NoReplyFacts
<1> QED
  BY <1>1, <1>2, <1>3, <1>4, <1>5, <1>6, <1>7, <1>8 DEF Next, TurnStep

(* What a summary is of is the same while Node's data and the query are,   *)
(* and a reply is as true as another of the same figures and words.        *)
LEMMA SameTruth ==
  ASSUME UNCHANGED <<node, query>>
  PROVE  /\ Resolve(query)' = Resolve(query) /\ ActiveSprints' = ActiveSprints /\ Asked' = Asked
         /\ \A s : IssuesOf(s)' = IssuesOf(s)
         /\ trace' = trace /\ reply'.figures = reply.figures /\ reply'.says = reply.says =>
              (IsTrue(reply)' <=> IsTrue(reply))
<1>1. UNCHANGED <<rows, sprints, columns, query>>
  BY DEF node
<1>2. /\ Resolve(query)' = Resolve(query) /\ ActiveSprints' = ActiveSprints /\ Asked' = Asked
      /\ \A s : IssuesOf(s)' = IssuesOf(s)
  BY <1>1 DEF Asked, Resolve, ActiveSprints, Existing, IssuesOf
<1>3. ASSUME trace' = trace, reply'.figures = reply.figures, reply'.says = reply.says
      PROVE  IsTrue(reply)' <=> IsTrue(reply)
  BY <1>1, <1>2, <1>3 DEF IsTrue, IssuesOf
<1> QED
  BY <1>2, <1>3

(* A reply without figures that does not deny a sprint claims nothing.     *)
LEMMA NothingClaimed ==
  ASSUME reply'.figures = None, reply'.says # "absent" \/ ToolErrorInTrace(trace)' \/ Asked' = {}
  PROVE  IsTrue(reply)'
BY DEF IsTrue

(* The issues and the statuses of now make true figures.                   *)
LEMMA FiguresAreTrue ==
  ASSUME TypeOK, TurnSoFar, sprint \in Asked, issues = [i \in IssuesOf(sprint) |-> rows[i]],
         UNCHANGED <<node, query>>, reply'.figures = TextOf(sprint, issues, columns),
         reply'.says = "plain"
  PROVE  IsTrue(reply)'
<1> DEFINE f == TextOf(sprint, issues, columns)
           its == IssuesOf(sprint)
<1>1. /\ f.sprint = sprint /\ f.total = Cardinality(DOMAIN issues)
      /\ f.status = StatusSegments(issues, columns)
  BY DEF TextOf
<1>2. DOMAIN issues = its /\ \A i \in its : issues[i] = rows[i]
  OBVIOUS
<1>3. ASSUME NEW c \in columns
      PROVE  LET n == Cardinality({i \in its : rows[i].status = c})
             IN  IF n = 0 THEN c \notin DOMAIN f.status
                 ELSE c \in DOMAIN f.status /\ f.status[c] = n
  <2>1. InStatus(issues, c) = {i \in its : rows[i].status = c}
    BY <1>2 DEF InStatus
  <2>2. IsFiniteSet(DOMAIN issues) /\ columns \in SUBSET Statuses
    BY DEF TurnSoFar, TypeOK
  <2>3. LET n == Cardinality(InStatus(issues, c))
        IN  IF n = 0 THEN c \notin DOMAIN StatusSegments(issues, columns)
            ELSE /\ c \in DOMAIN StatusSegments(issues, columns)
                 /\ StatusSegments(issues, columns)[c] = n
    BY <2>2, StatusAddsUp
  <2> HIDE DEF its, f
  <2> QED
    BY <1>1, <2>1, <2>3
<1> HIDE DEF f
<1>4. reply'.figures = f /\ UNCHANGED <<rows, columns>> /\ Asked' = Asked
  BY SameTruth DEF f, node
<1>5. {i \in Issues : rows'[i] # None /\ rows'[i].sprint = f.sprint} = its
  BY <1>1, <1>4 DEF IssuesOf
<1> HIDE DEF its
<1>6. /\ f.sprint \in Asked' /\ f.total = Cardinality(its)
      /\ \A c \in columns' :
           LET n == Cardinality({i \in its : rows'[i].status = c})
           IN  IF n = 0 THEN c \notin DOMAIN f.status
               ELSE c \in DOMAIN f.status /\ f.status[c] = n
  BY <1>1, <1>2, <1>3, <1>4
<1> QED
  BY <1>4, <1>5, <1>6 DEF IsTrue, IssuesOf

(* Every step keeps what was read true while Node's data stand still.      *)
LEMMA SteadyStep ==
  ASSUME TypeOK, TurnSoFar, SteadySoFar, [Next]_vars
  PROVE  SteadySoFar'
<1> USE DEF SteadySoFar
<1>1. CASE NodeStep
  BY <1>1, NodeFacts
<1>2. CASE AnotherCallEnds \/ UNCHANGED vars
  <2>1. UNCHANGED <<node, at, intent, query, trace, sprint, issues, reply, steady>>
    BY <1>2 DEF AnotherCallEnds, vars
  <2> QED
    BY <2>1, SameTruth DEF node, IssuesOf
<1>3. CASE CallTool \/ AgentAnswers \/ AgentRaises
  BY <1>3 DEF CallTool, AgentAnswers, AgentRaises, Say
<1>4. CASE FetchFails
  <2>1. /\ at' = "edge" /\ trace' = Append(trace, "Failed")
    BY <1>4 DEF FetchFails, Say
  <2>2. ToolErrorInTrace(trace)'
    BY <2>1, OneMoreCall
  <2>3. IsTrue(reply)'
    BY <1>4, <2>2, NoFigures, NothingClaimed
  <2> QED
    BY <2>1, <2>3
<1>5. CASE FetchSprints
  <2>1. UNCHANGED <<node, query>>
    BY <1>5 DEF FetchSprints, Goto
  <2>2. \/ at' = "active" /\ Resolve(query) = {}
        \/ at' = "issues" /\ sprint' \in Resolve(query)
    BY <1>5 DEF FetchSprints, Goto
  <2> QED
    BY <2>1, <2>2, SameTruth DEF Asked
<1>6. CASE FetchActive
  <2>1. at = "active" /\ UNCHANGED <<node, query, intent>>
    BY <1>6 DEF FetchActive, Goto, Say
  <2>2. CASE ActiveSprints = {} /\ Say(Text("absent", FALSE), "edge")
    <3>1. reply'.figures = None /\ at' = "edge" /\ steady' = steady
      BY <2>2, TextFacts DEF Say
    <3>2. steady /\ intent = "SUMMARIZE" => Asked' = {}
      BY <2>1, <2>2, SameTruth DEF Asked
    <3> QED
      BY <2>1, <3>1, <3>2, NothingClaimed
  <2>3. ASSUME NEW s \in ActiveSprints, Goto("issues"), sprint' = s PROVE SteadySoFar'
    <3>1. at' = "issues" /\ (steady' => steady)
      BY <2>1, <2>3 DEF Goto
    <3> QED
      BY <2>1, <2>3, <3>1, SameTruth DEF Asked
  <2> QED
    BY <1>6, <2>2, <2>3 DEF FetchActive
<1>7. CASE FetchIssues
  <2>1. /\ at = "issues" /\ at' = "statuses" /\ (steady' => steady)
        /\ UNCHANGED <<node, query, intent, sprint>>
        /\ issues' = [i \in IssuesOf(sprint) |-> rows[i]]
    BY <1>7 DEF FetchIssues, Goto, IssuesOf
  <2>2. issues' = [i \in IssuesOf(sprint) |-> rows[i]]'
    BY <2>1 DEF IssuesOf, node
  <2> QED
    BY <2>1, <2>2, SameTruth
<1>8. CASE FetchStatuses
  <2>1. /\ at = "statuses" /\ at' = "edge" /\ UNCHANGED <<node, query, intent, steady>>
        /\ reply'.figures = TextOf(sprint, issues, columns) /\ reply'.says = "plain"
    BY <1>8 DEF FetchStatuses, Say
  <2>2. steady /\ intent = "SUMMARIZE" => IsTrue(reply)'
    BY <2>1, FiguresAreTrue
  <2> QED
    BY <2>1, <2>2
<1>9. CASE Emit
  <2>1. intent' # "SUMMARIZE"
    BY <1>9, Routes DEF Emit, TurnSoFar
  <2> QED
    BY <2>1
<1>10. CASE Edge
  <2>1. at = "edge" /\ at' = "idle" /\ UNCHANGED <<node, query, intent, steady>>
    BY <1>10 DEF Edge
  <2>2. IsTrue(reply)' <=> IsTrue(reply)
    BY <1>10, <2>1, BlocksOnly, SameTruth
  <2> QED
    BY <2>1, <2>2
<1>11. ASSUME NEW i \in Intents, NEW q \in Queries, Begin(i, q) PROVE SteadySoFar'
  BY <1>11 DEF Begin
<1> QED
  BY <1>1, <1>2, <1>3, <1>4, <1>5, <1>6, <1>7, <1>8, <1>9, <1>10, <1>11 DEF Next, TurnStep

(* The statistics add up when the service starts.                          *)
LEMMA StatsInit == Init => StatsAddUp
<1> SUFFICES ASSUME Init PROVE StatsAddUp
  OBVIOUS
<1>1. /\ stats.count = 0 /\ stats.total = 0 /\ stats.max = 0 /\ stats.samples = <<>> /\ since = 0
      /\ stats \in [count : Nat, total : Nat, max : Nat, samples : Seq(Durations)]
  BY DEF Init, NoStats
<1> QED
  BY <1>1 DEF StatsAddUp

(* Every step keeps them.                                                  *)
LEMMA StatsStep ==
  ASSUME TypeOK, StatsAddUp, [Next]_vars
  PROVE  StatsAddUp'
<1>1. CASE UNCHANGED latency
  BY <1>1 DEF latency, StatsAddUp
<1>2. ASSUME NEW ms \in Durations, Recorded(ms) PROVE StatsAddUp'
  BY <1>2, RecordStep
<1>3. CASE AnotherCallEnds \/ Edge
  BY <1>2, <1>3 DEF AnotherCallEnds, Edge
<1>4. CASE NodeStep
  BY <1>1, <1>4, NodeFacts DEF latency
<1>5. CASE CallTool \/ AgentAnswers \/ AgentRaises \/ FetchFails \/ FetchSprints \/ FetchActive
             \/ FetchIssues \/ FetchStatuses \/ Emit \/ UNCHANGED vars
  BY <1>1, <1>5 DEF CallTool, AgentAnswers, AgentRaises, FetchFails, FetchSprints, FetchActive,
     FetchIssues, FetchStatuses, Emit, Say, Goto, vars
<1>6. ASSUME NEW i \in Intents, NEW q \in Queries, Begin(i, q) PROVE StatsAddUp'
  BY <1>1, <1>6 DEF Begin
<1> QED
  BY <1>3, <1>4, <1>5, <1>6 DEF Next, TurnStep

-----------------------------------------------------------------------------
(* The percentiles. *)

(* A finite set of numbers has a least and a greatest.                     *)
LEMMA Extremes ==
  ASSUME NEW S \in SUBSET Nat, IsFiniteSet(S), S # {}
  PROVE  (\E m \in S : \A x \in S : m <= x) /\ (\E m \in S : \A x \in S : x <= m)
<1> DEFINE P == {T \in SUBSET S : T # {} => /\ \E m \in T : \A x \in T : m <= x
                                            /\ \E m \in T : \A x \in T : x <= m}
<1>1. ASSUME NEW T \in SUBSET S, \A U \in (SUBSET T) \ {T} : U \in P PROVE T \in P
  <2> SUFFICES ASSUME T # {}
               PROVE  /\ \E m \in T : \A x \in T : m <= x
                      /\ \E m \in T : \A x \in T : x <= m
    OBVIOUS
  <2>1. PICK y \in T : TRUE
    OBVIOUS
  <2> DEFINE U == T \ {y}
  <2>2. U \in P
    BY <1>1, <2>1
  <2>3. CASE U = {}
    BY <2>1, <2>3
  <2>4. CASE U # {}
    <3>1. PICK a \in U, b \in U : \A x \in U : a <= x /\ x <= b
      BY <2>2, <2>4
    <3>2. a \in Nat /\ b \in Nat /\ y \in Nat
      OBVIOUS
    <3>3. \E m \in {a, y} : \A x \in T : m <= x
      BY <3>1, <3>2
    <3>4. \E m \in {b, y} : \A x \in T : x <= m
      BY <3>1, <3>2
    <3> QED
      BY <2>1, <3>3, <3>4
  <2> QED
    BY <2>3, <2>4
<1> HIDE DEF P
<1>2. S \in P
  BY <1>1, SubsetInduction
<1> QED
  BY <1>2 DEF P

(* The least of them is one, and above none.                               *)
LEMMA MinIsLeast ==
  ASSUME NEW S \in SUBSET Nat, IsFiniteSet(S), S # {}
  PROVE  Min(S) \in S /\ \A x \in S : Min(S) <= x
<1>1. \E m \in S : \A x \in S : m <= x
  BY Extremes
<1> QED
  BY <1>1 DEF Min

(* A function takes finitely many values on a finite set.                  *)
LEMMA FiniteImage ==
  ASSUME NEW f, NEW S, IsFiniteSet(S)
  PROVE  IsFiniteSet({f[x] : x \in S})
<1> DEFINE T == {f[x] : x \in S}
           g == [x \in S |-> f[x]]
<1>1. g \in Surjection(S, T)
  BY DEF Surjection
<1> HIDE DEF T, g
<1>2. IsFiniteSet(T)
  BY <1>1, FS_Surjection
<1> QED
  BY <1>2 DEF T

(* The samples that k samples at least are not above.                      *)
Ranked(q, k) ==
  {q[i] : i \in {j \in DOMAIN q : k <= Cardinality({h \in DOMAIN q : q[h] <= q[j]})}}

(* There is one for each k, and the k-th sorted is the least.              *)
LEMMA SortedPicks ==
  ASSUME NEW q \in Seq(Nat)
  PROVE  /\ DOMAIN Sorted(q) = 1 .. Len(q)
         /\ \A k \in 1 .. Len(q) :
              /\ Ranked(q, k) \subseteq Nat
              /\ Sorted(q)[k] \in Ranked(q, k) /\ \A x \in Ranked(q, k) : Sorted(q)[k] <= x
<1> DEFINE n == Len(q)
           below(j) == {h \in DOMAIN q : q[h] <= q[j]}
           from(k) == {j \in DOMAIN q : k <= Cardinality(below(j))}
<1>1. n \in Nat /\ DOMAIN q = 1 .. n /\ \A i \in 1 .. n : q[i] \in Nat
  OBVIOUS
<1>2. IsFiniteSet(1 .. n) /\ Cardinality(1 .. n) = n
  BY <1>1, FS_Interval
<1>3. ASSUME NEW k \in 1 .. n
      PROVE  Ranked(q, k) \in SUBSET Nat /\ IsFiniteSet(Ranked(q, k)) /\ Ranked(q, k) # {}
  <2>1. Ranked(q, k) = {q[i] : i \in from(k)} /\ Ranked(q, k) \in SUBSET Nat
    BY <1>1 DEF Ranked
  <2>2. IsFiniteSet(from(k))
    BY <1>1, <1>2, FS_Subset
  <2>3. IsFiniteSet(Ranked(q, k))
    BY <2>1, <2>2, FiniteImage
  <2> DEFINE all == {q[i] : i \in 1 .. n}
  <2>4. all \in SUBSET Nat /\ IsFiniteSet(all) /\ all # {}
    <3>1. IsFiniteSet(all)
      BY <1>2, FiniteImage
    <3> QED
      BY <1>1, <3>1
  <2>5. PICK top \in all : \A x \in all : x <= top
    BY <2>4, Extremes
  <2>6. PICK j \in 1 .. n : top = q[j]
    OBVIOUS
  <2>7. below(j) = 1 .. n
    BY <1>1, <2>5, <2>6
  <2>8. j \in from(k)
    <3>1. Cardinality(below(j)) = n
      BY <1>2, <2>7
    <3> HIDE DEF below
    <3> QED
      BY <1>1, <3>1
  <2> QED
    BY <2>1, <2>3, <2>8
<1>4. \A k \in 1 .. n : Sorted(q)[k] = Min(Ranked(q, k))
  BY <1>1 DEF Sorted, Ranked
<1>5. DOMAIN Sorted(q) = 1 .. n
  BY <1>1 DEF Sorted
<1> QED
  BY <1>3, <1>4, <1>5, MinIsLeast

(* Sorted samples are the samples, from the least to the greatest.         *)
LEMMA SortedFacts ==
  ASSUME NEW q \in Seq(Nat)
  PROVE  LET s == Sorted(q)
         IN  /\ Len(s) = Len(q)
             /\ \A k \in 1 .. Len(q) : \E i \in 1 .. Len(q) : s[k] = q[i]
             /\ \A k, l \in 1 .. Len(q) : k <= l => s[k] <= s[l]
<1> DEFINE n == Len(q)
           c(j) == Cardinality({h \in DOMAIN q : q[h] <= q[j]})
           s == Sorted(q)
<1>1. n \in Nat /\ DOMAIN q = 1 .. n
  OBVIOUS
<1>2. /\ DOMAIN s = 1 .. n
      /\ \A k \in 1 .. n : s[k] \in Ranked(q, k) /\ \A x \in Ranked(q, k) : s[k] <= x
  BY SortedPicks
<1>3. \A k \in 1 .. n : Ranked(q, k) = {q[i] : i \in {j \in 1 .. n : k <= c(j)}}
  BY <1>1 DEF Ranked
<1>4. \A j \in 1 .. n : c(j) \in Nat
  <2> TAKE j \in 1 .. n
  <2>1. IsFiniteSet(1 .. n) /\ {h \in DOMAIN q : q[h] <= q[j]} \subseteq 1 .. n
    BY <1>1, FS_Interval
  <2> QED
    BY <2>1, FS_Subset, FS_CardinalityType
<1> HIDE DEF c, s
<1>5. ASSUME NEW k \in 1 .. n, NEW l \in 1 .. n, k <= l PROVE s[k] <= s[l]
  <2>1. \A j \in 1 .. n : l <= c(j) => k <= c(j)
    BY <1>1, <1>4, <1>5
  <2>2. Ranked(q, l) \subseteq Ranked(q, k)
    BY <1>3, <2>1
  <2> QED
    BY <1>2, <2>2
<1>6. Len(s) = n
  <2>1. s = [k \in 1 .. n |-> s[k]]
    BY <1>2 DEF s, Sorted
  <2> QED
    BY <1>1, <2>1
<1> QED
  BY <1>2, <1>3, <1>5, <1>6 DEF s

(* Sorting rearranges: of any number as many sorted samples as samples are *)
(* not above it, so that each value occurs as often.                       *)
THEOREM SortedRearranges ==
  ASSUME NEW q \in Seq(Nat), NEW v \in Nat
  PROVE  Cardinality({k \in DOMAIN Sorted(q) : Sorted(q)[k] <= v})
           = Cardinality({i \in DOMAIN q : q[i] <= v})
<1> DEFINE n == Len(q)
           upTo(x) == {i \in DOMAIN q : q[i] <= x}
           above(k) == {q[i] : i \in {j \in DOMAIN q : k <= Cardinality(upTo(q[j]))}}
           c == Cardinality(upTo(v))
           s == Sorted(q)
<1>1. n \in Nat /\ DOMAIN q = 1 .. n /\ \A i \in 1 .. n : q[i] \in Nat
  OBVIOUS
<1>2. \A x : IsFiniteSet(upTo(x)) /\ Cardinality(upTo(x)) \in 0 .. n
  <2> TAKE x
  <2>1. IsFiniteSet(1 .. n) /\ Cardinality(1 .. n) = n /\ upTo(x) \subseteq 1 .. n
    BY <1>1, FS_Interval
  <2>2. IsFiniteSet(upTo(x)) /\ Cardinality(upTo(x)) <= n /\ Cardinality(upTo(x)) \in Nat
    BY <2>1, FS_Subset, FS_CardinalityType
  <2> QED
    BY <1>1, <2>2
<1>3. DOMAIN s = 1 .. n /\ \A k \in 1 .. n : s[k] \in above(k) /\ \A x \in above(k) : s[k] <= x
  BY SortedPicks DEF Ranked
<1>4. ASSUME NEW k \in 1 .. n, s[k] <= v PROVE k <= c
  <2>1. PICK j \in 1 .. n : s[k] = q[j] /\ k <= Cardinality(upTo(q[j]))
    BY <1>1, <1>3
  <2>2. upTo(q[j]) \subseteq upTo(v)
    BY <1>1, <1>4, <2>1
  <2>3. Cardinality(upTo(q[j])) <= c
    BY <1>2, <2>2, FS_Subset
  <2> HIDE DEF upTo, c
  <2> QED
    BY <1>1, <1>2, <2>1, <2>3 DEF c
<1>5. ASSUME NEW k \in 1 .. n, k <= c PROVE s[k] <= v
  <2> DEFINE low == {q[i] : i \in upTo(v)}
  <2>1. low \in SUBSET Nat /\ IsFiniteSet(low) /\ low # {}
    <3>1. IsFiniteSet(low)
      BY <1>2, FiniteImage
    <3>2. upTo(v) # {}
      <4>1. upTo(v) = {} => c = 0
        BY FS_EmptySet
      <4>2. c # 0
        <5> HIDE DEF c
        <5> QED
          BY <1>1, <1>5
      <4> QED
        BY <4>1, <4>2
    <3> QED
      BY <1>1, <3>1, <3>2
  <2>2. PICK top \in low : \A x \in low : x <= top
    BY <2>1, Extremes
  <2>3. PICK j \in 1 .. n : top = q[j] /\ q[j] <= v
    BY <1>1
  <2>4. upTo(v) = upTo(q[j])
    BY <1>1, <2>2, <2>3
  <2>5. q[j] \in above(k)
    BY <1>1, <1>5, <2>4
  <2>6. s[k] <= q[j] /\ s[k] \in Nat /\ q[j] \in Nat
    BY <1>1, <1>3, <2>5
  <2> QED
    BY <2>3, <2>6
<1>6. {k \in DOMAIN s : s[k] <= v} = 1 .. c
  <2>1. c \in 0 .. n
    BY <1>2
  <2> HIDE DEF c, s
  <2> QED
    BY <1>1, <1>3, <1>4, <1>5, <2>1
<1>7. Cardinality(1 .. c) = c
  <2>1. c \in 0 .. n
    BY <1>2
  <2> HIDE DEF c
  <2>2. c \in Nat
    BY <1>1, <2>1
  <2> QED
    BY <2>2, FS_Interval
<1> QED
  BY <1>6, <1>7

(* What lies between two numbers is in order of the share of the second.   *)
LEMMA Between ==
  ASSUME NEW a \in Nat, NEW b \in Nat, a <= b, NEW d \in 0 .. 100,
         NEW x, x = a * (100 - d) + b * d
  PROVE  /\ x \in Nat /\ 100 * a <= x /\ x <= 100 * b
         /\ \A e \in 0 .. 100 : d <= e => x <= a * (100 - e) + b * e
<1> DEFINE mix(e) == a * (100 - e) + b * e
<1>1. PICK w \in Nat : b = a + w
  <2>1. b - a \in Nat /\ b = a + (b - a)
    OBVIOUS
  <2> QED
    BY <2>1
<1>2. ASSUME NEW e \in 0 .. 100
      PROVE  mix(e) = 100 * a + w * e
  <2>1. a * (100 - e) = 100 * a - a * e /\ a * e \in Nat /\ w * e \in Nat
    OBVIOUS
  <2>2. b * e = a * e + w * e
    BY <1>1
  <2> QED
    BY <2>1, <2>2
<1>3. \A e \in 0 .. 100 : 0 <= w * e /\ w * e <= 100 * w /\ w * e \in Nat
  <2> TAKE e \in 0 .. 100
  <2>1. e \in Nat /\ 100 \in Nat /\ e <= 100 /\ w * e \in Nat /\ w * 100 = 100 * w
    OBVIOUS
  <2>2. w * e <= w * 100
    BY <2>1, TimesGrows
  <2> QED
    BY <2>1, <2>2
<1>4. \A e \in 0 .. 100 : d <= e => w * d <= w * e
  BY TimesGrows
<1> HIDE DEF mix
<1>5. mix(d) = 100 * a + w * d /\ 100 * b = 100 * a + 100 * w
  BY <1>1, <1>2
<1>6. mix(d) \in Nat /\ 100 * a <= mix(d) /\ mix(d) <= 100 * b
  BY <1>3, <1>5
<1>7. \A e \in 0 .. 100 : d <= e => mix(d) <= mix(e)
  <2> TAKE e \in 0 .. 100
  <2>1. mix(e) = 100 * a + w * e /\ w * e \in Nat /\ w * d \in Nat
    BY <1>2, <1>3
  <2> QED
    BY <1>4, <1>5, <2>1
<1> QED
  BY <1>6, <1>7 DEF mix

(* Where a percentile of more samples than one lies, and how far it is     *)
(* from the sample before it.                                              *)
LEMMA Where ==
  ASSUME NEW m \in Nat \ {0}, NEW pct \in {50, 95}
  PROVE  /\ (pct * m) \div 100 \in 0 .. (m - 1)
         /\ (pct * m) % 100 \in 0 .. 99
         /\ pct * m = 100 * ((pct * m) \div 100) + ((pct * m) % 100)
<1>1. \A x \in Nat : x % 100 \in 0 .. 99 /\ x = 100 * (x \div 100) + (x % 100)
  OBVIOUS
<1>2. /\ (50 * m) \div 100 \in 0 .. (m - 1) /\ (50 * m) % 100 \in 0 .. 99
      /\ 50 * m = 100 * ((50 * m) \div 100) + ((50 * m) % 100)
  BY <1>1
<1>3. /\ (95 * m) \div 100 \in 0 .. (m - 1) /\ (95 * m) % 100 \in 0 .. 99
      /\ 95 * m = 100 * ((95 * m) \div 100) + ((95 * m) % 100)
  BY <1>1
<1> QED
  BY <1>2, <1>3

(* The greater of two percentiles is as far after the same sample at least,*)
(* or after a later one.                                                   *)
LEMMA FurtherOn ==
  ASSUME NEW m \in Nat, NEW i \in Nat, NEW c \in 0 .. 99, NEW j \in Nat, NEW d \in 0 .. 99,
         50 * m = 100 * i + c, 95 * m = 100 * j + d
  PROVE  (i = j /\ c <= d) \/ i + 2 <= j + 1
OBVIOUS

(* The percentiles of samples are in order, and between two of them.       *)
LEMMA PercentilesOfSamples ==
  ASSUME NEW q \in Seq(Nat), Len(q) # 0
  PROVE  /\ Percentile(q, 50) \in Nat /\ Percentile(q, 95) \in Nat
         /\ Percentile(q, 50) <= Percentile(q, 95)
         /\ \E k \in 1 .. Len(q) : 100 * q[k] <= Percentile(q, 50)
         /\ \E k \in 1 .. Len(q) : Percentile(q, 95) <= 100 * q[k]
<1>1. Len(q) \in Nat /\ \A k \in 1 .. Len(q) : q[k] \in Nat
  OBVIOUS
<1>2. CASE Len(q) = 1
  <2>1. /\ Percentile(q, 50) = 100 * q[1] /\ Percentile(q, 95) = 100 * q[1]
        /\ 1 \in 1 .. Len(q) /\ q[1] \in Nat
    BY <1>1, <1>2 DEF Percentile
  <2> QED
    BY <2>1
<1>3. CASE Len(q) > 1
  <2> DEFINE s == Sorted(q)
             m == Len(q) - 1
             j(p) == (p * m) \div 100
             d(p) == (p * m) % 100
  <2>1. /\ Len(s) = Len(q)
        /\ \A k \in 1 .. Len(q) : \E i \in 1 .. Len(q) : s[k] = q[i]
        /\ \A k, l \in 1 .. Len(q) : k <= l => s[k] <= s[l]
    BY SortedFacts
  <2>2. ASSUME NEW p \in {50, 95}
        PROVE  Percentile(q, p) = s[j(p) + 1] * (100 - d(p)) + s[j(p) + 2] * d(p)
    <3>1. Percentile(q, p) = Quantile(s, p)
      BY <1>1, <1>3 DEF Percentile
    <3>2. Len(s) - 1 = m
      BY <2>1
    <3> HIDE DEF s, m
    <3> QED
      BY <3>1, <3>2 DEF Quantile
  <2>3. ASSUME NEW p \in {50, 95}
        PROVE  /\ j(p) \in Nat /\ d(p) \in 0 .. 99 /\ p * m = 100 * j(p) + d(p)
               /\ j(p) + 1 \in 1 .. Len(q) /\ j(p) + 2 \in 1 .. Len(q)
    <3>1. m \in Nat \ {0} /\ m + 1 = Len(q)
      BY <1>1, <1>3
    <3> HIDE DEF m
    <3>2. j(p) \in 0 .. (m - 1) /\ d(p) \in 0 .. 99 /\ p * m = 100 * j(p) + d(p)
      BY <3>1, Where
    <3> HIDE DEF j, d
    <3>3. \A x \in 0 .. (m - 1) : x \in Nat /\ x + 1 \in 1 .. Len(q) /\ x + 2 \in 1 .. Len(q)
      BY <1>1, <3>1
    <3> QED
      BY <3>2, <3>3
  <2>4. m \in Nat
    BY <1>1, <1>3
  <2>5. /\ Percentile(q, 50) = s[j(50) + 1] * (100 - d(50)) + s[j(50) + 2] * d(50)
        /\ Percentile(q, 95) = s[j(95) + 1] * (100 - d(95)) + s[j(95) + 2] * d(95)
    BY <2>2
  <2> HIDE DEF s, m, j, d
  <2>6. \A k \in 1 .. Len(q) : s[k] \in Nat
    BY <1>1, <2>1
  <2>7. PICK a \in Nat, b \in Nat, v \in Nat, w \in Nat :
          a = s[j(50) + 1] /\ b = s[j(50) + 2] /\ v = s[j(95) + 1] /\ w = s[j(95) + 2]
    BY <2>3, <2>6
  <2>13. /\ j(50) \in Nat /\ d(50) \in 0 .. 99 /\ 50 * m = 100 * j(50) + d(50)
         /\ j(50) + 1 \in 1 .. Len(q) /\ j(50) + 2 \in 1 .. Len(q)
         /\ j(95) \in Nat /\ d(95) \in 0 .. 99 /\ 95 * m = 100 * j(95) + d(95)
         /\ j(95) + 1 \in 1 .. Len(q) /\ j(95) + 2 \in 1 .. Len(q)
    BY <2>3
  <2>14. \A x \in Nat : x + 1 <= x + 2
    OBVIOUS
  <2>8. a <= b /\ v <= w
    BY <2>1, <2>13, <2>14, <2>7
  <2>9. /\ Percentile(q, 50) \in Nat /\ 100 * a <= Percentile(q, 50) /\ Percentile(q, 50) <= 100 * b
        /\ \A e \in 0 .. 100 : d(50) <= e => Percentile(q, 50) <= a * (100 - e) + b * e
    <3>1. d(50) \in 0 .. 100 /\ Percentile(q, 50) = a * (100 - d(50)) + b * d(50)
      BY <2>13, <2>5, <2>7
    <3> HIDE DEF Percentile
    <3> QED
      BY <2>8, <3>1, Between
  <2>10. /\ Percentile(q, 95) \in Nat /\ 100 * v <= Percentile(q, 95) /\ Percentile(q, 95) <= 100 * w
         /\ Percentile(q, 95) = v * (100 - d(95)) + w * d(95) /\ d(95) \in 0 .. 100
    <3>1. d(95) \in 0 .. 100 /\ Percentile(q, 95) = v * (100 - d(95)) + w * d(95)
      BY <2>13, <2>5, <2>7
    <3> HIDE DEF Percentile
    <3> QED
      BY <2>8, <3>1, Between
  <2>11. Percentile(q, 50) <= Percentile(q, 95)
    <3>1. (j(50) = j(95) /\ d(50) <= d(95)) \/ j(50) + 2 <= j(95) + 1
      BY <2>4, <2>13, FurtherOn
    <3>2. CASE j(50) = j(95) /\ d(50) <= d(95)
      <4>1. d(50) <= d(95) /\ a = v /\ b = w
        BY <2>7, <3>2
      <4> QED
        BY <2>9, <2>10, <4>1
    <3>3. CASE j(50) + 2 <= j(95) + 1
      <4>1. b <= v
        BY <2>1, <2>13, <2>7, <3>3
      <4> QED
        BY <2>9, <2>10, <4>1
    <3> QED
      BY <3>1, <3>2, <3>3
  <2>12. (\E k \in 1 .. Len(q) : a = q[k]) /\ (\E k \in 1 .. Len(q) : w = q[k])
    BY <2>1, <2>13, <2>7
  <2> QED
    BY <2>9, <2>10, <2>11, <2>12
<1>4. Len(q) = 1 \/ Len(q) > 1
  <2>1. \A n \in Nat : n # 0 => n = 1 \/ n > 1
    OBVIOUS
  <2> QED
    BY <1>1, <2>1
<1> QED
  BY <1>2, <1>3, <1>4

(* What the statistics add up to puts the percentiles and the mean between *)
(* the samples.                                                            *)
LEMMA InOrder ==
  ASSUME TypeOK, StatsAddUp
  PROVE  PercentilesInOrder
<1> DEFINE q == stats.samples
           c == stats.count
           S == Snapshot(stats)
<1>1. /\ c \in Nat /\ stats.total \in Nat /\ stats.max \in Nat /\ q \in Seq(Durations)
      /\ stats.total <= c * stats.max /\ since <= c
      /\ \A k \in DOMAIN q :
           /\ q[k] <= stats.max
           /\ k > Len(q) - since => \E e \in Durations : q[k] < e
  BY DEF StatsAddUp
<1>2. /\ Window \in Nat \ {0} /\ Durations \subseteq Nat /\ since \in 0 .. Window
      /\ Len(q) = Smaller(c, Window)
  BY ReadAssumption DEF TypeOK
<1>3. q \in Seq(Nat) /\ DOMAIN q = 1 .. Len(q) /\ Len(q) \in Nat
  <2>1. q \in Seq(Durations) /\ Durations \subseteq Nat
    BY <1>1, <1>2
  <2> HIDE DEF q
  <2>2. /\ DOMAIN q = 1 .. Len(q) /\ Len(q) \in Nat /\ q = [k \in 1 .. Len(q) |-> q[k]]
        /\ \A k \in 1 .. Len(q) : q[k] \in Nat
    BY <2>1
  <2> QED
    BY <2>1, <2>2
<1> SUFFICES ASSUME c > 0 PROVE PercentilesInOrder
  BY DEF PercentilesInOrder
<1>4. Len(q) # 0 /\ Len(q) <= Window
  BY <1>1, <1>2 DEF Smaller
<1>5. /\ Percentile(q, 50) \in Nat /\ Percentile(q, 95) \in Nat
      /\ Percentile(q, 50) <= Percentile(q, 95)
      /\ \E k \in 1 .. Len(q) : 100 * q[k] <= Percentile(q, 50)
      /\ \E k \in 1 .. Len(q) : Percentile(q, 95) <= 100 * q[k]
  BY <1>3, <1>4, PercentilesOfSamples
<1>6. /\ S.p50 = Percentile(q, 50) /\ S.p95 = Percentile(q, 95)
      /\ S.max = 100 * stats.max /\ S.mean = (100 * stats.total) \div c
  BY DEF Snapshot
<1> HIDE DEF q, S
<1>7. S.mean <= S.max
  <2>1. /\ 100 * stats.total <= c * (100 * stats.max)
        /\ c \in Nat \ {0} /\ 100 * stats.total \in Nat /\ 100 * stats.max \in Nat
    <3>1. c * (100 * stats.max) = 100 * (c * stats.max) /\ c * stats.max \in Nat
      BY <1>1
    <3> QED
      BY <1>1, <3>1
  <2> HIDE DEF c
  <2>2. \A x, y \in Nat, n \in Nat \ {0} : x <= n * y => x \div n <= y
    <3> SUFFICES ASSUME NEW x \in Nat, NEW y \in Nat, NEW n \in Nat \ {0}, x <= n * y,
                        x \div n > y
                 PROVE  FALSE
      OBVIOUS
    <3>1. x \div n \in Nat /\ n * (x \div n) <= x
      OBVIOUS
    <3>2. n * (y + 1) <= n * (x \div n)
      BY <3>1, TimesGrows
    <3>3. n * (y + 1) = n * y + n /\ n * y \in Nat
      OBVIOUS
    <3> QED
      BY <3>1, <3>2, <3>3
  <2> QED
    BY <1>6, <2>1, <2>2
<1>8. S.p95 <= S.max
  <2>1. PICK k \in 1 .. Len(q) : Percentile(q, 95) <= 100 * q[k]
    BY <1>5
  <2>2. q[k] \in Nat /\ q[k] <= stats.max
    BY <1>1, <1>3 DEF q
  <2> QED
    BY <1>1, <1>5, <1>6, <2>1, <2>2
<1>9. ASSUME NEW d \in Durations, \A e \in Durations : e <= d, since >= Window
      PROVE  S.p95 < 100 * d
  <2>1. PICK k \in 1 .. Len(q) : Percentile(q, 95) <= 100 * q[k]
    BY <1>5
  <2>2. q[k] \in Nat /\ k > Len(q) - since
    BY <1>2, <1>3, <1>4, <1>9
  <2>3. PICK e \in Durations : q[k] < e
    BY <1>1, <1>3, <2>2 DEF q
  <2> QED
    BY <1>2, <1>5, <1>6, <1>9, <2>1, <2>2, <2>3
<1>10. \E k \in DOMAIN q : 100 * q[k] <= S.p50
  BY <1>3, <1>5, <1>6
<1> QED
  BY <1>5, <1>6, <1>7, <1>8, <1>9, <1>10 DEF PercentilesInOrder, q, S

(* What a turn has done, read and replied, and what the statistics keep,   *)
(* in every state.                                                         *)
THEOREM ReadInvariant == Spec => []IndInv
<1>1. Init => IndInv
  BY TypeInit, TurnInit, StatsInit DEF IndInv
<1>2. IndInv /\ [Next]_vars => IndInv'
  BY TypeStep, TurnSoFarStep, FailuresStep, SteadyStep, SummaryStep, StatsStep DEF IndInv
<1> QED
  BY <1>1, <1>2, PTL DEF Spec

(* The state of a turn keeps its type.                                     *)
THEOREM ReadTypeCorrect == Spec => []TypeOK
<1>1. IndInv => TypeOK
  BY DEF IndInv
<1> QED
  BY <1>1, ReadInvariant, PTL

(* A reply admits the calls that failed, but for the three ways.           *)
THEOREM OnlyThreeSilences == Spec => []ThreeSilences
<1>1. IndInv => ThreeSilences
  BY DEF IndInv, FailuresAdmitted, ThreeSilences, Replied, ToolErrorInTrace
<1> QED
  BY <1>1, ReadInvariant, PTL

(* The figures of a summary add up, of however many issues and statuses,   *)
(* and whenever Node was asked for each.                                   *)
THEOREM SummariesAddUp == Spec => []SummaryAddsUp
<1>1. IndInv => SummaryAddsUp
  BY DEF IndInv
<1> QED
  BY <1>1, ReadInvariant, PTL

(* A summary that Node's data stood still for is true of them.             *)
THEOREM SteadySummariesAreTrue == Spec => []SteadySummaryIsTrue
<1>1. IndInv => SteadySummaryIsTrue
  BY DEF IndInv, SteadySoFar, SteadySummaryIsTrue, Replied
<1> QED
  BY <1>1, ReadInvariant, PTL

(* The percentiles are in order and within the extremes, however long the  *)
(* window is and however long each call took.                              *)
THEOREM PercentilesAreInOrder == Spec => []PercentilesInOrder
<1>1. IndInv => PercentilesInOrder
  BY InOrder DEF IndInv
<1> QED
  BY <1>1, ReadInvariant, PTL
=============================================================================
