--------------------------- MODULE GraphSyncProofs ---------------------------
(* Theorems about GraphSync, for any data of Node and any number of syncs, *)
(* events and tools.                                                       *)
EXTENDS GraphSync, FiniteSetTheorems, SequenceTheorems, WellFoundedInduction, TLAPS

-----------------------------------------------------------------------------
(* Facts. *)

(* A fact is made of its three parts.                                      *)
LEMMA FactParts ==
  \A r, x, y : /\ Fact(r, x, y).rel = r
               /\ Fact(r, x, y).from = x
               /\ Fact(r, x, y).to = y
BY DEF Fact

(* A fact of the graph is determined by its parts.                         *)
LEMMA FactsAreRecords ==
  \A f \in Facts : f = Fact(f.rel, f.from, f.to)
BY DEF Facts, Fact

(* A statement that the code may skip, after those before it.              *)
LEMMA IfGivenType ==
  ASSUME NEW S, NEW v \in Seq(S), NEW W \in S, NEW value, NEW x,
         x = v \o IfGiven(value, W), v # <<>>
  PROVE  x \in Seq(S) /\ x # <<>>
PROOF
  <1>1. CASE value = None
    <2>1. v \o <<>> = v
      BY ConcatEmptySeq
    <2> QED BY <1>1, <2>1 DEF IfGiven
  <1>2. CASE value # None
    <2>1. x = v \o <<W>>
      BY <1>2 DEF IfGiven
    <2>2. /\ x \in Seq(S) /\ Len(x) = Len(v) + 1
          /\ \A n \in 1..Len(v) : x[n] = v[n]
          /\ x[Len(v) + 1] = W
      BY <2>1
    <2>3. Len(v) \in Nat /\ DOMAIN v = 1..Len(v) /\ DOMAIN x = 1 .. Len(v) + 1
      BY <2>2, LenProperties
    <2>4. x # <<>>
      BY <2>2, <2>3
    <2> QED BY <2>2, <2>4
  <1> QED BY <1>1, <1>2

(* What it adds to what they say.                                          *)
LEMMA IfGivenFacts ==
  ASSUME NEW S, NEW v \in Seq(S), NEW W \in S, NEW value, NEW x,
         x = v \o IfGiven(value, W), v # <<>>
  PROVE  \A f : f \in Told(x) <=> f \in Told(v) \/ (value # None /\ f \in W)
PROOF
  <1>1. CASE value = None
    <2>1. v \o <<>> = v
      BY ConcatEmptySeq
    <2> QED BY <1>1, <2>1 DEF IfGiven
  <1>2. CASE value # None
    <2>1. x = v \o <<W>>
      BY <1>2 DEF IfGiven
    <2>2. /\ x \in Seq(S) /\ Len(x) = Len(v) + 1
          /\ \A n \in 1..Len(v) : x[n] = v[n]
          /\ x[Len(v) + 1] = W
      BY <2>1
    <2>3. Len(v) \in Nat /\ DOMAIN v = 1..Len(v) /\ DOMAIN x = 1 .. Len(v) + 1
      BY <2>2, LenProperties
    <2>4. Told(x) = Told(v) \cup W
      <3>1. DOMAIN x = DOMAIN v \cup {Len(v) + 1}
        BY <2>3
      <3>2. \A n \in DOMAIN v : x[n] = v[n]
        BY <2>2, <2>3
      <3> QED BY <2>2, <3>1, <3>2 DEF Told
    <2> QED BY <1>2, <2>4
  <1> QED BY <1>1, <1>2

(* What upsert_issue writes of a row is a sequence of statements, which    *)
(* taken together say the following.                                       *)
LEMMA RowStatements ==
  ASSUME NEW i \in Issues, NEW r
  PROVE  /\ \E S : RowWrites(i, r) \in Seq(S)
         /\ RowWrites(i, r) # <<>>
         /\ \A f : f \in Told(RowWrites(i, r)) <=>
              \/ f = Fact("title", i, r.title)
              \/ f = Fact("state", i, r.state)
              \/ f = Fact("IN_PROJECT", i, Home[i])
              \/ f = Fact("REPORTED", Reporter[i], i)
              \/ r.assignee # None /\ f = Fact("ASSIGNED_TO", r.assignee, i)
              \/ r.sprint # None /\ f = Fact("IN_SPRINT", i, r.sprint)
PROOF
  <1> DEFINE a == r.assignee
             b == r.sprint
             A == {Fact("title", i, r.title), Fact("state", i, r.state)}
             B == {Fact("IN_PROJECT", i, Home[i])}
             C == {Fact("REPORTED", Reporter[i], i)}
             D == {Fact("ASSIGNED_TO", a, i)}
             E == {Fact("IN_SPRINT", i, b)}
             S == {A, B, C, D, E}
             v == <<A, B, C>>
             w == v \o IfGiven(a, D)
             x == w \o IfGiven(b, E)
  <1>1. x = RowWrites(i, r)
    BY DEF RowWrites
  <1>2. v \in Seq(S) /\ v # <<>> /\ Told(v) = A \cup B \cup C
    <2> HIDE DEF A, B, C, D, E
    <2>1. v \in Seq(S) /\ v # <<>> /\ DOMAIN v = {1, 2, 3} /\ v[1] = A /\ v[2] = B /\ v[3] = C
      OBVIOUS
    <2> HIDE DEF v
    <2> QED BY <2>1 DEF Told
  <1>3. D \in S /\ E \in S
    OBVIOUS
  <1> HIDE DEF a, b, A, B, C, D, E, S, v
  <1>4. w = v \o IfGiven(a, D)
    OBVIOUS
  <1>5. x = w \o IfGiven(b, E)
    OBVIOUS
  <1> HIDE DEF w, x
  <1>6. /\ w \in Seq(S) /\ w # <<>>
        /\ \A f : f \in Told(w) <=> f \in Told(v) \/ (a # None /\ f \in D)
    <2>1. v \in Seq(S) /\ v # <<>> /\ D \in S /\ w = v \o IfGiven(a, D)
      BY <1>2, <1>3, <1>4
    <2>2. w \in Seq(S)
      BY <2>1, IfGivenType
    <2>3. w # <<>>
      BY <2>1, IfGivenType
    <2>4. \A f : f \in Told(w) <=> f \in Told(v) \/ (a # None /\ f \in D)
      BY <2>1, IfGivenFacts
    <2> QED BY <2>2, <2>3, <2>4
  <1>7. /\ x \in Seq(S) /\ x # <<>>
        /\ \A f : f \in Told(x) <=> f \in Told(w) \/ (b # None /\ f \in E)
    <2>1. w \in Seq(S) /\ w # <<>> /\ E \in S /\ x = w \o IfGiven(b, E)
      BY <1>3, <1>5, <1>6
    <2>2. x \in Seq(S)
      BY <2>1, IfGivenType
    <2>3. x # <<>>
      BY <2>1, IfGivenType
    <2>4. \A f : f \in Told(x) <=> f \in Told(w) \/ (b # None /\ f \in E)
      BY <2>1, IfGivenFacts
    <2> QED BY <2>2, <2>3, <2>4
  <1>8. \A f : f \in Told(x) <=>
          \/ f \in A \/ f \in B \/ f \in C
          \/ a # None /\ f \in D
          \/ b # None /\ f \in E
    BY <1>2, <1>6, <1>7
  <1>9. \A f : f \in Told(x) <=>
          \/ f = Fact("title", i, r.title)
          \/ f = Fact("state", i, r.state)
          \/ f = Fact("IN_PROJECT", i, Home[i])
          \/ f = Fact("REPORTED", Reporter[i], i)
          \/ a # None /\ f = Fact("ASSIGNED_TO", a, i)
          \/ b # None /\ f = Fact("IN_SPRINT", i, b)
    BY <1>8 DEF A, B, C, D, E
  <1> QED BY <1>1, <1>7, <1>9 DEF a, b

(* The last part of it.                                                    *)
LEMMA RowFacts ==
  ASSUME NEW i \in Issues, NEW r
  PROVE  \A f : f \in Told(RowWrites(i, r)) <=>
           \/ f = Fact("title", i, r.title)
           \/ f = Fact("state", i, r.state)
           \/ f = Fact("IN_PROJECT", i, Home[i])
           \/ f = Fact("REPORTED", Reporter[i], i)
           \/ r.assignee # None /\ f = Fact("ASSIGNED_TO", r.assignee, i)
           \/ r.sprint # None /\ f = Fact("IN_SPRINT", i, r.sprint)
BY RowStatements

(* These statements are a sequence of sets of facts.                       *)
LEMMA RowWritesType ==
  ASSUME NEW i \in Issues, NEW r \in Rows
  PROVE  /\ RowWrites(i, r) \in Seq(SUBSET Facts) /\ RowWrites(i, r) # <<>>
         /\ Told(RowWrites(i, r)) \subseteq Facts
PROOF
  <1> DEFINE w == RowWrites(i, r)
  <1>1. Told(w) \subseteq Facts
    <2> SUFFICES ASSUME NEW f \in Told(w) PROVE f \in Facts
      OBVIOUS
    <2>1. Home[i] \in Projects /\ Reporter[i] \in Users
      BY GraphAssumption
    <2>2. r.title \in Texts /\ r.state \in States /\ r.assignee \in Users \cup {None}
          /\ r.sprint \in Sprints \cup {None}
      BY DEF Rows
    <2> QED BY <2>1, <2>2, RowFacts DEF Facts, Fact
  <1>2. PICK S : w \in Seq(S)
    BY RowStatements
  <1>3. w # <<>>
    BY RowStatements
  <1> HIDE DEF w
  <1>4. Len(w) \in Nat /\ w \in [1..Len(w) -> S] /\ DOMAIN w = 1..Len(w)
    BY <1>2, LenProperties
  <1>5. \A n \in 1..Len(w) : w[n] \in SUBSET Facts
    BY <1>1, <1>4 DEF Told
  <1>6. w \in [1..Len(w) -> SUBSET Facts]
    BY <1>4, <1>5
  <1>7. w \in Seq(SUBSET Facts)
    BY <1>4, <1>6
  <1> QED BY <1>1, <1>3, <1>7 DEF w

\* The facts that no row carries: those of labels and of dependencies.
Links == {f \in Facts : f.rel \in {"name", "HAS_LABEL", "BLOCKS"}}

(* What upsert_issue writes of the lists beside a row is a sequence of     *)
(* sets of such facts.                                                     *)
LEMMA LinkWritesType ==
  ASSUME NEW i \in Issues
  PROVE  LinkWrites(i) \in Seq(SUBSET Links)
PROOF
  <1>1. LabelWrites(i) \in Seq(SUBSET Links)
    <2> DEFINE L == LabelsOf[i]
               m == Len(L)
               w(n) == {IF n % 2 = 1 THEN Name(l) ELSE Fact("HAS_LABEL", i, l) :
                          l \in {L[(n + 1) \div 2]} \ {None}}
    <2>1. L \in Seq(Labels \cup {None}) /\ m \in Nat
      BY GraphAssumption, LenProperties
    <2>2. \A n \in 1..(2 * m) : w(n) \in SUBSET Links
      <3> SUFFICES ASSUME NEW n \in 1..(2 * m), NEW l \in {L[(n + 1) \div 2]} \ {None}
                   PROVE  Name(l) \in Links /\ Fact("HAS_LABEL", i, l) \in Links
        OBVIOUS
      <3>1. (n + 1) \div 2 \in 1..m
        <4> HIDE DEF m
        <4> QED BY <2>1
      <3>2. l \in Labels
        BY <2>1, <3>1, ElementOfSeq
      <3> QED BY <3>2 DEF Links, Name, Fact, Facts
    <2>3. 2 * m \in Nat
      BY <2>1
    <2>4. LabelWrites(i) = [n \in 1..(2 * m) |-> w(n)]
      BY DEF LabelWrites
    <2> HIDE DEF m, w
    <2> QED BY <2>2, <2>3, <2>4
  <1>2. BlockWrites(i) \in Seq(SUBSET Links)
    <2> DEFINE B == Blocks[i]
               m == Len(B)
               w(n) == {Fact("BLOCKS", i, B[n])}
    <2>1. B \in Seq(Issues) /\ m \in Nat /\ DOMAIN B = 1..m
      BY GraphAssumption, LenProperties
    <2>2. \A n \in 1..m : w(n) \in SUBSET Links
      BY <2>1, ElementOfSeq DEF Links, Fact, Facts
    <2>3. BlockWrites(i) = [n \in 1..m |-> w(n)]
      BY <2>1 DEF BlockWrites
    <2> HIDE DEF m, w
    <2> QED BY <2>1, <2>2, <2>3
  <1>3. BlockedByWrites(i) \in Seq(SUBSET Links)
    <2> DEFINE B == BlockedBy[i]
               m == Len(B)
               w(n) == {Fact("BLOCKS", B[n], i)}
    <2>1. B \in Seq(Issues) /\ m \in Nat /\ DOMAIN B = 1..m
      BY GraphAssumption, LenProperties
    <2>2. \A n \in 1..m : w(n) \in SUBSET Links
      BY <2>1, ElementOfSeq DEF Links, Fact, Facts
    <2>3. BlockedByWrites(i) = [n \in 1..m |-> w(n)]
      BY <2>1 DEF BlockedByWrites
    <2> HIDE DEF m, w
    <2> QED BY <2>1, <2>2, <2>3
  <1>4. LabelWrites(i) \o BlockWrites(i) \in Seq(SUBSET Links)
    BY <1>1, <1>2, ConcatProperties
  <1> QED BY <1>3, <1>4, ConcatProperties DEF LinkWrites

(* So the facts they write are such facts.                                 *)
LEMMA LinkFacts == \A i \in Issues : Told(LinkWrites(i)) \subseteq Links
BY LinkWritesType, ElementOfSeq, LenProperties DEF Told

(* A statement of the whole upsert is one of the row's or of the lists'.   *)
LEMMA IssueWritesParts ==
  ASSUME NEW i \in Issues, NEW r \in Rows
  PROVE  /\ IssueWrites(i, r) \in Seq(SUBSET Facts)
         /\ \A n \in DOMAIN IssueWrites(i, r) :
              \/ \E k \in DOMAIN RowWrites(i, r) : IssueWrites(i, r)[n] = RowWrites(i, r)[k]
              \/ \E k \in DOMAIN LinkWrites(i) : IssueWrites(i, r)[n] = LinkWrites(i)[k]
PROOF
  <1> DEFINE v == RowWrites(i, r)
             w == LinkWrites(i)
             x == v \o w
  <1>1. v \in Seq(SUBSET Facts) /\ w \in Seq(SUBSET Facts)
    <2>1. w \in Seq(SUBSET Links)
      BY LinkWritesType
    <2>2. Len(w) \in Nat /\ w \in [1..Len(w) -> SUBSET Links]
      <3> HIDE DEF w
      <3> QED BY <2>1
    <2>3. w \in [1..Len(w) -> SUBSET Facts]
      <3> HIDE DEF w
      <3> QED BY <2>2 DEF Links
    <2>4. w \in Seq(SUBSET Facts)
      <3> HIDE DEF w
      <3> QED BY <2>2, <2>3
    <2> QED BY <2>4, RowWritesType
  <1> HIDE DEF v, w
  <1>2. /\ x \in Seq(SUBSET Facts) /\ Len(x) = Len(v) + Len(w)
        /\ \A n \in 1 .. Len(v) + Len(w) : x[n] = IF n <= Len(v) THEN v[n] ELSE w[n - Len(v)]
    BY <1>1, ConcatProperties
  <1>3. /\ DOMAIN v = 1..Len(v) /\ DOMAIN w = 1..Len(w) /\ DOMAIN x = 1..Len(x)
        /\ Len(v) \in Nat /\ Len(w) \in Nat
    BY <1>1, <1>2, LenProperties
  <1>4. ASSUME NEW n \in DOMAIN x
        PROVE  (\E k \in DOMAIN v : x[n] = v[k]) \/ (\E k \in DOMAIN w : x[n] = w[k])
    <2> HIDE DEF x
    <2>1. CASE n <= Len(v)
      BY <1>2, <1>3, <1>4, <2>1
    <2>2. CASE ~(n <= Len(v))
      <3>1. n - Len(v) \in DOMAIN w
        BY <1>2, <1>3, <1>4, <2>2
      <3> QED BY <1>2, <1>3, <1>4, <2>2, <3>1
    <2> QED BY <2>1, <2>2
  <1> QED BY <1>2, <1>4 DEF IssueWrites, v, w

(* What Node's data say, whatever they are.                                *)
LEMMA FactsOfShape ==
  ASSUME NEW team \in [Projects -> SUBSET Users],
         NEW table \in [Issues -> Rows \cup {None}]
  PROVE  \A f \in FactsOf(team, table) :
           /\ f \in Facts /\ f.rel # "REMOVED"
           /\ f.rel = "MEMBER_OF" => f.to \in Projects /\ f.from \in team[f.to]
           /\ f.rel \in Single => f.from \in Issues /\ table[f.from] # None
           /\ f.rel = "title" => f.to = table[f.from].title
           /\ f.rel = "state" => f.to = table[f.from].state
PROOF
  <1> TAKE f \in FactsOf(team, table)
  <1>1. CASE f \in {Name(x) : x \in Users \cup Projects \cup Sprints}
    BY <1>1 DEF Name, Fact, Facts, Single
  <1>2. CASE f \in UNION {{Member(u, p) : u \in team[p]} : p \in Projects}
    BY <1>2 DEF Member, Fact, Facts, Single
  <1>3. CASE f \in UNION {Told(RowWrites(i, table[i])) : i \in {k \in Issues : table[k] # None}}
    <2>1. PICK i \in Issues : table[i] # None /\ f \in Told(RowWrites(i, table[i]))
      BY <1>3
    <2>2. f \in Facts
      BY <2>1, RowWritesType
    <2> QED BY <2>1, <2>2, RowFacts DEF Fact, Single
  <1>4. CASE f \in UNION {Told(LinkWrites(i)) : i \in {k \in Issues : table[k] # None}}
    BY <1>4, LinkFacts DEF Links, Single
  <1> QED BY <1>1, <1>2, <1>3, <1>4 DEF FactsOf, ListsOf

(* What Node's data say of an issue and of a team.                         *)
LEMMA FactsOfParts ==
  ASSUME NEW team, NEW table
  PROVE  /\ \A i \in Issues :
              table[i] # None => Told(RowWrites(i, table[i])) \subseteq FactsOf(team, table)
         /\ \A p \in Projects : \A u \in team[p] : Member(u, p) \in FactsOf(team, table)
         /\ \A x \in Users \cup Projects \cup Sprints : Name(x) \in FactsOf(team, table)
         /\ \A i \in Issues : table[i] # None => Told(LinkWrites(i)) \subseteq FactsOf(team, table)
BY DEF FactsOf, ListsOf

(* The same of what its lists say.                                         *)
LEMMA ListsOfParts ==
  ASSUME NEW team, NEW table
  PROVE  /\ ListsOf(team, table) \subseteq FactsOf(team, table)
         /\ \A i \in Issues :
              table[i] # None => Told(RowWrites(i, table[i])) \subseteq ListsOf(team, table)
         /\ \A p \in Projects : \A u \in team[p] : Member(u, p) \in ListsOf(team, table)
BY DEF FactsOf, ListsOf

(* A statement adds its facts and keeps or replaces those there were.      *)
LEMMA PutSubset == \A g, w : w \subseteq Put(g, w) /\ Put(g, w) \subseteq g \cup w
BY DEF Put

(* Tombstones replace the memberships they end.                            *)
LEMMA BuriedType ==
  ASSUME NEW p, NEW kept
  PROVE  Buried(graph, p, kept) \subseteq
           graph \cup {Removed(f.from, f.to) : f \in {h \in graph : h.rel = "MEMBER_OF"}}
BY DEF Buried, Lapsed

-----------------------------------------------------------------------------
(* Types. *)

(* The initial state has its type.                                         *)
LEMMA InitType == Init => TypeOK
PROOF
  <1> SUFFICES ASSUME Init PROVE TypeOK
    OBVIOUS
  <1>1. said \subseteq Facts
    BY GraphAssumption, FactsOfShape DEF Init
  <1>2. /\ todo \in [Jobs -> Seq(SUBSET Facts)]
        /\ at \in [Jobs -> Ended]
        /\ left \in [Jobs -> SUBSET Upserts]
    BY EmptySeq DEF Init, Ended
  <1>3. /\ roster \in [Projects -> SUBSET Users] /\ rows \in [Issues -> Rows \cup {None}]
        /\ changes \in 0..MaxChanges
    BY GraphAssumption DEF Init
  <1>4. /\ ahead \in [Syncs -> SUBSET Projects] /\ keep \in [Syncs -> SUBSET Users]
        /\ project \in [Jobs -> Projects \cup {None}]
        /\ issue \in [Tools -> Issues \cup {None}] /\ seen \in [Tools -> Rows \cup {None}]
        /\ past \in [Tools -> [Users -> Nat] \cup {None}]
        /\ answer \in [Tools -> SUBSET Issues]
        /\ steady \in [Syncs -> BOOLEAN] /\ fresh \in BOOLEAN /\ graph \subseteq Facts
    BY DEF Init
  <1> QED BY <1>1, <1>2, <1>3, <1>4 DEF TypeOK, Ended

(* A statement that is written is one of an upsert on its way.             *)
LEMMA Statements ==
  ASSUME TypeOK, NEW j \in Jobs,
         NEW writes \in (IF todo[j] = <<>> THEN left[j] ELSE {todo[j]})
  PROVE  /\ writes \in Seq(SUBSET Facts) /\ writes # <<>>
         /\ Head(writes) \subseteq Facts /\ Tail(writes) \in Seq(SUBSET Facts)
         /\ Len(writes) \in Nat \ {0} /\ DOMAIN writes = 1..Len(writes)
         /\ Head(writes) = writes[1] /\ DOMAIN Tail(writes) = 1..(Len(writes) - 1)
         /\ \A n \in DOMAIN Tail(writes) : n + 1 \in DOMAIN writes /\ Tail(writes)[n] = writes[n + 1]
PROOF
  <1>1. writes \in Seq(SUBSET Facts) /\ writes # <<>>
    BY DEF TypeOK, Upserts
  <1>2. Head(writes) \in SUBSET Facts /\ Tail(writes) \in Seq(SUBSET Facts)
        /\ Len(Tail(writes)) = Len(writes) - 1 /\ Len(writes) \in Nat \ {0}
        /\ DOMAIN writes = 1..Len(writes)
        /\ \A n \in 1..Len(Tail(writes)) : Tail(writes)[n] = writes[n + 1]
    BY <1>1, HeadTailProperties, LenProperties, EmptySeq
  <1>3. DOMAIN Tail(writes) = 1..Len(Tail(writes))
    BY <1>2, LenProperties
  <1>4. Head(writes) = writes[1]
    BY <1>1
  <1> QED BY <1>1, <1>2, <1>3, <1>4

(* A statement leaves the graph and what is on its way typed.              *)
LEMMA WriteType == \A j \in Jobs : TypeOK /\ Write(j) => TypeOK'
PROOF
  <1> SUFFICES ASSUME NEW j \in Jobs, TypeOK, Write(j) PROVE TypeOK'
    OBVIOUS
  <1>1. PICK writes \in IF todo[j] = <<>> THEN left[j] ELSE {todo[j]} :
          /\ graph' = Put(graph, Head(writes))
          /\ todo' = [todo EXCEPT ![j] = Tail(writes)]
          /\ left' = IF todo[j] = <<>> THEN [left EXCEPT ![j] = @ \ {writes}] ELSE left
          /\ Agree(Head(writes) \subseteq Current)
          /\ UNCHANGED <<nodeVars, at, project, ahead, keep, toolVars>>
    BY DEF Write
  <1>2. graph' \subseteq Facts
    BY <1>1, Statements, PutSubset DEF TypeOK
  <1>3. todo' \in [Jobs -> Seq(SUBSET Facts)]
    BY <1>1, Statements DEF TypeOK
  <1>4. left' \in [Jobs -> SUBSET Upserts]
    BY <1>1 DEF TypeOK
  <1>5. steady' \in [Syncs -> BOOLEAN] /\ fresh' \in BOOLEAN
    BY <1>1 DEF TypeOK, Agree
  <1> QED BY <1>1, <1>2, <1>3, <1>4, <1>5 DEF TypeOK, nodeVars, toolVars

(* Upserts of names, members and issues have their type.                   *)
LEMMA NameWritesType ==
  \A x \in Users \cup Projects \cup Sprints : NameWrites(x) \in Upserts
BY DEF NameWrites, Name, Fact, Facts, Upserts

(* As above.                                                               *)
LEMMA MemberWritesType ==
  \A u \in Users, p \in Projects : MemberWrites(u, p) \in Upserts
BY DEF MemberWrites, Name, Member, Fact, Facts, Upserts

(* The calls of a sync keep the type.                                      *)
LEMMA SyncType ==
  \A s \in Syncs : TypeOK /\ Placed /\ (StartSync(s) \/ SyncStep(s)) => TypeOK'
PROOF
  <1> SUFFICES ASSUME NEW s \in Syncs, TypeOK, Placed, StartSync(s) \/ SyncStep(s)
               PROVE  TypeOK'
    OBVIOUS
  <1> s \in Jobs
    BY DEF Jobs
  <1> USE DEF TypeOK, nodeVars, syncVars, toolVars, history
  <1>1. CASE StartSync(s)
    BY <1>1 DEF StartSync, Goto
  <1>2. CASE NextProject(s)
    <2>1. PICK p \in ahead[s] :
            /\ project' = [project EXCEPT ![s] = p]
            /\ ahead' = [ahead EXCEPT ![s] = @ \ {p}]
            /\ todo' = [todo EXCEPT ![s] = NameWrites(p)]
      BY <1>2 DEF NextProject
    <2>2. p \in Projects /\ NameWrites(p) \in Seq(SUBSET Facts)
      BY NameWritesType DEF Upserts
    <2> QED BY <1>2, <2>1, <2>2 DEF NextProject, Goto
  <1>3. CASE ListMembers(s)
    <2>1. project[s] \in Projects /\ roster[project[s]] \subseteq Users
      BY <1>3 DEF ListMembers, Placed
    <2>2. {MemberWrites(u, project[s]) : u \in roster[project[s]]} \subseteq Upserts
      BY <2>1, MemberWritesType
    <2> QED BY <1>3, <2>1, <2>2 DEF ListMembers, Goto, Listed
  <1>4. CASE Tombstone(s)
    <2>1. Buried(graph, project[s], keep[s]) \subseteq Facts
      BY BuriedType DEF Removed, Fact, Facts
    <2> QED BY <1>4, <2>1 DEF Tombstone, Goto, Agree
  <1>5. CASE ListSprints(s)
    <2>1. {NameWrites(x) : x \in {y \in Sprints : Home[y] = project[s]}} \subseteq Upserts
      BY NameWritesType
    <2> QED BY <1>5, <2>1 DEF ListSprints, Goto, Listed
  <1>6. CASE ListIssues(s)
    <2>1. {RowWrites(i, rows[i]) : i \in Existing(project[s])} \subseteq Upserts
      BY RowWritesType DEF Existing, Upserts
    <2> QED BY <1>6, <2>1 DEF ListIssues, Goto, Listed
  <1>7. CASE EndSync(s)
    <2>1. fresh' \in BOOLEAN
      BY <1>7 DEF EndSync
    <2>2. at' \in [Jobs -> Ended \cup {"projects", "members", "tombstones", "sprints", "issues",
                                 "applying", "patching", "mirroring", "creating",
                                 "resolving", "loading", "ranking"}]
      BY <1>7 DEF EndSync, Goto, Ended
    <2>3. project' \in [Jobs -> Projects \cup {None}]
      BY <1>7 DEF EndSync
    <2> QED BY <1>7, <2>1, <2>2, <2>3 DEF EndSync
  <1> QED BY <1>1, <1>2, <1>3, <1>4, <1>5, <1>6, <1>7 DEF SyncStep

(* A change of Node's data keeps the type, as far as they go.              *)
LEMMA ChangedType ==
  ASSUME TypeOK, NEW team \in [Projects -> SUBSET Users],
         NEW table \in [Issues -> Rows \cup {None}], Changed(team, table)
  PROVE  /\ roster' \in [Projects -> SUBSET Users] /\ rows' \in [Issues -> Rows \cup {None}]
         /\ said' \subseteq Facts /\ changes' \in 0..MaxChanges
         /\ steady' \in [Syncs -> BOOLEAN] /\ fresh' \in BOOLEAN
PROOF
  <1>1. FactsOf(team, table) \subseteq Facts
    BY FactsOfShape
  <1> QED BY <1>1, GraphAssumption DEF TypeOK, Changed, Agree

(* The call of apply_event, if there is one, is of one job.                *)
LEMMA PublishedShape ==
  ASSUME NEW writes, Published(writes)
  PROVE  \/ at' = at /\ todo' = todo
         \/ \E e \in Events : /\ at[e] = "idle" /\ at' = [at EXCEPT ![e] = "applying"]
                              /\ todo' = [todo EXCEPT ![e] = writes]
BY DEF Published, Apply, Goto

(* It keeps the type.                                                      *)
LEMMA PublishedType ==
  ASSUME TypeOK, NEW writes \in Seq(SUBSET Facts), Published(writes)
  PROVE  /\ todo' \in [Jobs -> Seq(SUBSET Facts)]
         /\ at' \in [Jobs -> Ended \cup {"projects", "members", "tombstones", "sprints", "issues",
                                 "applying", "patching", "mirroring", "creating",
                                 "resolving", "loading", "ranking"}]
PROOF
  <1>1. CASE at' = at /\ todo' = todo
    BY <1>1 DEF TypeOK
  <1>2. CASE \E e \in Events : /\ at[e] = "idle" /\ at' = [at EXCEPT ![e] = "applying"]
                               /\ todo' = [todo EXCEPT ![e] = writes]
    BY <1>2 DEF TypeOK, Jobs
  <1> QED BY <1>1, <1>2, PublishedShape

(* Rows that Node or a tool makes of rows are rows.                        *)
LEMMA RowsType ==
  \A r \in Rows :
    /\ Edits(r) \subseteq Rows
    /\ \A x \in Texts \cup {None}, u \in Users \cup {None} : Patched(r, x, u) \in Rows
BY DEF Rows, Edits, Patched

(* Node's changes keep the type.                                           *)
LEMMA NodeType == TypeOK /\ NodeStep => TypeOK'
PROOF
  <1> SUFFICES ASSUME TypeOK, NodeStep PROVE TypeOK'
    OBVIOUS
  <1>1. ASSUME NEW u \in Users, NEW p \in Projects, Join(u, p) PROVE TypeOK'
    <2>1. [roster EXCEPT ![p] = @ \cup {u}] \in [Projects -> SUBSET Users]
          /\ rows \in [Issues -> Rows \cup {None}]
      BY DEF TypeOK
    <2>2. <<{Member(u, p)}>> \in Seq(SUBSET Facts)
      BY DEF Member, Fact, Facts
    <2> QED BY <1>1, <2>1, <2>2, ChangedType, PublishedType DEF Join, TypeOK, syncVars, toolVars
  <1>2. ASSUME NEW u \in Users, NEW p \in Projects, Leave(u, p) PROVE TypeOK'
    <2>1. [roster EXCEPT ![p] = @ \ {u}] \in [Projects -> SUBSET Users]
          /\ rows \in [Issues -> Rows \cup {None}]
      BY DEF TypeOK
    <2> QED BY <1>2, <2>1, ChangedType DEF Leave, TypeOK, syncVars, toolVars
  <1>3. ASSUME NEW i \in Issues, Save(i) PROVE TypeOK'
    <2>1. PICK r \in IF New(i) THEN {r \in Rows : r.state = "open"}
                     ELSE IF rows[i] = None THEN {} ELSE Edits(rows[i]) :
            Changed(roster, [rows EXCEPT ![i] = r]) /\ Published(IssueWrites(i, r))
      BY <1>3 DEF Save
    <2>2. r \in Rows
      BY RowsType DEF TypeOK
    <2>3. [rows EXCEPT ![i] = r] \in [Issues -> Rows \cup {None}]
          /\ roster \in [Projects -> SUBSET Users]
      BY <2>2 DEF TypeOK
    <2>4. IssueWrites(i, r) \in Seq(SUBSET Facts)
      BY <2>2, IssueWritesParts
    <2>5. UNCHANGED <<graph, project, syncVars, toolVars>>
      BY <1>3 DEF Save
    <2> QED BY <2>1, <2>3, <2>4, <2>5, ChangedType, PublishedType DEF TypeOK, syncVars, toolVars
  <1>4. ASSUME NEW i \in Issues, Delete(i) PROVE TypeOK'
    <2>1. [rows EXCEPT ![i] = None] \in [Issues -> Rows \cup {None}]
          /\ roster \in [Projects -> SUBSET Users]
      BY DEF TypeOK
    <2> QED BY <1>4, <2>1, ChangedType DEF Delete, TypeOK, syncVars, toolVars
  <1> QED BY <1>1, <1>2, <1>3, <1>4 DEF NodeStep

(* The scores of a suggestion are natural numbers.                         *)
LEMMA CountsAreNat ==
  \A S : S \subseteq Issues => IsFiniteSet(S) /\ Cardinality(S) \in Nat
BY GraphAssumption, FS_Subset, FS_CardinalityType

(* What a suggestion read first is a score for each user.                  *)
LEMMA PastType ==
  ASSUME NEW p
  PROVE  [u \in Users |-> LET done == Resolved(u, p)
                          IN 3 * Cardinality(done) + 2 * Cardinality(done \cap Recent)]
           \in [Users -> Nat]
PROOF
  <1> SUFFICES ASSUME NEW u \in Users
               PROVE  3 * Cardinality(Resolved(u, p)) + 2 * Cardinality(Resolved(u, p) \cap Recent)
                        \in Nat
    OBVIOUS
  <1>1. Resolved(u, p) \subseteq Issues /\ Resolved(u, p) \cap Recent \subseteq Issues
    BY DEF Resolved, Assigned
  <1>2. Cardinality(Resolved(u, p)) \in Nat /\ Cardinality(Resolved(u, p) \cap Recent) \in Nat
    BY <1>1, CountsAreNat
  <1> QED BY <1>2

(* The calls of the tools keep the type.                                   *)
LEMMA ToolType ==
  ASSUME TypeOK, Placed, NEW t \in Tools,
         \/ ToolStep(t)
         \/ \E i \in Issues : FindIssue(t, i) \/ PostIssue(t, i)
         \/ \E p \in Projects : Suggest(t, p) \/ \E x \in Texts : Search(t, p, x)
  PROVE  TypeOK'
PROOF
  <1> t \in Jobs
    BY DEF Jobs
  <1> DEFINE Stage == Ended \cup {"projects", "members", "tombstones", "sprints", "issues",
                                  "applying", "patching", "mirroring", "creating",
                                  "resolving", "loading", "ranking"}
  <1>0. \A l \in Stage : [at EXCEPT ![t] = l] \in [Jobs -> Stage]
    BY DEF TypeOK
  <1>1. ASSUME NEW i \in Issues, FindIssue(t, i) PROVE TypeOK'
    <2>1. rows[i] \in Rows
      BY <1>1 DEF FindIssue, TypeOK
    <2> QED BY <1>0, <1>1, <2>1 DEF FindIssue, Goto, TypeOK, nodeVars, syncVars, history
  <1>2. ASSUME NEW i \in Issues, NEW r \in Rows, NEW l \in {"mirroring", "creating"},
               Mirror(t, i, r, l) \/ AnswerLost(t)
        PROVE  at' \in [Jobs -> Stage] /\ todo' \in [Jobs -> Seq(SUBSET Facts)]
    <2>1. RowWrites(i, r) \in Seq(SUBSET Facts)
      BY RowWritesType
    <2>2. at' \in [Jobs -> Stage]
      BY <1>0, <1>2 DEF Mirror, AnswerLost, Goto, Ended
    <2> QED BY <1>2, <2>1, <2>2 DEF Mirror, AnswerLost, TypeOK
  <1>3. ASSUME NEW i \in Issues, PostIssue(t, i) PROVE TypeOK'
    <2>1. PICK x \in Texts, u \in Users \cup {None} :
            LET row == [title |-> x, state |-> "open", assignee |-> u, sprint |-> None]
            IN /\ Changed(roster, [rows EXCEPT ![i] = row])
               /\ \/ Mirror(t, i, row, IF u = None THEN "creating" ELSE "mirroring")
                  \/ AnswerLost(t)
      BY <1>3 DEF PostIssue
    <2> DEFINE row == [title |-> x, state |-> "open", assignee |-> u, sprint |-> None]
    <2>2. row \in Rows
      BY DEF Rows, States
    <2>3. [rows EXCEPT ![i] = row] \in [Issues -> Rows \cup {None}]
          /\ roster \in [Projects -> SUBSET Users]
      BY <2>2 DEF TypeOK
    <2>4. at' \in [Jobs -> Stage] /\ todo' \in [Jobs -> Seq(SUBSET Facts)]
      <3> HIDE DEF row, Stage
      <3> QED BY <1>2, <2>1, <2>2 DEF row
    <2>5. /\ issue' = [issue EXCEPT ![t] = i] /\ project' = [project EXCEPT ![t] = Home[i]]
          /\ UNCHANGED <<graph, syncVars, seen, past, answer>> /\ Home[i] \in Projects
      BY <1>3, GraphAssumption DEF PostIssue
    <2> QED BY <2>1, <2>3, <2>4, <2>5, ChangedType DEF TypeOK, syncVars
  <1>4. CASE PatchIssue(t)
    <2>1. PICK x \in Texts \cup {None}, u \in Users \cup {None} :
            /\ Changed(roster, [rows EXCEPT ![issue[t]] = Patched(@, x, u)])
            /\ Mirror(t, issue[t], Patched(seen[t], x, u), "mirroring") \/ AnswerLost(t)
      BY <1>4 DEF PatchIssue
    <2>2. issue[t] \in Issues /\ seen[t] \in Rows /\ rows[issue[t]] \in Rows
      BY <1>4 DEF PatchIssue, Placed, TypeOK
    <2>3. Patched(rows[issue[t]], x, u) \in Rows /\ Patched(seen[t], x, u) \in Rows
      BY <2>2, RowsType
    <2>4. [rows EXCEPT ![issue[t]] = Patched(@, x, u)] \in [Issues -> Rows \cup {None}]
          /\ roster \in [Projects -> SUBSET Users]
      BY <2>2, <2>3 DEF TypeOK
    <2>5. at' \in [Jobs -> Stage] /\ todo' \in [Jobs -> Seq(SUBSET Facts)]
      <3> HIDE DEF Stage
      <3> QED BY <1>2, <2>1, <2>2, <2>3
    <2>6. seen' = [seen EXCEPT ![t] = None] /\ UNCHANGED <<graph, project, syncVars, issue, past, answer>>
      BY <1>4 DEF PatchIssue
    <2> QED BY <2>1, <2>4, <2>5, <2>6, ChangedType DEF TypeOK, syncVars
  <1>5. CASE Mirrored(t)
    BY <1>0, <1>5 DEF Mirrored, AfterMirror, Goto, Ended, TypeOK, nodeVars, syncVars, toolVars, history
  <1>6. ASSUME NEW p \in Projects, Suggest(t, p) PROVE TypeOK'
    BY <1>0, <1>6 DEF Suggest, Goto, TypeOK, nodeVars, syncVars, toolVars, history
  <1>7. CASE ReadResolved(t)
    <2>1. past'[t] \in [Users -> Nat] /\ past' = [past EXCEPT ![t] = past'[t]]
      BY <1>7, PastType DEF ReadResolved, TypeOK
    <2> QED BY <1>0, <1>7, <2>1 DEF ReadResolved, Goto, TypeOK, nodeVars, syncVars, history
  <1>8. CASE ReadLoad(t)
    BY <1>0, <1>8 DEF ReadLoad, Goto, Ended, TypeOK, nodeVars, syncVars, history
  <1>9. ASSUME NEW p \in Projects, NEW x \in Texts, Search(t, p, x) PROVE TypeOK'
    <2>1. PICK found \in SUBSET Issues : answer' = [answer EXCEPT ![t] = found]
      BY <1>9 DEF Search
    <2>2. at' \in [Jobs -> Stage]
      BY <1>0, <1>9 DEF Search, Goto, Ended
    <2>3. UNCHANGED <<nodeVars, graph, todo, project, syncVars, issue, seen, past, history>>
      BY <1>9 DEF Search
    <2> QED BY <2>1, <2>2, <2>3 DEF TypeOK, nodeVars, syncVars, history
  <1>10. CASE Rank(t)
    <2>1. answer' \in [Tools -> SUBSET Issues]
      BY <1>10 DEF Rank, TypeOK
    <2> QED BY <1>0, <1>10, <2>1 DEF Rank, Goto, Ended, TypeOK, nodeVars, syncVars, history
  <1> HIDE DEF Stage
  <1> QED BY <1>1, <1>3, <1>4, <1>5, <1>6, <1>7, <1>8, <1>9, <1>10 DEF ToolStep

(* Events and failures keep the type.                                      *)
LEMMA OtherType ==
  ASSUME TypeOK,
         \/ \E x \in Users \cup Projects \cup Sprints : Announce(x)
         \/ \E e \in Events : EventApplied(e)
         \/ \E j \in Jobs : Fail(j)
  PROVE  TypeOK'
PROOF
  <1> DEFINE Stage == Ended \cup {"projects", "members", "tombstones", "sprints", "issues",
                                  "applying", "patching", "mirroring", "creating",
                                  "resolving", "loading", "ranking"}
  <1>0. \A j \in Jobs, l \in Stage : [at EXCEPT ![j] = l] \in [Jobs -> Stage]
    BY DEF TypeOK
  <1>1. ASSUME NEW x \in Users \cup Projects \cup Sprints, Announce(x) PROVE TypeOK'
    <2>1. NameWrites(x) \in Seq(SUBSET Facts)
      BY NameWritesType DEF Upserts
    <2>2. PICK e \in Events : Apply(e, NameWrites(x))
      BY <1>1 DEF Announce
    <2>3. at' \in [Jobs -> Stage] /\ todo' \in [Jobs -> Seq(SUBSET Facts)]
      BY <1>0, <2>1, <2>2 DEF Apply, Goto, TypeOK, Jobs
    <2> QED BY <1>1, <2>3 DEF Announce, TypeOK, nodeVars, syncVars, toolVars, history
  <1>2. ASSUME NEW e \in Events, EventApplied(e) PROVE TypeOK'
    <2>1. at' \in [Jobs -> Stage]
      BY <1>0, <1>2 DEF EventApplied, Goto, Ended, Jobs
    <2> QED BY <1>2, <2>1 DEF EventApplied, TypeOK, nodeVars, syncVars, toolVars, history
  <1>3. ASSUME NEW j \in Jobs, Fail(j) PROVE TypeOK'
    <2>1. at' \in [Jobs -> Stage]
      BY <1>0, <1>3 DEF Fail, AfterMirror, Goto, Ended
    <2>2. project' \in [Jobs -> Projects \cup {None}]
      BY <1>3 DEF Fail, TypeOK
    <2>3. todo' \in [Jobs -> Seq(SUBSET Facts)] /\ left' \in [Jobs -> SUBSET Upserts]
      BY <1>3, EmptySeq DEF Fail, TypeOK
    <2>4. ahead' \in [Syncs -> SUBSET Projects] /\ keep' \in [Syncs -> SUBSET Users]
      BY <1>3 DEF Fail, TypeOK
    <2>5. seen' \in [Tools -> Rows \cup {None}] /\ past' \in [Tools -> [Users -> Nat] \cup {None}]
      BY <1>3 DEF Fail, TypeOK
    <2> QED BY <1>3, <2>1, <2>2, <2>3, <2>4, <2>5 DEF Fail, TypeOK, nodeVars, history
  <1> QED BY <1>1, <1>2, <1>3

(* A step of any kind keeps the type.                                      *)
LEMMA NextType == TypeOK /\ Placed /\ [Next]_vars => TypeOK'
PROOF
  <1> SUFFICES ASSUME TypeOK, Placed, [Next]_vars PROVE TypeOK'
    OBVIOUS
  <1>1. CASE UNCHANGED vars
    BY <1>1 DEF vars, nodeVars, syncVars, toolVars, history, TypeOK
  <1>2. CASE NodeStep
    BY <1>2, NodeType
  <1>3. CASE Start
    BY <1>3, SyncType, ToolType, OtherType DEF Start
  <1>4. ASSUME NEW j \in Jobs, Proceed(j) PROVE TypeOK'
    BY <1>4, WriteType, SyncType, ToolType, OtherType DEF Proceed
  <1> QED BY <1>1, <1>2, <1>3, <1>4 DEF Next

(* No job that stands somewhere lacks what it needs there, at first.       *)
LEMMA InitPlaced == Init => Placed
BY DEF Init, Placed, Jobs

(* Nothing a job needs where it stands is lost.                            *)
LEMMA NextPlaced == TypeOK /\ Placed /\ [Next]_vars => Placed'
PROOF
  <1> SUFFICES ASSUME TypeOK, Placed, [Next]_vars PROVE Placed'
    OBVIOUS
  <1> USE DEF Placed
  <1>0. Syncs \subseteq Jobs /\ Events \subseteq Jobs /\ Tools \subseteq Jobs
    BY DEF Jobs
  <1>1. CASE UNCHANGED <<at, project, issue, seen, past>>
    BY <1>1
  <1>2. ASSUME NEW e \in Events, at' = [at EXCEPT ![e] = "applying"],
               UNCHANGED <<project, issue, seen, past>>
        PROVE  Placed'
    BY <1>0, <1>2 DEF TypeOK
  <1>3. ASSUME NEW writes, Published(writes), UNCHANGED <<project, issue, seen, past>>
        PROVE  Placed'
    BY <1>1, <1>2, <1>3, PublishedShape
  <1>4. CASE NodeStep
    BY <1>1, <1>3, <1>4 DEF NodeStep, Join, Leave, Save, Delete, toolVars
  <1>5. ASSUME NEW s \in Syncs, StartSync(s) \/ SyncStep(s) PROVE Placed'
    <2> USE DEF TypeOK, Goto, toolVars
    <2>1. CASE StartSync(s)
      BY <1>0, <2>1 DEF StartSync
    <2>2. CASE NextProject(s)
      BY <1>0, <2>2 DEF NextProject
    <2>3. CASE ListMembers(s)
      BY <1>0, <2>3 DEF ListMembers
    <2>4. CASE Tombstone(s)
      BY <1>0, <2>4 DEF Tombstone
    <2>5. CASE ListSprints(s)
      BY <1>0, <2>5 DEF ListSprints
    <2>6. CASE ListIssues(s)
      BY <1>0, <2>6 DEF ListIssues
    <2>7. CASE EndSync(s)
      BY <1>0, <2>7 DEF EndSync
    <2> QED BY <1>5, <2>1, <2>2, <2>3, <2>4, <2>5, <2>6, <2>7 DEF SyncStep
  <1>6. ASSUME NEW t \in Tools,
               \/ ToolStep(t)
               \/ \E i \in Issues : FindIssue(t, i) \/ PostIssue(t, i)
               \/ \E p \in Projects : Suggest(t, p) \/ \E x \in Texts : Search(t, p, x)
        PROVE  Placed'
    <2> USE DEF TypeOK, Goto, toolVars
    <2>1. ASSUME NEW i \in Issues, FindIssue(t, i) PROVE Placed'
      BY <1>0, <2>1 DEF FindIssue
    <2>2. ASSUME NEW i \in Issues, PostIssue(t, i) PROVE Placed'
      <3>1. Home[i] \in Projects
        BY GraphAssumption
      <3> QED BY <1>0, <2>2, <3>1 DEF PostIssue, Mirror, AnswerLost
    <2>3. CASE PatchIssue(t)
      BY <1>0, <2>3 DEF PatchIssue, Mirror, AnswerLost
    <2>4. CASE Mirrored(t)
      BY <1>0, <2>4 DEF Mirrored, AfterMirror
    <2>5. ASSUME NEW p \in Projects, Suggest(t, p) PROVE Placed'
      BY <1>0, <2>5 DEF Suggest
    <2>6. CASE ReadResolved(t)
      <3>1. past'[t] \in [Users -> Nat]
        BY <2>6, PastType DEF ReadResolved
      <3> QED BY <1>0, <2>6, <3>1 DEF ReadResolved
    <2>7. CASE ReadLoad(t)
      BY <1>0, <2>7 DEF ReadLoad
    <2>8. ASSUME NEW p \in Projects, NEW x \in Texts, Search(t, p, x) PROVE Placed'
      BY <1>0, <2>8 DEF Search
    <2>9. CASE Rank(t)
      BY <1>0, <2>9 DEF Rank
    <2> QED BY <1>6, <2>1, <2>2, <2>3, <2>4, <2>5, <2>6, <2>7, <2>8, <2>9 DEF ToolStep
  <1>7. ASSUME NEW j \in Jobs, Fail(j) PROVE Placed'
    BY <1>7 DEF Fail, AfterMirror, Goto, TypeOK
  <1>8. ASSUME NEW e \in Events, EventApplied(e) PROVE Placed'
    BY <1>0, <1>8 DEF EventApplied, Goto, TypeOK, toolVars
  <1>9. ASSUME NEW x \in Users \cup Projects \cup Sprints, Announce(x) PROVE Placed'
    BY <1>2, <1>9 DEF Announce, Apply, Goto, toolVars
  <1>10. ASSUME NEW j \in Jobs, Write(j) PROVE Placed'
    BY <1>1, <1>10 DEF Write, toolVars
  <1>11. CASE Start
    BY <1>5, <1>6, <1>9, <1>11 DEF Start
  <1>12. ASSUME NEW j \in Jobs, Proceed(j) PROVE Placed'
    BY <1>5, <1>6, <1>7, <1>8, <1>10, <1>12 DEF Proceed
  <1>13. CASE UNCHANGED vars
    BY <1>1, <1>13 DEF vars, toolVars
  <1> QED BY <1>4, <1>11, <1>12, <1>13 DEF Next

-----------------------------------------------------------------------------
(* Values. *)

(* A part of what has one value of each property has, too.                 *)
LEMMA OneValueSubset == \A g, w : OneValue(g) /\ w \subseteq g => OneValue(w)
BY DEF OneValue

(* What Node says is one value of each property.                           *)
LEMMA CurrentOneValue == TypeOK => OneValue(Current)
PROOF
  <1> SUFFICES ASSUME TypeOK, NEW f \in Current, NEW g \in Current, Replaces({g}, f)
               PROVE  f = g
    BY DEF OneValue
  <1>1. f \in Facts /\ g \in Facts /\ f.rel # "REMOVED"
    BY FactsOfShape DEF TypeOK, Current
  <1>2. g.from = f.from /\ g.rel = f.rel /\ g.rel \in Single
    BY <1>1 DEF Replaces
  <1>3. g.to = f.to
    <2>1. \A h \in Current : /\ h.rel = "title" => h.to = rows[h.from].title
                             /\ h.rel = "state" => h.to = rows[h.from].state
      BY FactsOfShape DEF TypeOK, Current
    <2> QED BY <1>2, <2>1 DEF Single
  <1> QED BY <1>1, <1>2, <1>3, FactsAreRecords

(* A statement that agrees with Node keeps what agrees with Node.          *)
LEMMA AgreeingPut ==
  ASSUME TypeOK, NEW g, NEW w, w \subseteq Current
  PROVE  g \cap Current \subseteq Put(g, w)
PROOF
  <1> SUFFICES ASSUME NEW f \in g, f \in Current, Replaces(w, f) PROVE f \in w
    BY DEF Put
  <1>1. PICK h \in w : Replaces({h}, f)
    BY DEF Replaces
  <1> QED BY <1>1, CurrentOneValue DEF OneValue

(* One value of each property, before and after a statement.               *)
LEMMA PutOneValue ==
  ASSUME NEW g, NEW w, OneValue(g), OneValue(w), \A f \in w : f.rel # "REMOVED"
  PROVE  OneValue(Put(g, w))
PROOF
  <1> SUFFICES ASSUME NEW f \in Put(g, w), NEW h \in Put(g, w), Replaces({h}, f)
               PROVE  f = h
    BY DEF OneValue
  <1>1. CASE f \in w /\ h \in w
    BY <1>1 DEF OneValue
  <1>2. CASE f \notin w /\ h \in w
    BY <1>2 DEF Put, Replaces
  <1>3. CASE f \in w /\ h \notin w
    <2>1. f.rel = h.rel /\ f.rel \in Single /\ f.from = h.from
      BY <1>3 DEF Replaces
    <2>2. Replaces(w, h)
      BY <1>3, <2>1 DEF Replaces
    <2> QED BY <1>3, <2>2 DEF Put
  <1>4. CASE f \notin w /\ h \notin w
    BY <1>4 DEF OneValue, Put
  <1> QED BY <1>1, <1>2, <1>3, <1>4

(* The same of tombstones.                                                 *)
LEMMA BuriedOneValue ==
  ASSUME NEW g \in SUBSET Facts, NEW p, NEW kept, OneValue(g)
  PROVE  OneValue(Buried(g, p, kept))
PROOF
  <1> DEFINE gone == Lapsed(g, p, kept)
  <1> SUFFICES ASSUME NEW f \in Buried(g, p, kept), NEW h \in Buried(g, p, kept), Replaces({h}, f)
               PROVE  f = h
    BY DEF OneValue
  <1>1. CASE f \in g /\ h \in g
    BY <1>1 DEF OneValue
  <1>2. CASE h \notin g
    <2>1. h.rel = "REMOVED"
      BY <1>2 DEF Buried, Removed, Fact
    <2> QED BY <2>1 DEF Replaces, Single
  <1>3. CASE f \notin g /\ h \in g
    <2>1. PICK l \in gone : f = Removed(l.from, l.to)
      BY <1>3 DEF Buried
    <2>2. f.rel = "REMOVED" /\ f.from = l.from /\ f.to = l.to
      BY <2>1 DEF Removed, Fact
    <2>3. h.rel = "MEMBER_OF" /\ h.from = l.from /\ h.to = l.to
      BY <2>2 DEF Replaces, Single
    <2>4. l.rel = "MEMBER_OF" /\ l \in Facts /\ h \in Facts
      BY <1>3 DEF Lapsed
    <2>5. h = l
      BY <2>3, <2>4, FactsAreRecords
    <2>6. h \in g \ gone
      <3>1. h \notin {Removed(k.from, k.to) : k \in gone}
        BY <2>3 DEF Removed, Fact
      <3> QED BY <3>1 DEF Buried
    <2> QED BY <2>5, <2>6
  <1> QED BY <1>1, <1>2, <1>3

(* Each upsert writes one value of each property, if Node said it all.     *)
LEMMA ProperRow ==
  ASSUME NEW i \in Issues, NEW r, Told(RowWrites(i, r)) \subseteq said
  PROVE  Proper(RowWrites(i, r))
PROOF
  <1>1. OneValue(Told(RowWrites(i, r)))
    BY RowFacts, FactParts DEF OneValue, Replaces, Single
  <1>2. \A n \in DOMAIN RowWrites(i, r) : RowWrites(i, r)[n] \subseteq Told(RowWrites(i, r))
    BY DEF Told
  <1> QED BY <1>1, <1>2, OneValueSubset DEF Proper

(* As above.                                                               *)
LEMMA ProperNames == \A x : Name(x) \in said => Proper(NameWrites(x))
BY DEF NameWrites, Proper, OneValue

(* As above.                                                               *)
LEMMA ProperMember ==
  \A u, p : {Name(u), Member(u, p)} \subseteq said
              => Proper(MemberWrites(u, p)) /\ Proper(<<{Member(u, p)}>>)
BY DEF MemberWrites, Proper, OneValue

(* The next statement, and those after it.                                 *)
LEMMA ProperStatements ==
  ASSUME TypeOK, NEW j \in Jobs,
         NEW writes \in (IF todo[j] = <<>> THEN left[j] ELSE {todo[j]}), Proper(writes)
  PROVE  Head(writes) \subseteq said /\ OneValue(Head(writes)) /\ Proper(Tail(writes))
PROOF
  <1>1. 1 \in DOMAIN writes
    BY Statements
  <1>2. \A n \in DOMAIN Tail(writes) : n + 1 \in DOMAIN writes /\ Tail(writes)[n] = writes[n + 1]
    BY Statements
  <1> QED BY <1>1, <1>2, Statements DEF Proper

(* At first nothing is on its way.                                         *)
LEMMA InitSourced == Init => Sourced /\ OneValue(graph)
PROOF
  <1> SUFFICES ASSUME Init PROVE Sourced /\ OneValue(graph)
    OBVIOUS
  <1>1. Current \subseteq said
    BY DEF Init, Current
  <1>2. \A f \in said : /\ f.rel # "REMOVED"
                        /\ f.rel \in Single => f.from \in Issues
                        /\ f.rel = "MEMBER_OF" => f.to \in Projects
    BY GraphAssumption, FactsOfShape DEF Init
  <1>3. \A j \in Jobs : Proper(todo[j])
    BY DEF Init, Proper
  <1>4. /\ graph = {}
        /\ \A t \in Tools : at[t] # "patching"
        /\ \A j \in Jobs : left[j] = {}
    BY DEF Init, Jobs
  <1>5. Sourced
    <2>1. \A f \in graph : f \in said \/ f.rel = "REMOVED"
      BY <1>4
    <2>2. \A t \in Tools :
            at[t] = "patching" => Told(RowWrites(issue[t], seen[t])) \subseteq said
      BY <1>4
    <2>3. \A j \in Jobs : Proper(todo[j]) /\ \A writes \in left[j] : Proper(writes)
      BY <1>3, <1>4
    <2> QED BY <1>1, <1>2, <2>1, <2>2, <2>3 DEF Sourced
  <1> QED BY <1>4, <1>5 DEF OneValue

(* A step that leaves Node as it is, adds only what Node said and puts     *)
(* only what Node said on its way, needs nothing more.                     *)
LEMMA KeepsSourced ==
  ASSUME TypeOK, Sourced, UNCHANGED nodeVars,
         \A f \in graph' : f \in graph \cup said \/ f.rel = "REMOVED",
         \A t \in Tools : at'[t] = "patching" =>
           at[t] = "patching" /\ UNCHANGED <<issue[t], seen[t]>>,
         \A j \in Jobs : /\ Proper(todo[j]) => Proper(todo'[j])
                         /\ \A writes \in left'[j] : writes \in left[j] \/ Proper(writes)
  PROVE  Sourced'
PROOF
  <1>1. UNCHANGED <<roster, rows, said>>
    BY DEF nodeVars
  <1>2. Current' = Current
    BY <1>1 DEF Current
  <1>3. \A j \in Jobs : Proper(todo'[j]) /\ \A writes \in left'[j] : Proper(writes)
    BY DEF Sourced
  <1>4. \A j \in Jobs : Proper(todo[j])' /\ (\A writes \in left[j] : Proper(writes))'
    BY <1>1, <1>3 DEF Proper, OneValue, Replaces
  <1>5. \A t \in Tools :
          at'[t] = "patching" => (Told(RowWrites(issue[t], seen[t])))' \subseteq said'
    <2> SUFFICES ASSUME NEW t \in Tools, at'[t] = "patching"
                 PROVE  (Told(RowWrites(issue[t], seen[t])))' \subseteq said'
      OBVIOUS
    <2>1. Told(RowWrites(issue[t], seen[t])) \subseteq said
      BY DEF Sourced
    <2>2. issue'[t] = issue[t] /\ seen'[t] = seen[t]
      OBVIOUS
    <2> QED BY <1>1, <2>1, <2>2
  <1>6. \A f \in graph' : f \in said' \/ f.rel = "REMOVED"
    BY <1>1 DEF Sourced
  <1>7. said' = said /\ Current' \subseteq said'
    BY <1>1, <1>2 DEF Sourced
  <1>8. \A f \in said' : /\ f.rel # "REMOVED"
                         /\ f.rel \in Single => f.from \in Issues
                         /\ f.rel = "MEMBER_OF" => f.to \in Projects
    <2>1. \A f \in said : /\ f.rel # "REMOVED"
                          /\ f.rel \in Single => f.from \in Issues
                          /\ f.rel = "MEMBER_OF" => f.to \in Projects
      BY DEF Sourced
    <2> QED BY <1>7, <2>1
  <1> QED BY <1>4, <1>5, <1>6, <1>7, <1>8 DEF Sourced

(* A statement of a job is what Node said, and leaves one value each.      *)
LEMMA WriteSourced ==
  ASSUME TypeOK, Sourced, OneValue(graph), NEW j \in Jobs, Write(j)
  PROVE  Sourced' /\ OneValue(graph)'
PROOF
  <1>1. PICK writes \in IF todo[j] = <<>> THEN left[j] ELSE {todo[j]} :
          /\ graph' = Put(graph, Head(writes))
          /\ todo' = [todo EXCEPT ![j] = Tail(writes)]
          /\ left' = IF todo[j] = <<>> THEN [left EXCEPT ![j] = @ \ {writes}] ELSE left
          /\ UNCHANGED <<nodeVars, at, toolVars>>
    BY DEF Write
  <1>2. Head(writes) \subseteq said /\ OneValue(Head(writes)) /\ Proper(Tail(writes))
    BY ProperStatements DEF Sourced
  <1>3. \A f \in Head(writes) : f.rel # "REMOVED"
    BY <1>2 DEF Sourced
  <1>4. OneValue(graph')
    BY <1>1, <1>2, <1>3, PutOneValue
  <1>5. \A f \in graph' : f \in graph \cup said
    BY <1>1, <1>2, PutSubset
  <1>6. \A k \in Jobs : Proper(todo[k]) => Proper(todo'[k])
    BY <1>1, <1>2 DEF TypeOK
  <1>7. \A k \in Jobs : left'[k] \subseteq left[k]
    BY <1>1 DEF TypeOK
  <1>8. UNCHANGED <<issue, seen>>
    BY <1>1 DEF toolVars
  <1>9. Sourced'
    BY <1>1, <1>5, <1>6, <1>7, <1>8, KeepsSourced
  <1> QED BY <1>4, <1>9 DEF OneValue

(* A call of a sync puts on its way what Node says.                        *)
LEMMA SyncSourced ==
  ASSUME TypeOK, Placed, Sourced, OneValue(graph), NEW s \in Syncs, StartSync(s) \/ SyncStep(s)
  PROVE  Sourced' /\ OneValue(graph)'
PROOF
  <1>0. /\ s \in Jobs /\ UNCHANGED <<nodeVars, issue, seen>>
        /\ \A j \in Tools : at'[j] = "patching" => at[j] = "patching"
    BY DEF StartSync, SyncStep, NextProject, ListMembers, Tombstone, ListSprints, ListIssues,
           EndSync, Goto, toolVars, TypeOK, Jobs
  <1>1. /\ \A x \in Users \cup Projects \cup Sprints : Proper(NameWrites(x))
        /\ \A p \in Projects : \A u \in roster[p] : Proper(MemberWrites(u, p))
        /\ \A i \in Issues : rows[i] # None => Proper(RowWrites(i, rows[i]))
    <2>1. \A p \in Projects : roster[p] \subseteq Users
      BY DEF TypeOK
    <2> QED BY <2>1, FactsOfParts, ProperNames, ProperMember, ProperRow DEF Sourced, Current
  <1>2. \A j \in Jobs : Proper(todo[j]) => Proper(todo'[j])
    <2>1. CASE NextProject(s)
      <3>1. PICK p \in ahead[s] : todo' = [todo EXCEPT ![s] = NameWrites(p)]
        BY <2>1 DEF NextProject
      <3>2. p \in Projects
        BY DEF TypeOK
      <3> QED BY <1>0, <1>1, <3>1, <3>2 DEF TypeOK
    <2>2. CASE UNCHANGED todo
      BY <2>2
    <2> QED BY <2>1, <2>2 DEF StartSync, SyncStep, ListMembers, Tombstone, ListSprints,
                              ListIssues, EndSync
  <1>3. \A j \in Jobs : \A writes \in left'[j] : writes \in left[j] \/ Proper(writes)
    <2>1. CASE ListMembers(s)
      <3>1. left' = [left EXCEPT ![s] = {MemberWrites(u, project[s]) : u \in roster[project[s]]}]
            /\ project[s] \in Projects
        BY <1>0, <2>1 DEF ListMembers, Listed, Placed
      <3> QED BY <1>1, <3>1 DEF TypeOK
    <2>2. CASE ListSprints(s)
      <3>1. left' = [left EXCEPT ![s] = {NameWrites(x) : x \in {y \in Sprints : Home[y] = project[s]}}]
        BY <2>2 DEF ListSprints, Listed
      <3> QED BY <1>1, <3>1 DEF TypeOK
    <2>3. CASE ListIssues(s)
      <3>1. left' = [left EXCEPT ![s] = {RowWrites(i, rows[i]) : i \in Existing(project[s])}]
        BY <2>3 DEF ListIssues, Listed
      <3>2. \A i \in Existing(project[s]) : i \in Issues /\ rows[i] # None
        BY DEF Existing
      <3> QED BY <1>1, <3>1, <3>2 DEF TypeOK
    <2>4. CASE UNCHANGED left
      BY <2>4
    <2> QED BY <2>1, <2>2, <2>3, <2>4 DEF StartSync, SyncStep, NextProject, Tombstone, EndSync, syncVars
  <1>4. /\ \A f \in graph' : f \in graph \/ f.rel = "REMOVED"
        /\ OneValue(graph')
    <2>1. CASE Tombstone(s)
      <3>1. graph' = Buried(graph, project[s], keep[s])
        BY <2>1 DEF Tombstone
      <3>2. OneValue(graph')
        BY <3>1, BuriedOneValue DEF TypeOK
      <3>3. \A f \in {Removed(h.from, h.to) : h \in {k \in graph : k.rel = "MEMBER_OF"}} :
              f.rel = "REMOVED"
        BY DEF Removed, Fact
      <3> QED BY <3>1, <3>2, <3>3, BuriedType
    <2>2. CASE UNCHANGED graph
      BY <2>2
    <2> QED BY <2>1, <2>2 DEF StartSync, SyncStep, NextProject, ListMembers, ListSprints,
                              ListIssues, EndSync
  <1> QED BY <1>0, <1>2, <1>3, <1>4, KeepsSourced DEF OneValue

(* A change of Node's data: what was and what will be on its way is        *)
(* something Node said, before the change or with it.                      *)
LEMMA ChangedSourced ==
  ASSUME TypeOK, Sourced, NEW team \in [Projects -> SUBSET Users],
         NEW table \in [Issues -> Rows \cup {None}], Changed(team, table), UNCHANGED graph,
         \A t \in Tools : at'[t] = "patching" =>
           at[t] = "patching" /\ UNCHANGED <<issue[t], seen[t]>>,
         UNCHANGED left,
         \A j \in Jobs : todo'[j] = todo[j] \/ Proper(todo[j])'
  PROVE  Sourced'
PROOF
  <1>1. said' = said \cup FactsOf(team, table) /\ Current' = FactsOf(team, table)
    BY DEF Changed, Current
  <1>2. \A f \in said' : /\ f.rel # "REMOVED"
                         /\ f.rel \in Single => f.from \in Issues
                         /\ f.rel = "MEMBER_OF" => f.to \in Projects
    BY <1>1, FactsOfShape DEF Sourced
  <1>3. \A f \in graph' : f \in said' \/ f.rel = "REMOVED"
    BY <1>1 DEF Sourced
  <1>4. \A j \in Jobs : (\A writes \in left[j] : Proper(writes))'
    BY <1>1 DEF Sourced, Proper, OneValue, Replaces
  <1>5. ASSUME NEW j \in Jobs PROVE Proper(todo[j])'
    <2>1. CASE todo'[j] = todo[j]
      BY <1>1, <2>1 DEF Sourced, Proper, OneValue, Replaces
    <2> QED BY <2>1
  <1>6. \A t \in Tools :
          at'[t] = "patching" => (Told(RowWrites(issue[t], seen[t])))' \subseteq said'
    <2> SUFFICES ASSUME NEW t \in Tools, at'[t] = "patching"
                 PROVE  (Told(RowWrites(issue[t], seen[t])))' \subseteq said'
      OBVIOUS
    <2>1. Told(RowWrites(issue[t], seen[t])) \subseteq said
      BY DEF Sourced
    <2>2. issue'[t] = issue[t] /\ seen'[t] = seen[t]
      OBVIOUS
    <2> QED BY <1>1, <2>1, <2>2
  <1>7. Current' \subseteq said'
    BY <1>1
  <1> QED BY <1>2, <1>3, <1>4, <1>5, <1>6, <1>7 DEF Sourced

(* What upsert_issue writes of a row patched with what Node's row, now     *)
(* other than the row the tool had found, was patched with.                *)
LEMMA PatchedFacts ==
  ASSUME NEW i \in Issues, NEW r \in Rows, NEW old \in Rows,
         NEW x \in Texts \cup {None}, NEW u \in Users \cup {None}
  PROVE  Told(RowWrites(i, Patched(old, x, u))) \subseteq
           Told(RowWrites(i, old)) \cup Told(RowWrites(i, Patched(r, x, u)))
PROOF
  <1> SUFFICES ASSUME NEW f \in Told(RowWrites(i, Patched(old, x, u))),
                      f \notin Told(RowWrites(i, old))
               PROVE  f \in Told(RowWrites(i, Patched(r, x, u)))
    OBVIOUS
  <1> DEFINE p == Patched(old, x, u)
             q == Patched(r, x, u)
  <1>1. /\ p.title = IF x = None THEN old.title ELSE x
        /\ p.assignee = IF u = None THEN old.assignee ELSE u
        /\ p.state = old.state /\ p.sprint = old.sprint
        /\ x # None => q.title = x
        /\ u # None => q.assignee = u
    BY DEF Patched, Rows
  <1> HIDE DEF p, q
  <1>2. \/ f = Fact("title", i, p.title) /\ x # None
        \/ p.assignee # None /\ f = Fact("ASSIGNED_TO", p.assignee, i) /\ u # None
    BY <1>1, RowFacts DEF p
  <1> QED BY <1>1, <1>2, RowFacts DEF p, q

(* Node's changes, and what Node tells of them.                            *)
LEMMA NodeSourced ==
  ASSUME TypeOK, Sourced, NodeStep
  PROVE  Sourced' /\ UNCHANGED graph
PROOF
  <1>0. roster \in [Projects -> SUBSET Users] /\ rows \in [Issues -> Rows \cup {None}]
    BY DEF TypeOK
  <1>1. ASSUME NEW team \in [Projects -> SUBSET Users],
               NEW table \in [Issues -> Rows \cup {None}], Changed(team, table),
               UNCHANGED <<graph, syncVars, toolVars>>,
               NEW writes, Published(writes), Proper(writes)'
        PROVE  Sourced'
    <2>1. UNCHANGED <<left, issue, seen, graph>>
      BY <1>1 DEF syncVars, toolVars
    <2>2. \A t \in Tools : at'[t] = "patching" => at[t] = "patching"
      BY <1>1, PublishedShape DEF TypeOK, Jobs
    <2>3. \A j \in Jobs : todo'[j] = todo[j] \/ todo'[j] = writes
      <3>1. CASE todo' = todo
        BY <3>1
      <3>2. ASSUME NEW e \in Events, todo' = [todo EXCEPT ![e] = writes]
            PROVE  \A j \in Jobs : todo'[j] = todo[j] \/ todo'[j] = writes
        BY <3>2 DEF TypeOK
      <3> QED BY <1>1, <3>1, <3>2, PublishedShape
    <2>4. \A j \in Jobs : todo'[j] = todo[j] \/ Proper(todo[j])'
      BY <1>1, <2>3 DEF Proper, OneValue, Replaces
    <2> QED BY <1>1, <2>1, <2>2, <2>4, ChangedSourced
  <1>2. ASSUME NEW team \in [Projects -> SUBSET Users],
               NEW table \in [Issues -> Rows \cup {None}], Changed(team, table),
               UNCHANGED <<graph, at, todo, syncVars, toolVars>>
        PROVE  Sourced'
    BY <1>2, ChangedSourced DEF syncVars, toolVars
  <1>3. ASSUME NEW u \in Users, NEW p \in Projects, Join(u, p) PROVE Sourced' /\ UNCHANGED graph
    <2> DEFINE team == [roster EXCEPT ![p] = @ \cup {u}]
    <2>1. team \in [Projects -> SUBSET Users] /\ u \in team[p]
      BY <1>0
    <2>2. Changed(team, rows) /\ Published(<<{Member(u, p)}>>)
          /\ UNCHANGED <<graph, project, syncVars, toolVars>>
      BY <1>3 DEF Join
    <2>3. {Name(u), Member(u, p)} \subseteq said'
      <3> HIDE DEF team
      <3> QED BY <2>1, <2>2, FactsOfParts DEF Changed
    <2>4. Proper(<<{Member(u, p)}>>)'
      BY <2>3 DEF Proper, OneValue
    <2> HIDE DEF team
    <2> QED BY <1>0, <1>1, <2>1, <2>2, <2>4
  <1>4. ASSUME NEW u \in Users, NEW p \in Projects, Leave(u, p) PROVE Sourced' /\ UNCHANGED graph
    <2>1. [roster EXCEPT ![p] = @ \ {u}] \in [Projects -> SUBSET Users]
      BY <1>0
    <2> QED BY <1>0, <1>2, <1>4, <2>1 DEF Leave
  <1>5. ASSUME NEW i \in Issues, Save(i) PROVE Sourced' /\ UNCHANGED graph
    <2>1. PICK r \in IF New(i) THEN {r \in Rows : r.state = "open"}
                     ELSE IF rows[i] = None THEN {} ELSE Edits(rows[i]) :
            Changed(roster, [rows EXCEPT ![i] = r]) /\ Published(IssueWrites(i, r))
      BY <1>5 DEF Save
    <2> DEFINE table == [rows EXCEPT ![i] = r]
    <2>2. r \in Rows
      BY RowsType DEF TypeOK
    <2>3. table \in [Issues -> Rows \cup {None}] /\ table[i] = r /\ r # None
      BY <1>0, <2>2, GraphAssumption
    <2>4. Told(RowWrites(i, r)) \subseteq said' /\ Told(LinkWrites(i)) \subseteq said'
      <3> HIDE DEF table
      <3> QED BY <2>1, <2>3, FactsOfParts DEF Changed, table
    <2>5. Proper(IssueWrites(i, r))'
      <3>1. /\ \A k \in DOMAIN RowWrites(i, r) : RowWrites(i, r)[k] \subseteq said'
            /\ \A k \in DOMAIN LinkWrites(i) : LinkWrites(i)[k] \subseteq said'
        BY <2>4 DEF Told
      <3>2. \A k \in DOMAIN RowWrites(i, r) : OneValue(RowWrites(i, r)[k])
        BY RowFacts, FactParts DEF OneValue, Replaces, Single, Told
      <3>3. \A k \in DOMAIN LinkWrites(i) : OneValue(LinkWrites(i)[k])
        BY LinkFacts DEF Links, OneValue, Replaces, Single, Told
      <3> QED BY <2>2, <3>1, <3>2, <3>3, IssueWritesParts DEF Proper
    <2>6. UNCHANGED <<graph, syncVars, toolVars>>
      BY <1>5 DEF Save
    <2> QED BY <1>0, <1>1, <2>1, <2>3, <2>5, <2>6
  <1>6. ASSUME NEW i \in Issues, Delete(i) PROVE Sourced' /\ UNCHANGED graph
    <2>1. [rows EXCEPT ![i] = None] \in [Issues -> Rows \cup {None}]
      BY <1>0
    <2> QED BY <1>0, <1>2, <1>6, <2>1 DEF Delete
  <1> QED BY <1>3, <1>4, <1>5, <1>6 DEF NodeStep

(* What a tool mirrors is what Node said when it was asked or when it made *)
(* the change.                                                             *)
LEMMA ToolSourced ==
  ASSUME TypeOK, Placed, Sourced, NEW t \in Tools,
         \/ ToolStep(t)
         \/ \E i \in Issues : FindIssue(t, i) \/ PostIssue(t, i)
         \/ \E p \in Projects : Suggest(t, p) \/ \E x \in Texts : Search(t, p, x)
  PROVE  Sourced' /\ UNCHANGED graph
PROOF
  <1>0. t \in Jobs /\ Tools \subseteq Jobs /\ at \in [Jobs -> {at[j] : j \in Jobs}]
    BY DEF Jobs, TypeOK
  <1>1. ASSUME NEW i \in Issues, FindIssue(t, i) PROVE Sourced'
    <2>1. UNCHANGED <<graph, roster, rows, said, todo, left>>
          /\ issue' = [issue EXCEPT ![t] = i] /\ seen' = [seen EXCEPT ![t] = rows[i]]
          /\ at' = [at EXCEPT ![t] = "patching"] /\ rows[i] # None
      BY <1>1 DEF FindIssue, Goto, nodeVars, syncVars
    <2>2. Current' = Current
      BY <2>1 DEF Current
    <2>3. Told(RowWrites(i, rows[i])) \subseteq said
      BY <2>1, FactsOfParts DEF Sourced, Current
    <2>4. \A k \in Tools :
            at'[k] = "patching" => (Told(RowWrites(issue[k], seen[k])))' \subseteq said'
      <3> SUFFICES ASSUME NEW k \in Tools, at'[k] = "patching"
                   PROVE  (Told(RowWrites(issue[k], seen[k])))' \subseteq said'
        OBVIOUS
      <3>1. CASE k = t
        <4>1. issue'[k] = i /\ seen'[k] = rows[i]
          BY <2>1, <3>1 DEF TypeOK
        <4> QED BY <2>1, <2>3, <4>1
      <3>2. CASE k # t
        <4>1. issue'[k] = issue[k] /\ seen'[k] = seen[k] /\ at[k] = "patching"
          BY <1>0, <2>1, <3>2 DEF TypeOK
        <4>2. Told(RowWrites(issue[k], seen[k])) \subseteq said
          BY <4>1 DEF Sourced
        <4> QED BY <2>1, <4>1, <4>2
      <3> QED BY <3>1, <3>2
    <2>5. \A j \in Jobs : Proper(todo[j])' /\ (\A writes \in left[j] : Proper(writes))'
      BY <2>1 DEF Sourced, Proper, OneValue, Replaces
    <2> QED BY <2>1, <2>2, <2>4, <2>5 DEF Sourced
  <1>2. ASSUME NEW i \in Issues, NEW r \in Rows, NEW table \in [Issues -> Rows \cup {None}],
               Changed(roster, table), Told(RowWrites(i, r)) \subseteq said',
               NEW l \in {"mirroring", "creating"}, Mirror(t, i, r, l) \/ AnswerLost(t),
               UNCHANGED <<graph, left>>, \A k \in Tools : k # t => UNCHANGED <<issue[k], seen[k]>>
        PROVE  Sourced'
    <2>1. \A k \in Tools : at'[k] = "patching" => at[k] = "patching" /\ UNCHANGED <<issue[k], seen[k]>>
      BY <1>0, <1>2 DEF Mirror, AnswerLost, Goto
    <2>2. Proper(RowWrites(i, r))'
      BY <1>2, RowFacts, FactParts DEF Proper, OneValue, Replaces, Single, Told
    <2>3. \A j \in Jobs : todo'[j] = todo[j] \/ todo'[j] = RowWrites(i, r)
      BY <1>2 DEF Mirror, AnswerLost, TypeOK
    <2>4. \A j \in Jobs : todo'[j] = todo[j] \/ Proper(todo[j])'
      BY <2>2, <2>3 DEF Proper, OneValue, Replaces
    <2> QED BY <1>2, <2>1, <2>4, ChangedSourced DEF TypeOK
  <1>3. ASSUME NEW i \in Issues, PostIssue(t, i) PROVE Sourced'
    <2>1. PICK x \in Texts, u \in Users \cup {None} :
            LET row == [title |-> x, state |-> "open", assignee |-> u, sprint |-> None]
            IN /\ Changed(roster, [rows EXCEPT ![i] = row])
               /\ \/ Mirror(t, i, row, IF u = None THEN "creating" ELSE "mirroring")
                  \/ AnswerLost(t)
      BY <1>3 DEF PostIssue
    <2> DEFINE row == [title |-> x, state |-> "open", assignee |-> u, sprint |-> None]
               table == [rows EXCEPT ![i] = row]
    <2>2. row \in Rows /\ row # None
      BY GraphAssumption DEF Rows, States
    <2>3. table \in [Issues -> Rows \cup {None}] /\ table[i] = row
      BY <2>2 DEF TypeOK
    <2>4. Told(RowWrites(i, row)) \subseteq said'
      <3> HIDE DEF table, row
      <3> QED BY <2>1, <2>2, <2>3, FactsOfParts DEF Changed, table, row
    <2>5. /\ \A k \in Tools : k # t => UNCHANGED <<issue[k], seen[k]>>
          /\ UNCHANGED <<graph, left>>
      BY <1>3 DEF PostIssue, syncVars, TypeOK
    <2>6. Changed(roster, table)
          /\ \E l \in {"mirroring", "creating"} : Mirror(t, i, row, l) \/ AnswerLost(t)
      BY <2>1
    <2> HIDE DEF row, table
    <2> QED BY <1>2, <2>2, <2>3, <2>4, <2>5, <2>6
  <1>4. CASE PatchIssue(t)
    <2>1. PICK x \in Texts \cup {None}, u \in Users \cup {None} :
            /\ Changed(roster, [rows EXCEPT ![issue[t]] = Patched(@, x, u)])
            /\ Mirror(t, issue[t], Patched(seen[t], x, u), "mirroring") \/ AnswerLost(t)
      BY <1>4 DEF PatchIssue
    <2> DEFINE i == issue[t]
               r == Patched(rows[i], x, u)
               table == [rows EXCEPT ![i] = r]
    <2>2. i \in Issues /\ seen[t] \in Rows /\ rows[i] \in Rows /\ at[t] = "patching"
      BY <1>4 DEF PatchIssue, Placed, TypeOK
    <2>3. r \in Rows /\ Patched(seen[t], x, u) \in Rows /\ r # None
      BY <2>2, RowsType, GraphAssumption
    <2>4. table \in [Issues -> Rows \cup {None}] /\ table[i] = r
      BY <2>2, <2>3 DEF TypeOK
    <2>5. Changed(roster, table)
      BY <2>1, <2>2 DEF TypeOK
    <2>6. Told(RowWrites(i, r)) \subseteq said'
      <3> HIDE DEF table, i, r
      <3> QED BY <2>2, <2>3, <2>4, <2>5, FactsOfParts DEF Changed
    <2>7. Told(RowWrites(i, seen[t])) \subseteq said'
      BY <2>2, <2>5 DEF Sourced, Changed
    <2>8. Told(RowWrites(i, Patched(seen[t], x, u))) \subseteq said'
      BY <2>2, <2>6, <2>7, PatchedFacts
    <2>9. /\ \A k \in Tools : k # t => UNCHANGED <<issue[k], seen[k]>>
          /\ UNCHANGED <<graph, left>>
      BY <1>4 DEF PatchIssue, syncVars, TypeOK
    <2> HIDE DEF i, r, table
    <2> QED BY <1>2, <2>1, <2>2, <2>3, <2>4, <2>5, <2>8, <2>9 DEF i
  <1>5. ASSUME UNCHANGED <<nodeVars, graph, todo, left, issue, seen>>,
               NEW l, l # "patching", at' = [at EXCEPT ![t] = l]
        PROVE  Sourced'
    <2>1. \A k \in Tools : at'[k] = "patching" => at[k] = "patching"
      BY <1>0, <1>5
    <2> QED BY <1>5, <2>1, KeepsSourced
  <1>6. CASE Mirrored(t)
    BY <1>5, <1>6 DEF Mirrored, AfterMirror, Goto, syncVars, toolVars
  <1>7. ASSUME NEW p \in Projects, Suggest(t, p) PROVE Sourced'
    BY <1>5, <1>7 DEF Suggest, Goto, syncVars, toolVars
  <1>8. CASE ReadResolved(t)
    BY <1>5, <1>8 DEF ReadResolved, Goto, syncVars
  <1>9. CASE ReadLoad(t)
    BY <1>5, <1>9 DEF ReadLoad, Goto, syncVars
  <1>10. ASSUME NEW p \in Projects, NEW x \in Texts, Search(t, p, x) PROVE Sourced'
    BY <1>5, <1>10 DEF Search, Goto, syncVars
  <1>11. CASE Rank(t)
    BY <1>5, <1>11 DEF Rank, Goto, syncVars
  <1>12. UNCHANGED graph
    BY DEF ToolStep, FindIssue, PostIssue, PatchIssue, Mirrored, Suggest, ReadResolved, ReadLoad,
           Search, Rank
  <1> QED BY <1>1, <1>3, <1>4, <1>6, <1>7, <1>8, <1>9, <1>10, <1>11, <1>12 DEF ToolStep

(* Events and failures put nothing else on its way.                        *)
LEMMA OtherSourced ==
  ASSUME TypeOK, Sourced,
         \/ \E x \in Users \cup Projects \cup Sprints : Announce(x)
         \/ \E e \in Events : EventApplied(e)
         \/ \E j \in Jobs : Fail(j)
         \/ UNCHANGED vars
  PROVE  Sourced' /\ UNCHANGED graph
PROOF
  <1>1. ASSUME NEW x \in Users \cup Projects \cup Sprints, Announce(x)
        PROVE  Sourced' /\ UNCHANGED graph
    <2>1. PICK e \in Events : at' = [at EXCEPT ![e] = "applying"]
                              /\ todo' = [todo EXCEPT ![e] = NameWrites(x)]
      BY <1>1 DEF Announce, Apply, Goto
    <2>2. Proper(NameWrites(x))
      BY FactsOfParts, ProperNames DEF Sourced, Current
    <2>3. UNCHANGED <<nodeVars, graph, left, issue, seen>>
      BY <1>1 DEF Announce, syncVars, toolVars
    <2>4. \A k \in Tools : at'[k] = "patching" => at[k] = "patching"
      BY <2>1 DEF TypeOK, Jobs
    <2>5. \A j \in Jobs : Proper(todo[j]) => Proper(todo'[j])
      BY <2>1, <2>2 DEF TypeOK
    <2> QED BY <2>3, <2>4, <2>5, KeepsSourced
  <1>2. ASSUME NEW e \in Events, EventApplied(e) PROVE Sourced' /\ UNCHANGED graph
    <2>1. UNCHANGED <<nodeVars, graph, todo, left, issue, seen>>
      BY <1>2 DEF EventApplied, syncVars, toolVars
    <2>2. \A k \in Tools : at'[k] = "patching" => at[k] = "patching"
      BY <1>2 DEF EventApplied, Goto, TypeOK, Jobs
    <2> QED BY <2>1, <2>2, KeepsSourced
  <1>3. ASSUME NEW j \in Jobs, Fail(j) PROVE Sourced' /\ UNCHANGED graph
    <2>1. UNCHANGED <<nodeVars, graph, issue>>
      BY <1>3 DEF Fail
    <2>2. /\ todo' = [todo EXCEPT ![j] = <<>>] /\ left' = [left EXCEPT ![j] = {}]
          /\ seen' = [k \in Tools |-> IF k = j THEN None ELSE seen[k]]
      BY <1>3 DEF Fail
    <2>3. \A k \in Tools : at'[k] = "patching" => at[k] = "patching" /\ k # j
      BY <1>3 DEF Fail, AfterMirror, Goto, TypeOK, Jobs
    <2>4. Proper(<<>>)
      BY DEF Proper
    <2>5. \A k \in Jobs : Proper(todo[k]) => Proper(todo'[k])
      BY <2>2, <2>4 DEF TypeOK
    <2>6. \A k \in Jobs : left'[k] \subseteq left[k]
      BY <2>2 DEF TypeOK
    <2> QED BY <2>1, <2>2, <2>3, <2>5, <2>6, KeepsSourced
  <1>4. ASSUME UNCHANGED vars PROVE Sourced' /\ UNCHANGED graph
    BY <1>4, KeepsSourced DEF vars, syncVars, toolVars
  <1> QED BY <1>1, <1>2, <1>3, <1>4

(* Whatever the step, the graph and what is on its way have a source.      *)
LEMMA NextSourced ==
  TypeOK /\ Placed /\ Sourced /\ OneValue(graph) /\ [Next]_vars => Sourced' /\ OneValue(graph)'
PROOF
  <1> SUFFICES ASSUME TypeOK, Placed, Sourced, OneValue(graph), [Next]_vars
               PROVE  Sourced' /\ OneValue(graph)'
    OBVIOUS
  <1>0. UNCHANGED graph => OneValue(graph)'
    BY DEF OneValue
  <1>1. CASE NodeStep
    BY <1>0, <1>1, NodeSourced
  <1>2. CASE Start
    BY <1>0, <1>2, SyncSourced, ToolSourced, OtherSourced DEF Start
  <1>3. ASSUME NEW j \in Jobs, Proceed(j) PROVE Sourced' /\ OneValue(graph)'
    BY <1>0, <1>3, WriteSourced, SyncSourced, ToolSourced, OtherSourced DEF Proceed
  <1>4. CASE UNCHANGED vars
    BY <1>0, <1>4, OtherSourced
  <1> QED BY <1>1, <1>2, <1>3, <1>4 DEF Next

-----------------------------------------------------------------------------
(* GraphSync implements GraphMirror. *)

(* A statement puts down what Node said, over older values.                *)
LEMMA WriteMirrors ==
  ASSUME TypeOK, Sourced, NEW j \in Jobs, Write(j)
  PROVE  Mirrors!Follows
PROOF
  <1>1. PICK writes \in IF todo[j] = <<>> THEN left[j] ELSE {todo[j]} :
          graph' = Put(graph, Head(writes)) /\ UNCHANGED nodeVars
    BY DEF Write
  <1>2. Head(writes) \subseteq said /\ said' = said
    BY <1>1, ProperStatements DEF Sourced, nodeVars
  <1>3. \A g \in graph' \ graph : g \in said'
    BY <1>1, <1>2 DEF Put
  <1>4. \A f \in graph \ graph' : \E g \in graph' : Mirrors!Supersedes(g, f)
    <2> SUFFICES ASSUME NEW f \in graph \ graph'
                 PROVE  \E g \in graph' : Mirrors!Supersedes(g, f)
      OBVIOUS
    <2>1. PICK g \in Head(writes) : Replaces({g}, f)
      BY <1>1 DEF Put, Replaces
    <2>2. g \in graph'
      BY <1>1 DEF Put
    <2> QED BY <2>1, <2>2 DEF Replaces, Mirrors!Supersedes
  <1> QED BY <1>2, <1>3, <1>4 DEF Mirrors!Follows

(* Tombstones mark memberships and drop nothing.                           *)
LEMMA TombstoneMirrors ==
  ASSUME TypeOK, NEW s \in Syncs, Tombstone(s)
  PROVE  Mirrors!Follows
PROOF
  <1>1. graph' = Buried(graph, project[s], keep[s]) /\ said' = said
    BY DEF Tombstone, nodeVars
  <1> DEFINE gone == Lapsed(graph, project[s], keep[s])
  <1>2. \A f \in gone : /\ f \in graph /\ f.rel = "MEMBER_OF"
                        /\ Removed(f.from, f.to) \in graph'
    BY <1>1 DEF Lapsed, Buried
  <1>3. \A f \in gone : Removed(f.from, f.to) = Mirrors!Ended(f)
    <2> SUFFICES ASSUME NEW f \in gone PROVE Removed(f.from, f.to) = [f EXCEPT !.rel = "REMOVED"]
      BY DEF Mirrors!Ended
    <2>1. f = [rel |-> f.rel, from |-> f.from, to |-> f.to]
      BY <1>2, FactsAreRecords DEF TypeOK, Fact
    <2> QED BY <2>1 DEF Removed, Fact
  <1>4. \A g \in graph' \ graph : \E f \in gone : g = Removed(f.from, f.to)
    BY <1>1 DEF Buried
  <1>5. \A f \in graph \ graph' : f \in gone
    BY <1>1 DEF Buried
  <1>6. \A f \in gone : Mirrors!Supersedes(Removed(f.from, f.to), f)
    BY <1>2 DEF Mirrors!Supersedes, Removed, Fact
  <1> HIDE DEF gone
  <1>7. \A f \in graph \ graph' : \E g \in graph' : Mirrors!Supersedes(g, f)
    BY <1>2, <1>5, <1>6
  <1>8. \A g \in graph' \ graph : \E f \in graph : f.rel = "MEMBER_OF" /\ g = Mirrors!Ended(f)
    BY <1>2, <1>3, <1>4
  <1> QED BY <1>1, <1>7, <1>8 DEF Mirrors!Follows

(* Any other step leaves the graph, and Node takes back nothing.           *)
LEMMA OthersMirror ==
  ASSUME said \subseteq said', UNCHANGED graph
  PROVE  Mirrors!Follows
BY DEF Mirrors!Follows

(* Every step of GraphSync follows Node as GraphMirror does.               *)
LEMMA NextMirrors == TypeOK /\ Placed /\ Sourced /\ [Next]_vars => Mirrors!Follows
PROOF
  <1> SUFFICES ASSUME TypeOK, Placed, Sourced, [Next]_vars PROVE Mirrors!Follows
    OBVIOUS
  <1>1. CASE NodeStep
    <2>1. said \subseteq said'
      BY <1>1 DEF NodeStep, Join, Leave, Save, Delete, Changed
    <2> QED BY <1>1, <2>1, NodeSourced, OthersMirror
  <1>2. ASSUME NEW s \in Syncs, StartSync(s) \/ SyncStep(s) PROVE Mirrors!Follows
    <2>1. Tombstone(s) \/ (said' = said /\ UNCHANGED graph)
      BY <1>2 DEF StartSync, SyncStep, NextProject, ListMembers, ListSprints, ListIssues, EndSync,
                  nodeVars
    <2> QED BY <2>1, TombstoneMirrors, OthersMirror
  <1>3. ASSUME NEW t \in Tools,
               \/ ToolStep(t)
               \/ \E i \in Issues : FindIssue(t, i) \/ PostIssue(t, i)
               \/ \E p \in Projects : Suggest(t, p) \/ \E x \in Texts : Search(t, p, x)
        PROVE  Mirrors!Follows
    <2>1. said \subseteq said'
      BY <1>3 DEF ToolStep, FindIssue, PostIssue, PatchIssue, Mirrored, Suggest, ReadResolved,
                  ReadLoad, Search, Rank, Changed, nodeVars
    <2> QED BY <1>3, <2>1, ToolSourced, OthersMirror
  <1>4. ASSUME \/ \E x \in Users \cup Projects \cup Sprints : Announce(x)
               \/ \E e \in Events : EventApplied(e)
               \/ \E j \in Jobs : Fail(j)
               \/ UNCHANGED vars
        PROVE  Mirrors!Follows
    <2>1. said' = said
      BY <1>4 DEF Announce, EventApplied, Fail, vars, nodeVars
    <2> QED BY <1>4, <2>1, OtherSourced, OthersMirror
  <1>5. CASE Start
    BY <1>2, <1>3, <1>4, <1>5 DEF Start
  <1>6. ASSUME NEW j \in Jobs, Proceed(j) PROVE Mirrors!Follows
    BY <1>2, <1>3, <1>4, <1>6, WriteMirrors DEF Proceed
  <1> QED BY <1>1, <1>4, <1>5, <1>6 DEF Next

(* Whatever overlaps or fails, the graph keeps its promise.                *)
THEOREM MirrorImplemented == Spec => ImplementsMirror
PROOF
  <1> DEFINE Inv == TypeOK /\ Placed /\ Sourced /\ OneValue(graph)
  <1>1. Init => Inv
    BY InitType, InitPlaced, InitSourced
  <1>2. Inv /\ [Next]_vars => Inv'
    BY NextType, NextPlaced, NextSourced
  <1>3. Init => Mirrors!Init
    BY DEF Init, Mirrors!Init
  <1>4. Inv /\ Inv' /\ [Next]_vars => [Mirrors!Next]_(Mirrors!mirrorVars)
    <2>1. OneValue(graph)' => Mirrors!OneEach(graph)'
      BY DEF OneValue, Replaces, Mirrors!OneEach, Mirrors!Supersedes
    <2> QED BY <2>1, NextMirrors DEF Mirrors!Next
  <1> QED BY <1>1, <1>2, <1>3, <1>4, PTL DEF Spec, ImplementsMirror, Mirrors!Spec

(* Of the graph, whatever writes to it, as of any that follows Node: each  *)
(* of its facts Node once said, or it marks the end of a membership that   *)
(* Node once said.                                                         *)
THEOREM GraphIsSound == Spec => []Mirrors!Sound
PROOF
  <1>1. Mirrors!Init => Mirrors!Sound
    BY DEF Mirrors!Init, Mirrors!Sound
  <1>2. Mirrors!Sound /\ [Mirrors!Next]_(Mirrors!mirrorVars) => Mirrors!Sound'
    <2> SUFFICES ASSUME Mirrors!Sound, [Mirrors!Next]_(Mirrors!mirrorVars),
                        NEW g \in graph'
                 PROVE  g \in said' \/ \E f \in said' : f.rel = "MEMBER_OF" /\ g = Mirrors!Ended(f)
      BY DEF Mirrors!Sound, Mirrors!Ended
    <2>1. said \subseteq said'
      BY DEF Mirrors!Next, Mirrors!Follows, Mirrors!mirrorVars
    <2>2. CASE g \in graph
      BY <2>1, <2>2 DEF Mirrors!Sound
    <2>3. CASE g \notin graph /\ g \notin said'
      <3>1. PICK f \in graph : f.rel = "MEMBER_OF" /\ g = Mirrors!Ended(f)
        BY <2>3 DEF Mirrors!Next, Mirrors!Follows, Mirrors!mirrorVars
      <3>2. CASE f \in said
        BY <2>1, <3>1, <3>2
      <3>3. CASE f \notin said
        <4>1. PICK h \in said : h.rel = "MEMBER_OF" /\ f = Mirrors!Ended(h)
          BY <3>3 DEF Mirrors!Sound
        <4>2. f = h
          BY <3>1, <4>1 DEF Mirrors!Ended
        <4> QED BY <3>3, <4>1, <4>2
      <3> QED BY <3>2, <3>3
    <2> QED BY <2>2, <2>3
  <1> QED BY <1>1, <1>2, MirrorImplemented, PTL DEF ImplementsMirror, Mirrors!Spec

-----------------------------------------------------------------------------
(* Repair. *)

(* A job between two upserts of no list has nothing on its way.            *)
LEMMA IdlePending == \A j \in Jobs : Idle(j) => Pending(j) = {}
BY DEF Idle, Pending, Told

(* A step that leaves Node as it is and what is true in the graph or on    *)
(* its way, and adds no membership that is not, leaves what a sync has     *)
(* repaired of a project, if it repairs what the sync gets past with it.   *)
LEMMA KeepsRepaired ==
  ASSUME TypeOK, NEW s \in Syncs, NEW p \in Projects, Repaired(s, p), UNCHANGED <<roster, rows>>,
         (graph \cup Pending(s)) \cap Current \subseteq graph' \cup Pending(s)',
         \A f \in graph' : f.rel = "MEMBER_OF" => f \in graph \cup Current,
         Past(s, p, {})' => Past(s, p, {}) \/ Name(p) \in Pending(s)',
         Past(s, p, {"members"})' => Past(s, p, {"members"}) \/ Team(p) \subseteq Pending(s)',
         Past(s, p, {"members", "tombstones"})' =>
           Past(s, p, {"members", "tombstones"}) \/ NobodyElse(p)',
         Past(s, p, {"members", "tombstones", "sprints"})' =>
           \/ Past(s, p, {"members", "tombstones", "sprints"})
           \/ {Name(x) : x \in {y \in Sprints : Home[y] = p}} \subseteq Pending(s)',
         Past(s, p, {"members", "tombstones", "sprints", "issues"})' =>
           \/ Past(s, p, {"members", "tombstones", "sprints", "issues"})
           \/ UNION {Told(RowWrites(i, rows[i])) : i \in Existing(p)} \subseteq Pending(s)'
  PROVE  Repaired(s, p)'
PROOF
  <1>1. /\ Name(p) \in Current /\ Team(p) \subseteq Current
        /\ {Name(x) : x \in {y \in Sprints : Home[y] = p}} \subseteq Current
        /\ UNION {Told(RowWrites(i, rows[i])) : i \in Existing(p)} \subseteq Current
    <2>1. roster[p] \subseteq Users
      BY DEF TypeOK
    <2> QED BY <2>1, FactsOfParts DEF Current, Team, Existing
  <1>2. Team(p)' = Team(p) /\ Existing(p)' = Existing(p)
        /\ (UNION {Told(RowWrites(i, rows[i])) : i \in Existing(p)})'
             = UNION {Told(RowWrites(i, rows[i])) : i \in Existing(p)}
    BY DEF Team, Existing
  <1>3. NobodyElse(p) => NobodyElse(p)'
    <2> SUFFICES ASSUME NobodyElse(p), NEW f \in graph', f.rel = "MEMBER_OF", f.to = p
                 PROVE  f.from \in roster[p]
      BY DEF NobodyElse
    <2>1. CASE f \in graph
      BY <2>1 DEF NobodyElse
    <2>2. CASE f \in Current
      BY <2>2, FactsOfShape DEF TypeOK, Current
    <2> QED BY <2>1, <2>2
  <1> DEFINE got == graph \cup Pending(s)
  <1>4. \A w : w \subseteq Current /\ w \subseteq got => w \subseteq got'
    OBVIOUS
  <1>5. (Past(s, p, {}) => Name(p) \in got)'
    BY <1>1 DEF Repaired
  <1>6. (Past(s, p, {"members"}) => Team(p) \subseteq got)'
    BY <1>1, <1>2, <1>4 DEF Repaired
  <1>7. (Past(s, p, {"members", "tombstones"}) => NobodyElse(p))'
    BY <1>3 DEF Repaired
  <1>8. (Past(s, p, {"members", "tombstones", "sprints"}) =>
           {Name(x) : x \in {y \in Sprints : Home[y] = p}} \subseteq got)'
    BY <1>1, <1>4 DEF Repaired
  <1>9. (Past(s, p, {"members", "tombstones", "sprints", "issues"}) =>
           UNION {Told(RowWrites(i, rows[i])) : i \in Existing(p)} \subseteq got)'
    BY <1>1, <1>2, <1>4 DEF Repaired
  <1> QED BY <1>5, <1>6, <1>7, <1>8, <1>9 DEF Repaired

(* A sync that does not move keeps what it repaired.                       *)
LEMMA KeepsRepairs ==
  ASSUME TypeOK, NEW s \in Syncs, Repairs(s), UNCHANGED <<roster, rows>>,
         steady'[s] => steady[s],
         UNCHANGED <<at[s], ahead[s], project[s], keep[s]>>,
         (graph \cup Pending(s)) \cap Current \subseteq graph' \cup Pending(s)',
         \A f \in graph' : f.rel = "MEMBER_OF" => f \in graph \cup Current
  PROVE  Repairs(s)'
PROOF
  <1> SUFFICES ASSUME steady'[s], at'[s] \in SyncStages
               PROVE  /\ at'[s] = "tombstones" => keep'[s] = roster'[project'[s]]
                      /\ \A p \in Projects : Repaired(s, p)'
    BY DEF Repairs
  <1>1. at'[s] = "tombstones" => keep'[s] = roster'[project'[s]]
    BY DEF Repairs
  <1>2. ASSUME NEW p \in Projects PROVE Repaired(s, p)'
    <2>1. Repaired(s, p)
      BY DEF Repairs
    <2>2. \A stages : Past(s, p, stages)' <=> Past(s, p, stages)
      BY DEF Past
    <2> QED BY <2>1, <2>2, KeepsRepaired
  <1> QED BY <1>1, <1>2

(* The same of what the graph covers.                                      *)
LEMMA KeepsCovered ==
  ASSUME TypeOK, Covered, UNCHANGED <<roster, rows>>,
         graph \cap Current \subseteq graph',
         \A f \in graph' : f.rel = "MEMBER_OF" => f \in graph \cup Current
  PROVE  Covered'
PROOF
  <1>1. Current' = Current
    BY DEF Current
  <1>2. \A f \in graph' : f.rel = "MEMBER_OF" => f \in Current
    BY DEF Covered
  <1>3. {f \in ListsOf(roster, rows) : f \in UserNames => \E p \in Projects : f.from \in roster[p]}
          \subseteq graph'
    BY ListsOfParts DEF Covered, Current
  <1> QED BY <1>1, <1>2, <1>3 DEF Covered

(* What covers Node's lists is exact, but for edges of the past.           *)
LEMMA CoveredIsExact ==
  ASSUME TypeOK, Sourced, OneValue(graph), Covered
  PROVE  \A f \in graph :
           /\ f.rel = "REMOVED" => Member(f.from, f.to) \notin Current
           /\ f.rel \in Single /\ rows[f.from] # None => f \in Current
PROOF
  <1>0. \A g \in ListsOf(roster, rows) : g.rel # "name" => g \in graph
    BY DEF Covered, UserNames, Name, Fact
  <1> TAKE f \in graph
  <1>1. ASSUME f.rel = "REMOVED", Member(f.from, f.to) \in Current PROVE FALSE
    <2> DEFINE g == Member(f.from, f.to)
    <2>1. g.rel = "MEMBER_OF" /\ g.from = f.from /\ g.to = f.to
      BY DEF Member, Fact
    <2>2. f.to \in Projects /\ f.from \in roster[f.to]
      BY <1>1, <2>1, FactsOfShape DEF TypeOK, Current
    <2>3. g \in ListsOf(roster, rows)
      BY <2>2, ListsOfParts
    <2>4. g \in graph /\ Replaces({g}, f)
      BY <1>0, <1>1, <2>1, <2>3 DEF Replaces
    <2> QED BY <1>1, <2>1, <2>4 DEF OneValue
  <1>2. ASSUME f.rel \in Single, rows[f.from] # None PROVE f \in Current
    <2> DEFINE i == f.from
               g == IF f.rel = "title" THEN Fact("title", i, rows[i].title)
                    ELSE Fact("state", i, rows[i].state)
    <2>1. i \in Issues
      BY <1>2 DEF Sourced, Single
    <2>2. g \in Told(RowWrites(i, rows[i]))
      BY <2>1, RowFacts
    <2>3. g \in ListsOf(roster, rows) /\ g \in Current
      BY <1>2, <2>1, <2>2, ListsOfParts DEF Current
    <2>4. g.rel = f.rel /\ g.from = f.from
      BY <1>2 DEF Fact, Single
    <2>5. g \in graph /\ Replaces({g}, f)
      BY <1>0, <1>2, <2>3, <2>4 DEF Replaces, Single
    <2>6. f = g
      BY <2>5 DEF OneValue
    <2> QED BY <2>3, <2>6
  <1> QED BY <1>1, <1>2
(* A step that ends every steady run and the freshness needs nothing.      *)
LEMMA NothingSteady ==
  ASSUME Agree(FALSE)
  PROVE  (\A s \in Syncs : Repairs(s)') /\ (fresh => Covered)'
BY DEF Agree, Repairs

(* A step that leaves Node, the graph and the syncs as they are, too.      *)
LEMMA SyncsUntouched ==
  ASSUME TypeOK, \A s \in Syncs : Repairs(s), fresh => Covered,
         UNCHANGED <<roster, rows, graph, ahead, keep, steady, fresh>>,
         \A s \in Syncs : UNCHANGED <<at[s], todo[s], left[s], project[s]>>
  PROVE  (\A s \in Syncs : Repairs(s)') /\ (fresh => Covered)'
PROOF
  <1>1. ASSUME NEW s \in Syncs PROVE Repairs(s)'
    <2>1. Pending(s)' = Pending(s)
      BY DEF Pending
    <2>2. Repairs(s) /\ (steady'[s] => steady[s])
      OBVIOUS
    <2> QED BY <2>1, <2>2, KeepsRepairs
  <1>2. fresh' => Covered'
    BY KeepsCovered
  <1> QED BY <1>1, <1>2

(* A statement leaves what was repaired, unless Node's data contradict it. *)
LEMMA WriteRepairs ==
  ASSUME TypeOK, Sourced, OneValue(graph), \A s \in Syncs : Repairs(s), fresh => Covered,
         NEW j \in Jobs, Write(j)
  PROVE  (\A s \in Syncs : Repairs(s)') /\ (fresh => Covered)'
PROOF
  <1>1. PICK writes \in IF todo[j] = <<>> THEN left[j] ELSE {todo[j]} :
          /\ graph' = Put(graph, Head(writes))
          /\ todo' = [todo EXCEPT ![j] = Tail(writes)]
          /\ left' = IF todo[j] = <<>> THEN [left EXCEPT ![j] = @ \ {writes}] ELSE left
          /\ Agree(Head(writes) \subseteq Current)
          /\ UNCHANGED <<nodeVars, at, project, ahead, keep>>
    BY DEF Write
  <1> DEFINE w == Head(writes)
  <1>2. CASE ~(w \subseteq Current)
    BY <1>1, <1>2, NothingSteady
  <1>3. CASE w \subseteq Current
    <2>1. graph \cap Current \subseteq graph' /\ w \subseteq graph'
          /\ \A f \in graph' : f \in graph \cup Current
      BY <1>1, <1>3, AgreeingPut, PutSubset
    <2>2. /\ UNCHANGED <<roster, rows>>
          /\ \A s \in Syncs : steady'[s] => steady[s]
          /\ fresh' => fresh
      BY <1>1 DEF Agree, nodeVars
    <2>3. Pending(j) \subseteq w \cup Pending(j)'
      <3>1. Told(writes) \subseteq w \cup Told(Tail(writes))
        <4> SUFFICES ASSUME NEW n \in DOMAIN writes, NEW f \in writes[n], f \notin w
                     PROVE  f \in Told(Tail(writes))
          BY DEF Told
        <4>1. n \in 1..Len(writes) /\ n # 1 /\ Len(writes) \in Nat
          BY Statements
        <4>2. n - 1 \in DOMAIN Tail(writes) /\ (n - 1) + 1 = n
          BY <4>1, Statements
        <4>3. Tail(writes)[n - 1] = writes[n]
          BY <4>2, Statements
        <4> QED BY <4>2, <4>3 DEF Told
      <3>2. todo'[j] = Tail(writes)
        BY <1>1 DEF TypeOK
      <3>3. CASE todo[j] = <<>>
        <4>1. left'[j] = left[j] \ {writes} /\ Told(todo[j]) = {}
          BY <1>1, <3>3 DEF TypeOK, Told
        <4> QED BY <3>1, <3>2, <4>1 DEF Pending
      <3>4. CASE todo[j] # <<>>
        <4>1. left'[j] = left[j] /\ todo[j] = writes
          BY <1>1, <3>4 DEF TypeOK
        <4> QED BY <3>1, <3>2, <4>1 DEF Pending
      <3> QED BY <3>3, <3>4
    <2>4. ASSUME NEW s \in Syncs PROVE Repairs(s)'
      <3>1. Pending(s) \subseteq w \cup Pending(s)'
        <4>1. CASE s = j
          BY <2>3, <4>1
        <4>2. CASE s # j
          <5>1. todo'[s] = todo[s] /\ left'[s] = left[s]
            BY <1>1, <4>2 DEF TypeOK, Jobs
          <5> QED BY <5>1 DEF Pending
        <4> QED BY <4>1, <4>2
      <3>2. (graph \cup Pending(s)) \cap Current \subseteq graph' \cup Pending(s)'
        BY <2>1, <3>1
      <3>3. Repairs(s) /\ UNCHANGED <<at[s], ahead[s], project[s], keep[s]>>
        BY <1>1
      <3> QED BY <2>1, <2>2, <3>2, <3>3, KeepsRepairs
    <2>5. fresh' => Covered'
      BY <2>1, <2>2, KeepsCovered
    <2> QED BY <2>4, <2>5
  <1> QED BY <1>2, <1>3
(* A step of a sync that leaves the graph leaves what the others repaired. *)
LEMMA SyncAlone ==
  ASSUME TypeOK, \A k \in Syncs : Repairs(k), UNCHANGED <<roster, rows, graph>>, NEW s \in Syncs,
         \A k \in Syncs \ {s} : /\ steady'[k] = steady[k]
                                /\ UNCHANGED <<at[k], ahead[k], project[k], keep[k]>>
                                /\ UNCHANGED <<todo[k], left[k]>>
  PROVE  \A k \in Syncs \ {s} : Repairs(k)'
PROOF
  <1> TAKE k \in Syncs \ {s}
  <1>1. Pending(k)' = Pending(k)
    BY DEF Pending
  <1> QED BY <1>1, KeepsRepairs

(* A sync that begins has every project before it.                         *)
LEMMA StartRepairs ==
  ASSUME TypeOK, \A k \in Syncs : Repairs(k), fresh => Covered, NEW s \in Syncs, StartSync(s)
  PROVE  (\A k \in Syncs : Repairs(k)') /\ (fresh => Covered)'
PROOF
  <1>1. /\ UNCHANGED <<roster, rows, graph, todo, project, left, keep, fresh>>
        /\ at' = [at EXCEPT ![s] = "projects"] /\ ahead' = [ahead EXCEPT ![s] = Projects]
        /\ steady' = [steady EXCEPT ![s] = TRUE]
    BY DEF StartSync, Goto, nodeVars
  <1>2. at'[s] = "projects" /\ ahead'[s] = Projects
    BY <1>1 DEF TypeOK, Jobs
  <1>3. \A p \in Projects : Repaired(s, p)'
    BY <1>2 DEF Repaired, Past
  <1>4. Repairs(s)'
    BY <1>2, <1>3 DEF Repairs
  <1>5. \A k \in Syncs \ {s} : Repairs(k)'
    BY <1>1, SyncAlone DEF TypeOK, Jobs
  <1>6. fresh' => Covered'
    BY <1>1, KeepsCovered
  <1> QED BY <1>4, <1>5, <1>6

(* Between two stages a sync has nothing on its way, and each stage adds   *)
(* to what is repaired of its project and leaves the others.               *)
LEMMA StageRepairs ==
  ASSUME TypeOK, \A k \in Syncs : Repairs(k), fresh => Covered, NEW s \in Syncs, Idle(s),
         UNCHANGED <<roster, rows, graph, steady, fresh>>,
         \A k \in Syncs \ {s} : /\ UNCHANGED <<at[k], ahead[k], project[k], keep[k]>>
                                /\ UNCHANGED <<todo[k], left[k]>>,
         at[s] \in SyncStages,
         at'[s] = "tombstones" => keep'[s] = roster[project'[s]],
         steady[s] => \A p \in Projects : Repaired(s, p) => Repaired(s, p)'
  PROVE  (\A k \in Syncs : Repairs(k)') /\ (fresh => Covered)'
PROOF
  <1>1. \A k \in Syncs \ {s} : Repairs(k)'
    BY SyncAlone
  <1>2. Repairs(s)'
    BY DEF Repairs
  <1>3. fresh' => Covered'
    BY KeepsCovered
  <1> QED BY <1>1, <1>2, <1>3

(* On to a project, of which the sync will have repaired the node.         *)
LEMMA NextProjectRepairs ==
  ASSUME TypeOK, \A k \in Syncs : Repairs(k), fresh => Covered, NEW s \in Syncs, NextProject(s)
  PROVE  (\A k \in Syncs : Repairs(k)') /\ (fresh => Covered)'
PROOF
  <1>1. PICK q \in ahead[s] :
          /\ project' = [project EXCEPT ![s] = q]
          /\ ahead' = [ahead EXCEPT ![s] = @ \ {q}]
          /\ todo' = [todo EXCEPT ![s] = NameWrites(q)]
    BY DEF NextProject
  <1>2. /\ UNCHANGED <<roster, rows, graph, left, keep, steady, fresh>>
        /\ at' = [at EXCEPT ![s] = "members"] /\ at[s] = "projects" /\ Idle(s)
    BY DEF NextProject, Goto, nodeVars, history
  <1>3. /\ project'[s] = q /\ ahead'[s] = ahead[s] \ {q} /\ at'[s] = "members"
        /\ todo'[s] = NameWrites(q)
    BY <1>1, <1>2 DEF TypeOK, Jobs
  <1>4. Name(q) \in Pending(s)'
    BY <1>3 DEF Pending, NameWrites, Told
  <1>5. ASSUME NEW p \in Projects, Repaired(s, p) PROVE Repaired(s, p)'
    <2>1. (graph \cup Pending(s)) \cap Current \subseteq graph' \cup Pending(s)'
      BY <1>2, IdlePending DEF Jobs
    <2>2. ASSUME NEW stages, stages \subseteq SyncStages, "projects" \notin stages,
                 Past(s, p, stages)', p # q
          PROVE  Past(s, p, stages)
      BY <1>2, <1>3, <2>2 DEF Past
    <2>3. ASSUME NEW stages, "members" \in stages, p = q PROVE ~Past(s, p, stages)'
      BY <1>3, <2>3 DEF Past
    <2>4. Past(s, p, {})' => Past(s, p, {}) \/ Name(p) \in Pending(s)'
      BY <1>4, <2>2
    <2>5. /\ Past(s, p, {"members"})' => Past(s, p, {"members"})
          /\ Past(s, p, {"members", "tombstones"})' => Past(s, p, {"members", "tombstones"})
          /\ Past(s, p, {"members", "tombstones", "sprints"})' =>
               Past(s, p, {"members", "tombstones", "sprints"})
          /\ Past(s, p, {"members", "tombstones", "sprints", "issues"})' =>
               Past(s, p, {"members", "tombstones", "sprints", "issues"})
      BY <2>2, <2>3 DEF SyncStages
    <2> QED BY <1>2, <1>5, <2>1, <2>4, <2>5, KeepsRepaired
  <1>6. \A k \in Syncs \ {s} : /\ UNCHANGED <<at[k], ahead[k], project[k], keep[k]>>
                               /\ UNCHANGED <<todo[k], left[k]>>
    BY <1>1, <1>2 DEF TypeOK, Jobs
  <1> QED BY <1>2, <1>3, <1>5, <1>6, StageRepairs DEF SyncStages
(* A list of Node's, all of whose rows are on their way.                   *)
LEMMA ListRepairs ==
  ASSUME TypeOK, Placed, \A k \in Syncs : Repairs(k), fresh => Covered, NEW s \in Syncs,
         ListMembers(s) \/ ListSprints(s) \/ ListIssues(s)
  PROVE  (\A k \in Syncs : Repairs(k)') /\ (fresh => Covered)'
PROOF
  <1> DEFINE q == project[s]
  <1>1. /\ UNCHANGED <<roster, rows, graph, todo, project, ahead, steady, fresh>> /\ Idle(s)
        /\ \A k \in Syncs \ {s} : UNCHANGED <<at[k], keep[k], left[k]>>
        /\ at[s] \in {"members", "sprints", "issues"} /\ q \in Projects
    BY DEF ListMembers, ListSprints, ListIssues, Listed, Goto, nodeVars, history, TypeOK, Jobs,
           Placed
  <1>2. CASE ListMembers(s)
    <2>1. /\ at[s] = "members" /\ at'[s] = "tombstones" /\ keep'[s] = roster[q]
          /\ left'[s] = {MemberWrites(u, q) : u \in roster[q]}
      BY <1>2 DEF ListMembers, Listed, Goto, TypeOK, Jobs
    <2>2. Team(q) \subseteq Pending(s)'
      <3> SUFFICES ASSUME NEW u \in roster[q] PROVE {Name(u), Member(u, q)} \subseteq Pending(s)'
        BY DEF Team
      <3>1. {Name(u), Member(u, q)} \subseteq Told(MemberWrites(u, q))
        BY DEF MemberWrites, Told
      <3> QED BY <2>1, <3>1 DEF Pending
    <2>3. ASSUME NEW p \in Projects, Repaired(s, p) PROVE Repaired(s, p)'
      <3>1. (graph \cup Pending(s)) \cap Current \subseteq graph' \cup Pending(s)'
        BY <1>1, IdlePending DEF Jobs
      <3>2. ASSUME NEW stages, Past(s, p, stages)', "tombstones" \in stages \/ p # q
            PROVE  Past(s, p, stages)
        BY <1>1, <2>1, <3>2 DEF Past
      <3>3. Past(s, p, {})' => Past(s, p, {})
        BY <1>1 DEF Past
      <3>4. Past(s, p, {"members"})' => Past(s, p, {"members"}) \/ Team(p) \subseteq Pending(s)'
        BY <2>2, <3>2
      <3>5. /\ Past(s, p, {"members", "tombstones"})' => Past(s, p, {"members", "tombstones"})
            /\ Past(s, p, {"members", "tombstones", "sprints"})' =>
                 Past(s, p, {"members", "tombstones", "sprints"})
            /\ Past(s, p, {"members", "tombstones", "sprints", "issues"})' =>
                 Past(s, p, {"members", "tombstones", "sprints", "issues"})
        BY <3>2
      <3> QED BY <1>1, <2>3, <3>1, <3>3, <3>4, <3>5, KeepsRepaired
    <2> QED BY <1>1, <2>1, <2>3, StageRepairs DEF SyncStages
  <1>3. CASE ListSprints(s)
    <2>1. /\ at[s] = "sprints" /\ at'[s] = "issues"
          /\ left'[s] = {NameWrites(x) : x \in {y \in Sprints : Home[y] = q}}
      BY <1>3 DEF ListSprints, Listed, Goto, TypeOK, Jobs
    <2>2. {Name(x) : x \in {y \in Sprints : Home[y] = q}} \subseteq Pending(s)'
      <3> SUFFICES ASSUME NEW x \in Sprints, Home[x] = q PROVE Name(x) \in Pending(s)'
        OBVIOUS
      <3>1. Name(x) \in Told(NameWrites(x))
        BY DEF NameWrites, Told
      <3> QED BY <2>1, <3>1 DEF Pending
    <2>3. ASSUME NEW p \in Projects, Repaired(s, p) PROVE Repaired(s, p)'
      <3>1. (graph \cup Pending(s)) \cap Current \subseteq graph' \cup Pending(s)'
        BY <1>1, IdlePending DEF Jobs
      <3>2. ASSUME NEW stages, Past(s, p, stages)', "issues" \in stages \/ "sprints" \notin stages \/ p # q
            PROVE  Past(s, p, stages)
        BY <1>1, <2>1, <3>2 DEF Past
      <3>3. /\ Past(s, p, {})' => Past(s, p, {})
            /\ Past(s, p, {"members"})' => Past(s, p, {"members"})
            /\ Past(s, p, {"members", "tombstones"})' => Past(s, p, {"members", "tombstones"})
            /\ Past(s, p, {"members", "tombstones", "sprints", "issues"})' =>
                 Past(s, p, {"members", "tombstones", "sprints", "issues"})
        BY <3>2
      <3>4. Past(s, p, {"members", "tombstones", "sprints"})' =>
              \/ Past(s, p, {"members", "tombstones", "sprints"})
              \/ {Name(x) : x \in {y \in Sprints : Home[y] = p}} \subseteq Pending(s)'
        BY <2>2, <3>2
      <3> QED BY <1>1, <2>3, <3>1, <3>3, <3>4, KeepsRepaired
    <2> QED BY <1>1, <1>3, <2>1, <2>3, StageRepairs DEF SyncStages, ListSprints
  <1>4. CASE ListIssues(s)
    <2>1. /\ at[s] = "issues" /\ at'[s] = "projects"
          /\ left'[s] = {RowWrites(i, rows[i]) : i \in Existing(q)}
      BY <1>4 DEF ListIssues, Listed, Goto, TypeOK, Jobs
    <2>2. UNION {Told(RowWrites(i, rows[i])) : i \in Existing(q)} \subseteq Pending(s)'
      BY <2>1 DEF Pending
    <2>3. ASSUME NEW p \in Projects, Repaired(s, p) PROVE Repaired(s, p)'
      <3>1. (graph \cup Pending(s)) \cap Current \subseteq graph' \cup Pending(s)'
        BY <1>1, IdlePending DEF Jobs
      <3>2. ASSUME NEW stages, Past(s, p, stages)', "issues" \notin stages \/ p # q
            PROVE  Past(s, p, stages)
        BY <1>1, <2>1, <3>2 DEF Past
      <3>3. /\ Past(s, p, {})' => Past(s, p, {})
            /\ Past(s, p, {"members"})' => Past(s, p, {"members"})
            /\ Past(s, p, {"members", "tombstones"})' => Past(s, p, {"members", "tombstones"})
            /\ Past(s, p, {"members", "tombstones", "sprints"})' =>
                 Past(s, p, {"members", "tombstones", "sprints"})
        BY <3>2
      <3>4. Past(s, p, {"members", "tombstones", "sprints", "issues"})' =>
              \/ Past(s, p, {"members", "tombstones", "sprints", "issues"})
              \/ UNION {Told(RowWrites(i, rows[i])) : i \in Existing(p)} \subseteq Pending(s)'
        BY <2>2, <3>2
      <3> QED BY <1>1, <2>3, <3>1, <3>3, <3>4, KeepsRepaired
    <2> QED BY <1>1, <1>4, <2>1, <2>3, StageRepairs DEF SyncStages, ListIssues
  <1> QED BY <1>2, <1>3, <1>4
(* Tombstones take nothing that is so, if the list they go by is still     *)
(* Node's, and then nobody else is left.                                   *)
LEMMA TombstoneRepairs ==
  ASSUME TypeOK, Placed, \A k \in Syncs : Repairs(k), fresh => Covered, NEW s \in Syncs,
         Tombstone(s)
  PROVE  (\A k \in Syncs : Repairs(k)') /\ (fresh => Covered)'
PROOF
  <1> DEFINE q == project[s]
  <1>1. /\ UNCHANGED <<roster, rows, todo, project, left, ahead>> /\ Idle(s)
        /\ graph' = Buried(graph, q, keep[s]) /\ Agree(keep[s] = roster[q])
        /\ at[s] = "tombstones" /\ at' = [at EXCEPT ![s] = "sprints"]
        /\ keep' = [keep EXCEPT ![s] = {}] /\ q \in Projects
    BY DEF Tombstone, Goto, nodeVars, Placed, Jobs
  <1>2. CASE keep[s] # roster[q]
    BY <1>1, <1>2, NothingSteady
  <1>3. CASE keep[s] = roster[q]
    <2>1. \A f \in graph \cap Current : f \notin Lapsed(graph, q, keep[s])
      <3> SUFFICES ASSUME NEW f \in Current, f.rel = "MEMBER_OF", f.to = q
                   PROVE  f.from \in roster[q]
        BY <1>3 DEF Lapsed
      <3> QED BY FactsOfShape DEF TypeOK, Current
    <2>2. graph \cap Current \subseteq graph'
      BY <1>1, <2>1 DEF Buried
    <2>3. \A f \in graph' : f.rel = "MEMBER_OF" => f \in graph \ Lapsed(graph, q, keep[s])
      BY <1>1 DEF Buried, Removed, Fact
    <2>4. \A f \in graph' : f.rel = "MEMBER_OF" => f \in graph
      BY <2>3
    <2>5. NobodyElse(q)'
      BY <1>1, <1>3, <2>3 DEF NobodyElse, Lapsed
    <2>6. (\A k \in Syncs : steady'[k] = steady[k]) /\ fresh' = fresh
      BY <1>1, <1>3 DEF Agree, TypeOK
    <2>7. \A k \in Syncs : Pending(k)' = Pending(k)
      BY <1>1 DEF Pending
    <2>8. ASSUME NEW k \in Syncs \ {s} PROVE Repairs(k)'
      <3>1. UNCHANGED <<at[k], ahead[k], project[k], keep[k]>>
        BY <1>1 DEF TypeOK, Jobs
      <3>2. (graph \cup Pending(k)) \cap Current \subseteq graph' \cup Pending(k)'
        BY <2>2, <2>7
      <3> QED BY <1>1, <2>4, <2>6, <3>1, <3>2, KeepsRepairs
    <2>9. Repairs(s)'
      <3>0. at'[s] = "sprints"
        BY <1>1 DEF TypeOK, Jobs
      <3>1. ASSUME NEW p \in Projects, Repaired(s, p) PROVE Repaired(s, p)'
        <4>1. ASSUME NEW stages, Past(s, p, stages)',
                     "sprints" \in stages \/ "tombstones" \notin stages \/ p # q
              PROVE  Past(s, p, stages)
          BY <1>1, <3>0, <4>1 DEF Past
        <4>2. /\ Past(s, p, {})' => Past(s, p, {})
              /\ Past(s, p, {"members"})' => Past(s, p, {"members"})
              /\ Past(s, p, {"members", "tombstones", "sprints"})' =>
                   Past(s, p, {"members", "tombstones", "sprints"})
              /\ Past(s, p, {"members", "tombstones", "sprints", "issues"})' =>
                   Past(s, p, {"members", "tombstones", "sprints", "issues"})
          BY <4>1
        <4>3. Past(s, p, {"members", "tombstones"})' =>
                Past(s, p, {"members", "tombstones"}) \/ NobodyElse(p)'
          <5>1. CASE p = q
            BY <1>1, <2>5, <5>1 DEF NobodyElse
          <5>2. CASE p # q
            BY <4>1, <5>2
          <5> QED BY <5>1, <5>2
        <4>4. (graph \cup Pending(s)) \cap Current \subseteq graph' \cup Pending(s)'
          BY <2>2, <2>7
        <4> QED BY <1>1, <2>4, <3>1, <4>2, <4>3, <4>4, KeepsRepaired
      <3>2. steady[s] => \A p \in Projects : Repaired(s, p)
        BY <1>1 DEF Repairs, SyncStages
      <3> QED BY <2>6, <3>0, <3>1, <3>2 DEF Repairs
    <2>10. fresh' => Covered'
      BY <1>1, <2>2, <2>4, <2>6, KeepsCovered
    <2> QED BY <2>8, <2>9, <2>10
  <1> QED BY <1>2, <1>3

(* A sync that is past every project, and that nothing contradicted, has   *)
(* repaired whatever Node says, but for users who are members of nothing.  *)
LEMMA RepairedIsCovered ==
  ASSUME TypeOK, Sourced, NEW s \in Syncs, Idle(s), ahead[s] = {}, at[s] = "projects",
         \A p \in Projects : Repaired(s, p)
  PROVE  Covered
PROOF
  <1>1. \A p \in Projects : \A stages : "projects" \notin stages => Past(s, p, stages)
    BY DEF Past
  <1>2. graph \cup Pending(s) = graph
    BY IdlePending DEF Jobs
  <1>3. ASSUME NEW p \in Projects
        PROVE  /\ Name(p) \in graph /\ Team(p) \subseteq graph /\ NobodyElse(p)
               /\ {Name(x) : x \in {y \in Sprints : Home[y] = p}} \subseteq graph
               /\ UNION {Told(RowWrites(i, rows[i])) : i \in Existing(p)} \subseteq graph
    BY <1>1, <1>2 DEF Repaired
  <1>4. ASSUME NEW f \in ListsOf(roster, rows), f \in UserNames => \E p \in Projects : f.from \in roster[p]
        PROVE  f \in graph
    <2>1. CASE f \in UserNames
      <3>1. PICK p \in Projects : f.from \in roster[p]
        BY <1>4, <2>1
      <3>2. f = Name(f.from)
        BY <2>1 DEF UserNames, Name, Fact
      <3>3. f \in Team(p)
        BY <3>1, <3>2 DEF Team
      <3> QED BY <1>3, <3>3
    <2>2. ASSUME NEW x \in Projects, f = Name(x) PROVE f \in graph
      BY <1>3, <2>2
    <2>3. ASSUME NEW x \in Sprints, f = Name(x) PROVE f \in graph
      <3>1. Home[x] \in Projects
        BY GraphAssumption
      <3> QED BY <1>3, <2>3, <3>1
    <2>4. ASSUME NEW p \in Projects, NEW u \in roster[p], f = Member(u, p) PROVE f \in graph
      BY <1>3, <2>4 DEF Team
    <2>5. ASSUME NEW i \in Issues, rows[i] # None, f \in Told(RowWrites(i, rows[i]))
          PROVE  f \in graph
      <3>1. Home[i] \in Projects
        BY GraphAssumption
      <3>2. i \in Existing(Home[i])
        BY <2>5 DEF Existing
      <3> QED BY <1>3, <2>5, <3>1, <3>2
    <2>6. CASE f \in {Name(x) : x \in Users \cup Projects \cup Sprints}
      BY <2>1, <2>2, <2>3, <2>6 DEF UserNames
    <2> QED BY <2>4, <2>5, <2>6 DEF ListsOf
  <1>5. ASSUME NEW f \in graph, f.rel = "MEMBER_OF" PROVE f \in Current
    <2>1. f \in Facts /\ f \in said
      BY <1>5 DEF TypeOK, Sourced
    <2>2. f.to \in Projects
      BY <1>5, <2>1 DEF Sourced
    <2>3. f.from \in roster[f.to]
      BY <1>3, <1>5, <2>2 DEF NobodyElse
    <2>4. f = Member(f.from, f.to)
      BY <1>5, <2>1, FactsAreRecords DEF Member
    <2> QED BY <2>2, <2>3, <2>4, FactsOfParts DEF Current
  <1> QED BY <1>4, <1>5 DEF Covered
(* The end of a sync, and whatever else a sync does.                       *)
LEMMA SyncRepairs ==
  ASSUME TypeOK, Placed, Sourced, \A k \in Syncs : Repairs(k), fresh => Covered, NEW s \in Syncs,
         StartSync(s) \/ SyncStep(s)
  PROVE  (\A k \in Syncs : Repairs(k)') /\ (fresh => Covered)'
PROOF
  <1>1. CASE EndSync(s)
    <2>1. /\ UNCHANGED <<roster, rows, graph, todo, left, ahead, keep, steady>> /\ Idle(s)
          /\ at[s] = "projects" /\ at' = [at EXCEPT ![s] = "done"] /\ ahead[s] = {}
          /\ project' = [project EXCEPT ![s] = None] /\ fresh' = (fresh \/ steady[s])
      BY <1>1 DEF EndSync, Goto, nodeVars, syncVars
    <2>2. \A k \in Syncs \ {s} : Repairs(k)'
      BY <2>1, SyncAlone DEF TypeOK, Jobs
    <2>3. Repairs(s)'
      <3>1. at'[s] = "done"
        BY <2>1 DEF TypeOK, Jobs
      <3> QED BY <3>1 DEF Repairs, SyncStages
    <2>4. steady[s] => Covered
      BY <2>1, RepairedIsCovered DEF Repairs, SyncStages
    <2>5. Covered => Covered'
      BY <2>1, KeepsCovered
    <2> QED BY <2>1, <2>2, <2>3, <2>4, <2>5
  <1>2. CASE StartSync(s)
    BY <1>2, StartRepairs
  <1>3. CASE SyncStep(s) /\ ~EndSync(s)
    BY <1>3, NextProjectRepairs, ListRepairs, TombstoneRepairs DEF SyncStep
  <1> QED BY <1>1, <1>2, <1>3

(* Changes of Node's data, and what Node tells of them.                    *)
LEMMA NodeRepairs ==
  ASSUME NodeStep
  PROVE  (\A k \in Syncs : Repairs(k)') /\ (fresh => Covered)'
PROOF
  <1>1. Agree(FALSE)
    BY DEF NodeStep, Join, Leave, Save, Delete, Changed
  <1> QED BY <1>1, NothingSteady

(* The tools: those that write to Node, and those that read.               *)
LEMMA ToolRepairs ==
  ASSUME TypeOK, \A k \in Syncs : Repairs(k), fresh => Covered, NEW t \in Tools,
         \/ ToolStep(t)
         \/ \E i \in Issues : FindIssue(t, i) \/ PostIssue(t, i)
         \/ \E p \in Projects : Suggest(t, p) \/ \E x \in Texts : Search(t, p, x)
  PROVE  (\A k \in Syncs : Repairs(k)') /\ (fresh => Covered)'
PROOF
  <1>1. CASE PatchIssue(t) \/ \E i \in Issues : PostIssue(t, i)
    <2>1. Agree(FALSE)
      BY <1>1 DEF PatchIssue, PostIssue, Changed
    <2> QED BY <2>1, NothingSteady
  <1>2. ASSUME \/ Mirrored(t) \/ ReadResolved(t) \/ ReadLoad(t) \/ Rank(t)
               \/ \E i \in Issues : FindIssue(t, i)
               \/ \E p \in Projects : Suggest(t, p) \/ \E x \in Texts : Search(t, p, x)
        PROVE  (\A k \in Syncs : Repairs(k)') /\ (fresh => Covered)'
    <2>1. /\ UNCHANGED <<roster, rows, graph, todo, left, ahead, keep, steady, fresh>>
          /\ \A k \in Jobs \ {t} : UNCHANGED <<at[k], project[k]>>
      BY <1>2 DEF Mirrored, AfterMirror, ReadResolved, ReadLoad, Rank, FindIssue, Suggest, Search,
                  Goto, nodeVars, syncVars, history, TypeOK
    <2>2. \A k \in Syncs : k \in Jobs \ {t}
      BY GraphAssumption DEF Jobs
    <2> QED BY <2>1, <2>2, SyncsUntouched
  <1> QED BY <1>1, <1>2 DEF ToolStep

(* Events, and failures: a sync that fails is no longer one to repair.     *)
LEMMA OtherRepairs ==
  ASSUME TypeOK, \A k \in Syncs : Repairs(k), fresh => Covered,
         \/ \E x \in Users \cup Projects \cup Sprints : Announce(x)
         \/ \E e \in Events : EventApplied(e)
         \/ \E j \in Jobs : Fail(j)
         \/ UNCHANGED vars
  PROVE  (\A k \in Syncs : Repairs(k)') /\ (fresh => Covered)'
PROOF
  <1>1. ASSUME NEW x \in Users \cup Projects \cup Sprints, Announce(x)
        PROVE  (\A k \in Syncs : Repairs(k)') /\ (fresh => Covered)'
    <2>1. PICK e \in Events : at' = [at EXCEPT ![e] = "applying"]
                              /\ todo' = [todo EXCEPT ![e] = NameWrites(x)]
      BY <1>1 DEF Announce, Apply, Goto
    <2>2. UNCHANGED <<roster, rows, graph, project, left, ahead, keep, steady, fresh>>
      BY <1>1 DEF Announce, nodeVars, syncVars, history
    <2>3. \A k \in Syncs : k \in Jobs /\ k # e
      BY GraphAssumption DEF Jobs
    <2>4. \A k \in Syncs : UNCHANGED <<at[k], todo[k]>>
      BY <2>1, <2>3 DEF TypeOK
    <2> QED BY <2>2, <2>4, SyncsUntouched
  <1>2. ASSUME NEW e \in Events, EventApplied(e)
        PROVE  (\A k \in Syncs : Repairs(k)') /\ (fresh => Covered)'
    <2>1. /\ UNCHANGED <<roster, rows, graph, todo, project, left, ahead, keep, steady, fresh>>
          /\ at' = [at EXCEPT ![e] = "done"]
      BY <1>2 DEF EventApplied, Goto, nodeVars, syncVars, history
    <2>2. \A k \in Syncs : k \in Jobs /\ k # e
      BY GraphAssumption DEF Jobs
    <2>3. \A k \in Syncs : UNCHANGED at[k]
      BY <2>1, <2>2 DEF TypeOK
    <2> QED BY <2>1, <2>3, SyncsUntouched
  <1>3. ASSUME NEW j \in Jobs, Fail(j)
        PROVE  (\A k \in Syncs : Repairs(k)') /\ (fresh => Covered)'
    <2>1. /\ UNCHANGED <<roster, rows, graph, steady, fresh>>
          /\ \A k \in Jobs \ {j} : UNCHANGED <<at[k], todo[k], left[k], project[k]>>
          /\ \A k \in Syncs \ {j} : UNCHANGED <<ahead[k], keep[k]>>
      BY <1>3 DEF Fail, AfterMirror, Goto, nodeVars, history, TypeOK
    <2>2. at'[j] \notin SyncStages
      BY <1>3 DEF Fail, AfterMirror, Goto, TypeOK, SyncStages
    <2>3. Syncs \subseteq Jobs
      BY DEF Jobs
    <2>4. ASSUME NEW k \in Syncs PROVE Repairs(k)'
      <3>1. CASE k = j
        BY <2>2, <3>1 DEF Repairs
      <3>2. CASE k # j
        <4>1. UNCHANGED <<at[k], todo[k], left[k], project[k], ahead[k], keep[k]>>
          BY <2>1, <2>3, <3>2
        <4>2. Pending(k)' = Pending(k)
          BY <4>1 DEF Pending
        <4> QED BY <2>1, <4>1, <4>2, KeepsRepairs
      <3> QED BY <3>1, <3>2
    <2>5. fresh' => Covered'
      BY <2>1, KeepsCovered
    <2> QED BY <2>4, <2>5
  <1>4. ASSUME UNCHANGED vars PROVE (\A k \in Syncs : Repairs(k)') /\ (fresh => Covered)'
    BY <1>4, SyncsUntouched DEF vars, nodeVars, syncVars, history
  <1> QED BY <1>1, <1>2, <1>3, <1>4

(* Every step keeps the invariant.                                         *)
LEMMA NextInv == TypeOK /\ IndInv /\ [Next]_vars => TypeOK' /\ IndInv'
PROOF
  <1> SUFFICES ASSUME TypeOK, IndInv, [Next]_vars PROVE TypeOK' /\ IndInv'
    OBVIOUS
  <1>1. /\ TypeOK /\ Placed /\ Sourced /\ OneValue(graph)
        /\ (\A s \in Syncs : Repairs(s)) /\ (fresh => Covered)
    BY DEF IndInv
  <1>2. TypeOK' /\ Placed' /\ Sourced' /\ OneValue(graph)'
    BY <1>1, NextType, NextPlaced, NextSourced
  <1>3. (\A s \in Syncs : Repairs(s)') /\ (fresh => Covered)'
    <2>1. CASE NodeStep
      BY <2>1, NodeRepairs
    <2>2. CASE Start
      BY <1>1, <2>2, SyncRepairs, ToolRepairs, OtherRepairs DEF Start
    <2>3. ASSUME NEW j \in Jobs, Proceed(j)
          PROVE  (\A s \in Syncs : Repairs(s)') /\ (fresh => Covered)'
      BY <1>1, <2>3, WriteRepairs, SyncRepairs, ToolRepairs, OtherRepairs DEF Proceed
    <2>4. CASE UNCHANGED vars
      BY <1>1, <2>4, OtherRepairs
    <2> QED BY <2>1, <2>2, <2>3, <2>4 DEF Next
  <1> QED BY <1>2, <1>3 DEF IndInv

(* At first no sync has begun.                                             *)
LEMMA InitInv == Init => TypeOK /\ IndInv
PROOF
  <1>1. Init => (\A s \in Syncs : ~steady[s]) /\ ~fresh
    BY DEF Init
  <1> QED BY <1>1, InitType, InitPlaced, InitSourced DEF IndInv, Repairs
-----------------------------------------------------------------------------
(* What follows for readers of the graph. *)

(* Every variable has its type, and every job between two upserts of a     *)
(* list is one that runs.                                                  *)
THEOREM GraphTypeCorrect == Spec => []TypeOK
PROOF
  <1> QED BY InitInv, NextInv, PTL DEF Spec

(* Whatever interleaves and fails, what is in the graph or on its way has  *)
(* a source in Node, and a sync that nothing contradicted has repaired     *)
(* whatever it is past.                                                    *)
THEOREM GraphInvariant == Spec => []IndInv
PROOF
  <1> QED BY InitInv, NextInv, PTL DEF Spec

(* A sync that ran from end to end while Node's data stood still left in   *)
(* the graph what Node's lists say, and of memberships and properties      *)
(* nothing else (graph/sync.py:286-329).                                   *)
THEOREM SyncedIsExact == Spec => []FreshIsExact
PROOF
  <1>1. TypeOK /\ IndInv => FreshIsExact
    BY CoveredIsExact DEF IndInv, FreshIsExact
  <1> QED BY <1>1, GraphTypeCorrect, GraphInvariant, PTL

(* Only a tombstone takes a membership, and one by a list that is still    *)
(* Node's takes none that stands.                                          *)
LEMMA OverlapStep ==
  ASSUME TypeOK, IndInv, [Next]_vars, NEW u \in Users, NEW p \in Projects,
         Member(u, p) \in graph \ graph', u \in roster[p]
  PROVE  \E s \in Syncs : at[s] = "tombstones" /\ project[s] = p /\ ~steady[s]
PROOF
  <1> DEFINE f == Member(u, p)
  <1>0. f.rel = "MEMBER_OF" /\ f.from = u /\ f.to = p /\ graph' # graph
    BY DEF Member, Fact
  <1> HIDE DEF f
  <1>1. ASSUME NEW j \in Jobs, Write(j) PROVE FALSE
    <2>1. PICK writes \in IF todo[j] = <<>> THEN left[j] ELSE {todo[j]} :
            graph' = Put(graph, Head(writes))
      BY <1>1 DEF Write
    <2>2. Replaces(Head(writes), f)
      BY <2>1 DEF Put, f
    <2> QED BY <1>0, <2>2 DEF Replaces, Single
  <1>2. ASSUME NEW s \in Syncs, Tombstone(s)
        PROVE  at[s] = "tombstones" /\ project[s] = p /\ ~steady[s]
    <2>1. at[s] = "tombstones" /\ graph' = Buried(graph, project[s], keep[s])
      BY <1>2 DEF Tombstone
    <2>2. f \in Lapsed(graph, project[s], keep[s])
      BY <2>1 DEF Buried, f
    <2>3. project[s] = p /\ u \notin keep[s]
      BY <1>0, <2>2 DEF Lapsed
    <2>4. steady[s] => keep[s] = roster[project[s]]
      BY <2>1 DEF IndInv, Repairs, SyncStages
    <2> QED BY <2>1, <2>3, <2>4
  <1>3. ASSUME NEW s \in Syncs, StartSync(s) \/ SyncStep(s)
        PROVE  \E k \in Syncs : Tombstone(k)
    BY <1>0, <1>3 DEF StartSync, SyncStep, NextProject, ListMembers, ListSprints, ListIssues, EndSync
  <1>4. CASE NodeStep
    BY <1>0, <1>4, NodeSourced DEF IndInv
  <1>5. ASSUME NEW t \in Tools,
               \/ ToolStep(t)
               \/ \E i \in Issues : FindIssue(t, i) \/ PostIssue(t, i)
               \/ \E q \in Projects : Suggest(t, q) \/ \E x \in Texts : Search(t, q, x)
        PROVE  FALSE
    BY <1>0, <1>5, ToolSourced DEF IndInv
  <1>6. ASSUME \/ \E x \in Users \cup Projects \cup Sprints : Announce(x)
               \/ \E e \in Events : EventApplied(e)
               \/ \E j \in Jobs : Fail(j)
               \/ UNCHANGED vars
        PROVE  FALSE
    BY <1>0, <1>6, OtherSourced DEF IndInv
  <1>7. CASE Start
    BY <1>2, <1>3, <1>5, <1>6, <1>7 DEF Start
  <1>8. ASSUME NEW j \in Jobs, Proceed(j)
        PROVE  \E s \in Syncs : at[s] = "tombstones" /\ project[s] = p /\ ~steady[s]
    BY <1>1, <1>2, <1>3, <1>5, <1>6, <1>8 DEF Proceed
  <1> QED BY <1>2, <1>3, <1>4, <1>6, <1>7, <1>8 DEF Next

(* A member of a project is tombstoned only by a sync that overlaps with a *)
(* change (graph/sync.py:302).                                             *)
THEOREM OverlapBuries == Spec => OnlyOverlapBuries
PROOF
  <1>1. TypeOK /\ IndInv /\ [Next]_vars =>
          [\A u \in Users, p \in Projects :
             Member(u, p) \in graph \ graph' /\ u \in roster[p] =>
               \E s \in Syncs : at[s] = "tombstones" /\ project[s] = p /\ ~steady[s]]_vars
    BY OverlapStep
  <1> QED BY <1>1, GraphTypeCorrect, GraphInvariant, PTL DEF Spec, OnlyOverlapBuries

(* Of finitely many, somebody has a score that nobody exceeds: who has the *)
(* fewest above.                                                           *)
LEMMA SomebodyIsBest ==
  ASSUME NEW S, IsFiniteSet(S), S # {}, NEW score \in [S -> Int]
  PROVE  \E u \in S : \A v \in S : score[v] <= score[u]
PROOF
  <1> DEFINE above(u) == {v \in S : score[v] > score[u]}
             T == {above(u) : u \in S}
  <1>1. T \subseteq SUBSET S /\ T # {}
    <2>1. PICK u \in S : TRUE
      OBVIOUS
    <2>2. above(u) \in T
      OBVIOUS
    <2>3. \A x \in T : x \subseteq S
      OBVIOUS
    <2> QED BY <2>2, <2>3
  <1>2. IsWellFoundedOn(StrictSubsetOrdering(S), SUBSET S)
    BY FS_StrictSubsetOrderingWellFounded, FS_FiniteSubsetsOfFinite
  <1>3. \E x \in T : \A y \in T : ~ (<<y, x>> \in StrictSubsetOrdering(S))
    <2> HIDE DEF T
    <2> QED BY <1>1, <1>2, WFMin
  <1>4. PICK u \in S : \A v \in S : <<above(v), above(u)>> \notin StrictSubsetOrdering(S)
    BY <1>3
  <1>5. ASSUME NEW v \in S, score[v] > score[u] PROVE FALSE
    <2>1. above(v) \subseteq above(u) /\ v \in above(u) /\ v \notin above(v)
      BY <1>5
    <2>2. <<above(v), above(u)>> \in StrictSubsetOrdering(S)
      BY <2>1 DEF StrictSubsetOrdering
    <2> QED BY <1>4, <2>2
  <1>6. \A v \in S : score[v] <= score[u]
    BY <1>5
  <1> QED BY <1>6

(* Whoever is suggested from a graph that is fresh is a member in Node, and *)
(* somebody is whenever there is a member (graph/queries.py:79).           *)
THEOREM MembersSuggested == Spec => []SuggestsMembers
PROOF
  <1>1. ASSUME TypeOK, IndInv, fresh, NEW t \in Tools, at[t] = "loading"
        PROVE  /\ Best(t) \subseteq roster[project[t]]
               /\ Best(t) = {} => roster[project[t]] = {}
    <2> DEFINE q == project[t]
               Score(u) == past[t][u] - OpenLoad(u, q)
               score == [u \in Active(q) |-> Score(u)]
    <2>1. q \in Projects /\ past[t] \in [Users -> Nat]
      BY <1>1 DEF IndInv, Placed, Jobs
    <2>2. Active(q) = roster[q]
      <3>1. \A u \in Users : Member(u, q) \in graph => u \in roster[q]
        <4> SUFFICES ASSUME NEW u \in Users, Member(u, q) \in graph PROVE u \in roster[q]
          OBVIOUS
        <4>1. Member(u, q) \in Current
          BY <1>1 DEF IndInv, Covered, Member, Fact
        <4>2. Member(u, q).rel = "MEMBER_OF" /\ Member(u, q).from = u /\ Member(u, q).to = q
          BY DEF Member, Fact
        <4>3. \A f \in Current : f.rel = "MEMBER_OF" => f.from \in roster[f.to]
          BY <1>1, FactsOfShape DEF TypeOK, Current
        <4> QED BY <4>1, <4>2, <4>3
      <3>2. \A u \in roster[q] : u \in Users /\ Member(u, q) \in graph
        <4> SUFFICES ASSUME NEW u \in roster[q] PROVE u \in Users /\ Member(u, q) \in graph
          OBVIOUS
        <4>1. Member(u, q) \in ListsOf(roster, rows) /\ u \in Users
          BY <1>1, <2>1, ListsOfParts DEF TypeOK
        <4>2. Member(u, q) \notin UserNames
          BY DEF UserNames, Name, Member, Fact
        <4> QED BY <1>1, <4>1, <4>2 DEF IndInv, Covered
      <3> QED BY <3>1, <3>2 DEF Active
    <2>3. Best(t) = {u \in Active(q) : \A v \in Active(q) : Score(v) <= Score(u)}
      BY DEF Best
    <2>4. Active(q) \subseteq Users /\ IsFiniteSet(Active(q))
      BY GraphAssumption, FS_Subset DEF Active
    <2>5. \A u \in Active(q) : Score(u) \in Int
      <3> SUFFICES ASSUME NEW u \in Active(q) PROVE Score(u) \in Int
        OBVIOUS
      <3>1. OpenLoad(u, q) \in Nat
        <4>1. Assigned(u, q) \ Resolved(u, q) \subseteq Issues
          BY DEF Assigned
        <4> QED BY <4>1, CountsAreNat DEF OpenLoad
      <3> QED BY <2>1, <2>4, <3>1
    <2>6. Active(q) # {} => Best(t) # {}
      <3> SUFFICES ASSUME Active(q) # {} PROVE Best(t) # {}
        OBVIOUS
      <3>1. score \in [Active(q) -> Int]
        BY <2>5
      <3>2. \E u \in Active(q) : \A v \in Active(q) : score[v] <= score[u]
        <4> HIDE DEF score
        <4> QED BY <2>4, <3>1, SomebodyIsBest
      <3>3. \E u \in Active(q) : \A v \in Active(q) : Score(v) <= Score(u)
        BY <3>2
      <3> QED BY <2>3, <3>3
    <2> QED BY <2>2, <2>3, <2>6
  <1>2. TypeOK /\ IndInv => SuggestsMembers
    BY <1>1 DEF SuggestsMembers
  <1> QED BY <1>2, GraphTypeCorrect, GraphInvariant, PTL

=============================================================================
