-------------------------- MODULE TranscriptProofs --------------------------
(* Theorems about the transcripts of Conversation, for any number of       *)
(* overlapping requests and any bound on what is stored.                   *)
EXTENDS ConversationProofs

-----------------------------------------------------------------------------
(* Turns. *)

(* Places in a transcript are even or odd.                                 *)
LEMMA Parity ==
  /\ \A i, d \in Nat : d % 2 = 0 => (i + d) % 2 = i % 2
  /\ \A i, d, m \in Nat : d + i = m /\ m % 2 = 0 => (d % 2 = 0 <=> i % 2 = 0)
  /\ \A i, m \in Nat : i % 2 = 1 /\ m % 2 = 0 /\ i <= m => i + 1 <= m
  /\ \A m \in Nat : m % 2 = 0 => (m + 1) % 2 = 1 /\ (m + 2) % 2 = 0
OBVIOUS

(* The last lines of a transcript, by their places in it.                  *)
LEMMA LastOfLines ==
  ASSUME NEW s \in Seq(Lines), NEW n \in Nat
  PROVE  \E d \in Nat :
           /\ d + Len(LastOf(s, n)) = Len(s)
           /\ d = IF Len(s) <= n THEN 0 ELSE Len(s) - n
           /\ \A i \in 1..Len(LastOf(s, n)) :
                LastOf(s, n)[i] = s[i + d] /\ i + d \in 1..Len(s)
PROOF
  <1>1. Len(s) \in Nat
    BY LenProperties
  <1>2. CASE Len(s) <= n
    BY <1>1, <1>2 DEF LastOf
  <1>3. CASE ~(Len(s) <= n)
    <2> DEFINE d == Len(s) - n
               u == SubSeq(s, d + 1, Len(s))
    <2>1. d \in Nat /\ d + 1 \in 1..(Len(s) + 1) /\ LastOf(s, n) = u
      BY <1>1, <1>3 DEF LastOf
    <2>2. Len(u) = n /\ \A i \in 1..n : u[i] = s[d + i]
      BY <1>1, <2>1, SubSeqProperties
    <2>3. \A i \in 1..n : i + d = d + i /\ i + d \in 1..Len(s)
      BY <1>1, <2>1
    <2>4. d + Len(LastOf(s, n)) = Len(s)
      BY <1>1, <2>1, <2>2
    <2> HIDE DEF u
    <2> QED BY <1>3, <2>1, <2>2, <2>3, <2>4
  <1> QED BY <1>2, <1>3

(* Trimming by whole turns leaves whole turns.                             *)
LEMMA LastOfWhole ==
  ASSUME NEW s \in Seq(Lines), NEW n \in Nat, n % 2 = 0, WholeTurns(s)
  PROVE  WholeTurns(LastOf(s, n))
PROOF
  <1> DEFINE u == LastOf(s, n)
  <1>1. PICK d \in Nat : /\ d + Len(u) = Len(s)
                         /\ d = IF Len(s) <= n THEN 0 ELSE Len(s) - n
                         /\ \A i \in 1..Len(u) : u[i] = s[i + d] /\ i + d \in 1..Len(s)
    BY LastOfLines
  <1>2. Len(s) \in Nat /\ Len(u) \in Nat /\ Len(s) % 2 = 0
    BY LenProperties, LastOfType DEF WholeTurns
  <1> HIDE DEF u
  <1>3. d % 2 = 0 /\ Len(u) % 2 = 0
    <2>1. CASE d = 0
      <3>1. Len(u) = Len(s)
        BY <1>1, <1>2, <2>1
      <3> QED BY <1>2, <2>1, <3>1
    <2>2. CASE d + n = Len(s) /\ d # 0
      <3>1. d % 2 = 0
        BY <1>2, <2>2, Parity
      <3> QED BY <1>1, <1>2, <3>1, Parity
    <2>3. d = 0 \/ d + n = Len(s)
      BY <1>1, <1>2
    <2> QED BY <2>1, <2>2, <2>3
  <1>5. \A i \in 1..Len(u) :
          /\ (i + d) % 2 = i % 2
          /\ i % 2 = 1 => i + 1 \in 1..Len(u) /\ (i + 1) + d = (i + d) + 1
    <2> TAKE i \in 1..Len(u)
    <2>1. i \in Nat /\ i <= Len(u)
      BY <1>2
    <2>2. (i + d) % 2 = i % 2
      BY <1>3, <2>1, Parity
    <2>3. i % 2 = 1 => i + 1 <= Len(u)
      BY <1>2, <1>3, <2>1, Parity
    <2> QED BY <1>2, <2>1, <2>2, <2>3
  <1>6. \A i \in 1..Len(s) :
          IF i % 2 = 1 THEN s[i].role = "user" /\ s[i + 1] = [s[i] EXCEPT !.role = "ai"]
                       ELSE s[i].role = "ai"
    BY DEF WholeTurns
  <1>7. ASSUME NEW i \in 1..Len(u)
        PROVE  IF i % 2 = 1 THEN u[i].role = "user" /\ u[i + 1] = [u[i] EXCEPT !.role = "ai"]
                            ELSE u[i].role = "ai"
    <2>1. u[i] = s[i + d] /\ i + d \in 1..Len(s) /\ (i + d) % 2 = i % 2
      BY <1>1, <1>5
    <2>2. CASE i % 2 = 1
      <3>1. u[i + 1] = s[(i + d) + 1]
        <4>1. i + 1 \in 1..Len(u) /\ (i + 1) + d = (i + d) + 1
          BY <1>5, <2>2
        <4>2. u[i + 1] = s[(i + 1) + d]
          BY <1>1, <4>1
        <4> QED BY <4>1, <4>2
      <3>2. s[i + d].role = "user" /\ s[(i + d) + 1] = [s[i + d] EXCEPT !.role = "ai"]
        BY <1>6, <2>1, <2>2
      <3> QED BY <2>1, <2>2, <3>1, <3>2
    <2>3. CASE i % 2 # 1
      BY <1>6, <2>1, <2>3
    <2> QED BY <2>2, <2>3
  <1> QED BY <1>3, <1>7 DEF WholeTurns, u

(* A reply adds a whole turn.                                              *)
LEMMA TurnLines ==
  ASSUME NEW s \in Seq(Lines), NEW r \in Requests
  PROVE  /\ s \o Turn(r) \in Seq(Lines) /\ Len(s \o Turn(r)) = Len(s) + 2 /\ Len(s) \in Nat
         /\ \A i \in 1..Len(s) : (s \o Turn(r))[i] = s[i]
         /\ (s \o Turn(r))[Len(s) + 1] = [of |-> r, role |-> "user"]
         /\ (s \o Turn(r))[Len(s) + 2] = [of |-> r, role |-> "ai"]
PROOF
  <1>1. Turn(r) \in Seq(Lines) /\ Len(Turn(r)) = 2
        /\ Turn(r)[1] = [of |-> r, role |-> "user"] /\ Turn(r)[2] = [of |-> r, role |-> "ai"]
    BY DEF Turn, Lines
  <1>2. s \o Turn(r) \in Seq(Lines) /\ Len(s) \in Nat
        /\ Len(s \o Turn(r)) = Len(s) + Len(Turn(r))
        /\ \A i \in 1..Len(s) + Len(Turn(r)) :
             (s \o Turn(r))[i] = IF i <= Len(s) THEN s[i] ELSE Turn(r)[i - Len(s)]
    BY <1>1, ConcatProperties, LenProperties
  <1> DEFINE m == Len(s)
  <1> HIDE DEF m
  <1>3. m \in Nat /\ (m + 1) - m = 1 /\ (m + 2) - m = 2 /\ m + 1 \in 1..(m + 2)
        /\ m + 2 \in 1..(m + 2) /\ ~(m + 1 <= m) /\ ~(m + 2 <= m)
        /\ 1..m \subseteq 1..(m + 2) /\ \A i \in 1..m : i <= m
    BY <1>2 DEF m
  <1> QED BY <1>1, <1>2, <1>3 DEF m

(* As above.                                                               *)
LEMMA AppendWhole ==
  ASSUME NEW s \in Seq(Lines), NEW r \in Requests, WholeTurns(s)
  PROVE  WholeTurns(s \o Turn(r))
PROOF
  <1> DEFINE u == s \o Turn(r)
             m == Len(s)
  <1>1. /\ Len(u) = m + 2 /\ m \in Nat /\ m % 2 = 0
        /\ \A i \in 1..m : u[i] = s[i]
        /\ u[m + 1] = [of |-> r, role |-> "user"] /\ u[m + 2] = [of |-> r, role |-> "ai"]
    BY TurnLines DEF WholeTurns
  <1>2. Len(u) % 2 = 0 /\ (m + 1) % 2 = 1
    BY <1>1, Parity
  <1>3. \A i \in 1..m :
          IF i % 2 = 1 THEN s[i].role = "user" /\ s[i + 1] = [s[i] EXCEPT !.role = "ai"]
                       ELSE s[i].role = "ai"
    BY DEF WholeTurns
  <1> HIDE DEF u, m
  <1>4. ASSUME NEW i \in 1..(m + 2)
        PROVE  IF i % 2 = 1 THEN u[i].role = "user" /\ u[i + 1] = [u[i] EXCEPT !.role = "ai"]
                            ELSE u[i].role = "ai"
    <2>1. i \in 1..m \/ i = m + 1 \/ i = m + 2
      BY <1>1
    <2>2. CASE i \in 1..m
      <3>1. i % 2 = 1 => i + 1 \in 1..m
        BY <1>1, <2>2
      <3> QED BY <1>1, <1>3, <2>2, <3>1
    <2>3. CASE i = m + 1
      <3>1. i % 2 = 1 /\ i + 1 = m + 2
        BY <1>1, <1>2, <2>3
      <3>2. u[i].role = "user" /\ u[i + 1] = [u[i] EXCEPT !.role = "ai"]
        <4>1. [[of |-> r, role |-> "user"] EXCEPT !.role = "ai"] = [of |-> r, role |-> "ai"]
          OBVIOUS
        <4>2. u[i] = [of |-> r, role |-> "user"] /\ u[i + 1] = [of |-> r, role |-> "ai"]
          BY <1>1, <2>3, <3>1
        <4> QED BY <4>1, <4>2
      <3> QED BY <3>1, <3>2
    <2>4. CASE i = m + 2
      <3>1. i % 2 = 0
        BY <1>1, <2>4, Parity
      <3> QED BY <1>1, <2>4, <3>1
    <2> QED BY <2>1, <2>2, <2>3, <2>4
  <1> QED BY <1>1, <1>2, <1>4 DEF WholeTurns, u
(* What a reply leaves of a transcript: its last lines, and the new turn.  *)
LEMMA AppendedLines ==
  ASSUME NEW s \in Seq(Lines), NEW r \in Requests, NEW u, u = LastOf(s \o Turn(r), MaxStored)
  PROVE  /\ u \in Seq(Lines) /\ Len(u) \in Nat /\ Len(s) \in Nat /\ Len(u) >= 2
         /\ u[Len(u) - 1] = [of |-> r, role |-> "user"]
         /\ u[Len(u)] = [of |-> r, role |-> "ai"]
         /\ \E d \in Nat :
              /\ d + Len(u) = Len(s) + 2
              /\ \A i \in 1..(Len(u) - 2) : u[i] = s[i + d] /\ i + d \in 1..Len(s)
PROOF
  <1> DEFINE v == s \o Turn(r)
             m == Len(s)
             n == Len(u)
  <1>1. /\ v \in Seq(Lines) /\ Len(v) = m + 2 /\ m \in Nat
        /\ \A i \in 1..m : v[i] = s[i]
        /\ v[m + 1] = [of |-> r, role |-> "user"] /\ v[m + 2] = [of |-> r, role |-> "ai"]
    BY TurnLines
  <1>2. MaxStored \in Nat /\ MaxStored >= 2
    BY ConversationAssumption
  <1>3. u = LastOf(v, MaxStored)
    OBVIOUS
  <1> HIDE DEF v
  <1>4. PICK d \in Nat : /\ d + n = Len(v)
                         /\ d = IF Len(v) <= MaxStored THEN 0 ELSE Len(v) - MaxStored
                         /\ \A i \in 1..n : u[i] = v[i + d] /\ i + d \in 1..Len(v)
    <2>1. \E d \in Nat :
            /\ d + Len(LastOf(v, MaxStored)) = Len(v)
            /\ d = IF Len(v) <= MaxStored THEN 0 ELSE Len(v) - MaxStored
            /\ \A i \in 1..Len(LastOf(v, MaxStored)) :
                 LastOf(v, MaxStored)[i] = v[i + d] /\ i + d \in 1..Len(v)
      BY <1>1, <1>2, LastOfLines
    <2>2. LastOf(v, MaxStored) = u
      BY <1>3
    <2> QED BY <2>1, <2>2
  <1>5. u \in Seq(Lines) /\ n \in Nat
    BY <1>1, <1>2, <1>3, LastOfType, LenProperties
  <1> HIDE DEF m, n
  <1>6. n >= 2 /\ d + n = m + 2
    BY <1>1, <1>2, <1>4, <1>5
  <1>7. /\ n - 1 \in 1..n /\ n \in 1..n /\ (n - 1) + d = m + 1 /\ n + d = m + 2
        /\ \A i \in 1..(n - 2) : i \in 1..n /\ i + d \in 1..m
    <2>1. m \in Nat /\ n \in Nat /\ n >= 2 /\ d + n = m + 2
      BY <1>1, <1>5, <1>6
    <2>2. /\ n - 1 \in 1..n /\ n \in 1..n /\ (n - 1) + d = m + 1 /\ n + d = m + 2
      BY <2>1
    <2>3. ASSUME NEW i \in 1..(n - 2) PROVE i \in 1..n /\ i + d \in 1..m
      BY <2>1
    <2> QED BY <2>2, <2>3
  <1>8. u[n - 1] = v[m + 1] /\ u[n] = v[m + 2]
    <2>1. u[n - 1] = v[(n - 1) + d] /\ u[n] = v[n + d]
      BY <1>4, <1>7
    <2> QED BY <1>7, <2>1
  <1>9. \A i \in 1..(n - 2) : u[i] = s[i + d] /\ i + d \in 1..m
    <2> TAKE i \in 1..(n - 2)
    <2>1. u[i] = v[i + d] /\ i + d \in 1..m
      BY <1>4, <1>7
    <2> QED BY <1>1, <2>1
  <1> QED BY <1>1, <1>5, <1>6, <1>8, <1>9 DEF m, n

-----------------------------------------------------------------------------
(* Steps. *)

(* A step that appends nothing and prompts nobody.                         *)
LEMMA QuietTranscript ==
  ASSUME TypeOK, TranscriptInv, UNCHANGED <<log, shown>>,
         \A t \in Threads : pending'[t] \in {pending[t], None},
         \A p \in Requests : pc[p] \in Statuses => pc'[p] = pc[p]
  PROVE  TranscriptInv'
PROOF
  <1>1. \A t \in Threads : \A i \in 1..Len(log[t]) : log[t][i].of \in Requests
    <2> TAKE t \in Threads
    <2>1. log[t] \in Seq(Lines)
      BY DEF TypeOK
    <2>2. \A i \in 1..Len(log[t]) : log[t][i] \in Lines
      BY <2>1, ElementOfSeq
    <2> QED BY <2>2 DEF Lines
  <1>2. \A t \in Threads : Prompts(t)' = Prompts(t)
    BY DEF Prompts
  <1>3. PendingIsLatestPrompt'
    BY <1>2 DEF TranscriptInv, PendingIsLatestPrompt
  <1>4. \A t \in Threads : WholeTurns(log[t])'
    BY DEF TranscriptInv, WholeTurns
  <1>5. \A t \in Threads : \A i \in 1..Len(log'[t]) : pc'[log'[t][i].of] \in Statuses
    BY <1>1 DEF TranscriptInv
  <1>6. \A r \in Requests : shown'[r] # None => pc'[r] \in Statuses
    BY DEF TranscriptInv
  <1> QED BY <1>3, <1>4, <1>5, <1>6 DEF TranscriptInv

(* What any reply leaves: whole turns of answered requests.                *)
LEMMA ReplyTranscript ==
  ASSUME TypeOK, TranscriptInv, NEW r \in Requests, NEW t \in Threads, NEW st \in Statuses,
         pc[r] \notin Statuses, pc' = [pc EXCEPT ![r] = st], log' = Appended(t, Turn(r)),
         \A p \in Requests \ {r} : shown'[p] = shown[p]
  PROVE  /\ \A w \in Threads : /\ WholeTurns(log[w])'
                               /\ \A i \in 1..Len(log'[w]) : pc'[log'[w][i].of] \in Statuses
         /\ \A p \in Requests : shown'[p] # None => pc'[p] \in Statuses
         /\ log'[t] = LastOf(log[t] \o Turn(r), MaxStored) /\ log[t] \in Seq(Lines)
         /\ \A w \in Threads \ {t} : log'[w] = log[w]
         /\ \A w \in Threads : \A i \in 1..Len(log[w]) :
              log[w][i].of \in Requests \ {r}
PROOF
  <1>1. \A w \in Threads : \A i \in 1..Len(log[w]) : log[w][i].of \in Requests \ {r}
    <2> TAKE w \in Threads
    <2>1. log[w] \in Seq(Lines)
      BY DEF TypeOK
    <2>2. \A i \in 1..Len(log[w]) : log[w][i] \in Lines
      BY <2>1, ElementOfSeq
    <2>3. \A i \in 1..Len(log[w]) : log[w][i].of \in Requests
      BY <2>2 DEF Lines
    <2> QED BY <2>3 DEF TranscriptInv
  <1>2. /\ log'[t] = LastOf(log[t] \o Turn(r), MaxStored) /\ log[t] \in Seq(Lines)
        /\ \A w \in Threads \ {t} : log'[w] = log[w]
    BY DEF Appended, TypeOK
  <1>3. pc'[r] = st /\ \A p \in Requests \ {r} : pc'[p] = pc[p]
    BY DEF TypeOK
  <1>4. ASSUME NEW w \in Threads
        PROVE  WholeTurns(log'[w]) /\ \A i \in 1..Len(log'[w]) : pc'[log'[w][i].of] \in Statuses
    <2>1. CASE w # t
      BY <1>1, <1>2, <1>3, <2>1 DEF TranscriptInv
    <2>2. CASE w = t
      <3> DEFINE u == log'[t]
      <3>1. WholeTurns(log[t] \o Turn(r)) /\ log[t] \o Turn(r) \in Seq(Lines)
        BY <1>2, AppendWhole, TurnLines DEF TranscriptInv
      <3>2. WholeTurns(u)
        BY <1>2, <3>1, LastOfWhole, ConversationAssumption
      <3>3. /\ Len(u) \in Nat /\ Len(u) >= 2 /\ u[Len(u) - 1].of = r /\ u[Len(u)].of = r
            /\ \A i \in 1..(Len(u) - 2) : \E k \in 1..Len(log[t]) : u[i] = log[t][k]
        <4>1. /\ Len(u) \in Nat /\ Len(u) >= 2
              /\ u[Len(u) - 1] = [of |-> r, role |-> "user"]
              /\ u[Len(u)] = [of |-> r, role |-> "ai"]
              /\ \E d \in Nat : \A i \in 1..(Len(u) - 2) :
                   u[i] = log[t][i + d] /\ i + d \in 1..Len(log[t])
          BY <1>2, AppendedLines
        <4>2. [of |-> r, role |-> "user"].of = r /\ [of |-> r, role |-> "ai"].of = r
          OBVIOUS
        <4> QED BY <4>1, <4>2
      <3>4. ASSUME NEW i \in 1..Len(u) PROVE pc'[u[i].of] \in Statuses
        <4>1. i \in 1..(Len(u) - 2) \/ i = Len(u) - 1 \/ i = Len(u)
          BY <3>3
        <4>2. CASE i \in 1..(Len(u) - 2)
          BY <1>1, <1>3, <3>3, <4>2 DEF TranscriptInv
        <4>3. CASE i = Len(u) - 1 \/ i = Len(u)
          BY <1>3, <3>3, <4>3
        <4> QED BY <4>1, <4>2, <4>3
      <3> QED BY <2>2, <3>2, <3>4
    <2> QED BY <2>1, <2>2
  <1>5. \A p \in Requests : shown'[p] # None => pc'[p] \in Statuses
    BY <1>3 DEF TranscriptInv
  <1>6. \A w \in Threads : WholeTurns(log[w])'
    BY <1>4 DEF WholeTurns
  <1> QED BY <1>1, <1>2, <1>4, <1>5, <1>6
(* A reply that prompts nobody leaves the latest prompt, if it stands.     *)
LEMMA PlainReply ==
  ASSUME TypeOK, TranscriptInv, NEW r \in Requests, NEW t \in Threads, NEW st \in Statuses,
         pc[r] \notin Statuses, pc' = [pc EXCEPT ![r] = st], log' = Appended(t, Turn(r)),
         UNCHANGED shown, \A w \in Threads : pending'[w] \in {pending[w], None}
  PROVE  TranscriptInv'
PROOF
  <1>1. /\ \A w \in Threads : /\ WholeTurns(log[w])'
                              /\ \A i \in 1..Len(log'[w]) : pc'[log'[w][i].of] \in Statuses
        /\ \A p \in Requests : shown'[p] # None => pc'[p] \in Statuses
        /\ log'[t] = LastOf(log[t] \o Turn(r), MaxStored) /\ log[t] \in Seq(Lines)
        /\ \A w \in Threads \ {t} : log'[w] = log[w]
    BY ReplyTranscript
  <1>2. shown[r] = None
    BY DEF TranscriptInv
  <1>3. ASSUME NEW w \in Threads, pending'[w] # None, NEW i \in Prompts(w)',
               \A j \in Prompts(w)' : j <= i
        PROVE  log'[w][i].of = pending'[w].by
    <2>1. CASE w # t
      <3>1. Prompts(w)' = Prompts(w) /\ log'[w] = log[w] /\ pending'[w] = pending[w]
        BY <1>1, <1>3, <2>1 DEF Prompts
      <3> QED BY <1>3, <3>1 DEF TranscriptInv, PendingIsLatestPrompt
    <2>2. CASE w = t
      <3> DEFINE u == log'[t]
                 s == log[t]
      <3>1. PICK d \in Nat : /\ d + Len(u) = Len(s) + 2
                             /\ \A k \in 1..(Len(u) - 2) : u[k] = s[k + d] /\ k + d \in 1..Len(s)
        BY <1>1, AppendedLines
      <3>2. /\ Len(u) \in Nat /\ Len(s) \in Nat /\ Len(u) >= 2
            /\ u[Len(u) - 1] = [of |-> r, role |-> "user"] /\ u[Len(u)] = [of |-> r, role |-> "ai"]
        BY <1>1, AppendedLines
      <3>3. i \in 1..Len(u) /\ u[i].role = "ai" /\ shown[u[i].of] # None
        BY <1>3, <2>2 DEF Prompts
      <3>4. i # Len(u) - 1 /\ i # Len(u)
        <4>1. [of |-> r, role |-> "user"].of = r /\ [of |-> r, role |-> "ai"].of = r
          OBVIOUS
        <4> QED BY <1>2, <3>2, <3>3, <4>1
      <3>5. i \in 1..(Len(u) - 2)
        BY <3>2, <3>3, <3>4
      <3>6. i + d \in Prompts(t)
        BY <3>1, <3>3, <3>5 DEF Prompts
      <3>7. ASSUME NEW j \in Prompts(t) PROVE j <= i + d
        <4> SUFFICES ASSUME ~(j <= i + d) PROVE FALSE
          OBVIOUS
        <4>1. j \in 1..Len(s) /\ s[j].role = "ai" /\ shown[s[j].of] # None
          BY DEF Prompts
        <4>2. j - d \in 1..(Len(u) - 2) /\ (j - d) + d = j /\ ~(j - d <= i)
          BY <3>1, <3>2, <3>5, <4>1
        <4>3. u[j - d] = s[j]
          <5>1. u[j - d] = s[(j - d) + d]
            BY <3>1, <4>2
          <5> QED BY <4>2, <5>1
        <4>4. j - d \in 1..Len(u)
          BY <3>2, <4>2
        <4>5. j - d \in Prompts(t)'
          BY <4>1, <4>3, <4>4 DEF Prompts
        <4> QED BY <1>3, <2>2, <4>2, <4>5
      <3>8. pending'[t] = pending[t] /\ pending[t] # None
        BY <1>3, <2>2
      <3>9. s[i + d].of = pending[t].by
        BY <3>6, <3>7, <3>8 DEF TranscriptInv, PendingIsLatestPrompt
      <3>10. u[i] = s[i + d]
        BY <3>1, <3>5
      <3> QED BY <2>2, <3>8, <3>9, <3>10
    <2> QED BY <2>1, <2>2
  <1>4. PendingIsLatestPrompt'
    BY <1>3 DEF PendingIsLatestPrompt
  <1> QED BY <1>1, <1>4 DEF TranscriptInv

(* A prompt becomes the latest one of its thread, and the one that stands. *)
LEMMA PromptReply ==
  ASSUME TypeOK, TranscriptInv, NEW r \in Requests, NEW t \in Threads, NEW st \in Statuses,
         NEW k, NEW moment, moment # None,
         pc[r] \notin Statuses, pc' = [pc EXCEPT ![r] = st], log' = Appended(t, Turn(r)),
         shown' = [shown EXCEPT ![r] = moment], SetPending(t, r, k)
  PROVE  TranscriptInv'
PROOF
  <1>0. shown'[r] = moment /\ \A p \in Requests \ {r} : shown'[p] = shown[p]
    BY DEF TypeOK
  <1>1. /\ \A w \in Threads : /\ WholeTurns(log[w])'
                              /\ \A i \in 1..Len(log'[w]) : pc'[log'[w][i].of] \in Statuses
        /\ \A p \in Requests : shown'[p] # None => pc'[p] \in Statuses
        /\ log'[t] = LastOf(log[t] \o Turn(r), MaxStored) /\ log[t] \in Seq(Lines)
        /\ \A w \in Threads \ {t} : log'[w] = log[w]
        /\ \A w \in Threads : \A i \in 1..Len(log[w]) : log[w][i].of \in Requests \ {r}
    BY <1>0, ReplyTranscript
  <1>2. /\ pending'[t].by = r
        /\ \A w \in Threads \ {t} : pending'[w] = pending[w]
    BY DEF SetPending, TypeOK
  <1>3. ASSUME NEW w \in Threads, pending'[w] # None, NEW i \in Prompts(w)',
               \A j \in Prompts(w)' : j <= i
        PROVE  log'[w][i].of = pending'[w].by
    <2>1. CASE w # t
      <3>1. log'[w] = log[w] /\ pending'[w] = pending[w]
        BY <1>1, <1>2, <2>1
      <3>2. \A j \in 1..Len(log[w]) : shown'[log[w][j].of] = shown[log[w][j].of]
        BY <1>0, <1>1
      <3>3. Prompts(w)' = Prompts(w)
        BY <3>1, <3>2 DEF Prompts
      <3> QED BY <1>3, <3>1, <3>3 DEF TranscriptInv, PendingIsLatestPrompt
    <2>2. CASE w = t
      <3> DEFINE u == log'[t]
      <3>0. u = LastOf(log[t] \o Turn(r), MaxStored) /\ log[t] \in Seq(Lines)
        BY <1>1
      <3> HIDE DEF u
      <3>1. Len(u) \in Nat /\ Len(u) >= 2 /\ u[Len(u)] = [of |-> r, role |-> "ai"]
        BY <3>0, AppendedLines
      <3>2. [of |-> r, role |-> "ai"].of = r /\ [of |-> r, role |-> "ai"].role = "ai"
        OBVIOUS
      <3>3. Len(u) \in Prompts(t)'
        BY <1>0, <3>1, <3>2 DEF Prompts, u
      <3>4. i \in 1..Len(u) /\ Len(u) <= i
        BY <1>3, <2>2, <3>3 DEF Prompts, u
      <3>5. i = Len(u)
        BY <3>1, <3>4
      <3> QED BY <1>2, <2>2, <3>1, <3>2, <3>5 DEF u
    <2> QED BY <2>1, <2>2
  <1>4. PendingIsLatestPrompt'
    BY <1>3 DEF PendingIsLatestPrompt
  <1> QED BY <1>1, <1>4 DEF TranscriptInv

(* Arrivals.                                                               *)
LEMMA ArriveTranscript ==
  ASSUME TypeOK, TranscriptInv, NEW r \in Requests, Arrive(r)
  PROVE  TranscriptInv'
PROOF
  <1> PICK t \in Threads, y \in Replies :
        \/ RejectOverQuota(r, t, y) \/ StartFresh(r, t, y)
        \/ DeclineQuestion(r, t, y) \/ AnswerQuestion(r, t, y)
        \/ Confirm(r, t, y) \/ CancelProposal(r, t, y) \/ DropProposal(r, t, y)
    BY DEF Arrive
  <1>1. pc[r] = "new" /\ UNCHANGED shown /\ "new" \notin Statuses
    BY DEF RejectOverQuota, StartFresh, DeclineQuestion, AnswerQuestion, Confirm,
           CancelProposal, DropProposal, Admitted, Receive, Statuses
  <1>2. \A w \in Threads : pending'[w] \in {pending[w], None}
    BY DEF RejectOverQuota, StartFresh, DeclineQuestion, AnswerQuestion, Confirm,
           CancelProposal, DropProposal, Dropped, storeVars, TypeOK
  <1>3. CASE DeclineQuestion(r, t, y) \/ CancelProposal(r, t, y)
    <2>1. pc' = [pc EXCEPT ![r] = "cancelled"] /\ log' = Appended(t, Turn(r))
          /\ "cancelled" \in Statuses
      BY <1>3 DEF DeclineQuestion, CancelProposal, Reply, Goto, Statuses
    <2> QED BY <1>1, <1>2, <2>1, PlainReply
  <1>4. CASE ~(DeclineQuestion(r, t, y) \/ CancelProposal(r, t, y))
    <2>1. UNCHANGED log /\ \E s : pc' = [pc EXCEPT ![r] = s]
      BY <1>4 DEF RejectOverQuota, StartFresh, AnswerQuestion, Confirm, DropProposal, Goto, storeVars
    <2>2. \A p \in Requests : pc[p] \in Statuses => pc'[p] = pc[p]
      BY <1>1, <2>1 DEF TypeOK
    <2> QED BY <1>1, <1>2, <2>1, <2>2, QuietTranscript
  <1> QED BY <1>3, <1>4

(* Replies and the steps between them.                                     *)
LEMMA ProceedTranscript ==
  ASSUME IndInv, TranscriptInv, NEW r \in Requests, Proceed(r)
  PROVE  TranscriptInv'
PROOF
  <1>0. TypeOK /\ pc[r] \in Waiting /\ pc[r] \notin Statuses
    BY DEF IndInv, Proceed, Resume, FollowupResolved, PreRouted, ClassifyFailed, NeedsInput,
           Classified, ValidationFailed, Validated, Propose, Ask, AnswerRead, GiveUp, SendWrite,
           WriteAnswered, WriteTimedOut, Waiting, LLMStates, Statuses
  <1>1. Thread(r) \in Threads
    BY <1>0 DEF IndInv, Arrived, TypeOK, Waiting, LLMStates, Thread, Messages
  <1>2. CASE Propose(r) \/ Ask(r)
    <2>1. PICK k \in {"proposal", "clarification"}, st \in Statuses : Prompt(r, k, st)
      BY <1>2 DEF Propose, Ask, Statuses
    <2>2. [at |-> now, boot |-> boots] # None
      BY <1>0, NoneAssumption DEF TypeOK, Moments
    <2> QED BY <1>0, <1>1, <2>1, <2>2, PromptReply DEF Prompt, Reply, Goto
  <1>3. CASE \/ ClassifyFailed(r) \/ NeedsInput(r) \/ ValidationFailed(r) \/ AnswerRead(r)
             \/ GiveUp(r) \/ WriteAnswered(r) \/ WriteTimedOut(r)
    <2>1. PICK st \in Statuses : Reply(r, Thread(r), st)
      BY <1>3 DEF ClassifyFailed, NeedsInput, ValidationFailed, AnswerRead, GiveUp, WriteAnswered,
                  WriteTimedOut, Tell, Statuses
    <2>2. UNCHANGED <<shown, pending>>
      BY <1>3 DEF ClassifyFailed, NeedsInput, ValidationFailed, AnswerRead, GiveUp, WriteAnswered,
                  WriteTimedOut, Tell
    <2> QED BY <1>0, <1>1, <2>1, <2>2, PlainReply DEF Reply, Goto
  <1>4. CASE FollowupResolved(r) \/ PreRouted(r) \/ Classified(r) \/ Validated(r) \/ SendWrite(r)
    <2>1. UNCHANGED <<shown, pending, log>> /\ \E s : pc' = [pc EXCEPT ![r] = s]
      BY <1>4 DEF FollowupResolved, PreRouted, Classified, Validated, SendWrite, storeVars, Goto
    <2>2. \A p \in Requests : pc[p] \in Statuses => pc'[p] = pc[p]
      BY <1>0, <2>1 DEF TypeOK
    <2> QED BY <1>0, <2>1, <2>2, QuietTranscript
  <1> QED BY <1>2, <1>3, <1>4 DEF Proceed

(* Every step keeps what is known of the transcripts.                      *)
LEMMA NextTranscript == IndInv /\ TranscriptInv /\ [Next]_vars => TranscriptInv'
PROOF
  <1> SUFFICES ASSUME IndInv, TranscriptInv, [Next]_vars PROVE TranscriptInv'
    OBVIOUS
  <1>0. TypeOK
    BY DEF IndInv
  <1>1. ASSUME NEW r \in Requests, Arrive(r) PROVE TranscriptInv'
    BY <1>0, <1>1, ArriveTranscript
  <1>2. ASSUME NEW r \in Requests, Proceed(r) PROVE TranscriptInv'
    BY <1>2, ProceedTranscript
  <1>3. ASSUME NEW r \in Requests, ToolCall(r) \/ OnLlmEnd(r) \/ NodeApply(r) \/ NodeReject(r)
        PROVE  TranscriptInv'
    <2>1. UNCHANGED <<log, shown, pending, pc>>
      BY <1>3 DEF ToolCall, OnLlmEnd, NodeApply, NodeReject, turnVars, storeVars
    <2> QED BY <1>0, <2>1, QuietTranscript
  <1>4. CASE Tick \/ UNCHANGED vars
    <2>1. UNCHANGED <<log, shown, pending, pc>>
      BY <1>4 DEF Tick, vars, turnVars, storeVars
    <2> QED BY <1>0, <2>1, QuietTranscript
  <1>5. CASE Restart
    <2>1. /\ pending' = [t \in Threads |-> None] /\ log' = [t \in Threads |-> <<>>]
          /\ UNCHANGED shown
          /\ pc' = [r \in Requests |-> IF pc[r] \in Waiting THEN "lost" ELSE pc[r]]
      BY <1>5 DEF Restart
    <2>2. \A r \in Requests : pc[r] \in Statuses => pc'[r] = pc[r]
      BY <2>1 DEF Waiting, LLMStates, Statuses
    <2>3. \A t \in Threads : WholeTurns(log[t])'
      BY <2>1 DEF WholeTurns
    <2>4. PendingIsLatestPrompt'
      BY <2>1 DEF PendingIsLatestPrompt
    <2>5. \A r \in Requests : shown'[r] # None => pc'[r] \in Statuses
      BY <2>1, <2>2 DEF TranscriptInv
    <2>6. \A t \in Threads : \A i \in 1..Len(log'[t]) : pc'[log'[t][i].of] \in Statuses
      BY <2>1
    <2> QED BY <2>3, <2>4, <2>5, <2>6 DEF TranscriptInv
  <1> QED BY <1>1, <1>2, <1>3, <1>4, <1>5 DEF Next

-----------------------------------------------------------------------------
(* Theorems. *)

(* The stored transcripts are whole turns of answered requests, and the    *)
(* prompt that stands is the latest of its thread.                         *)
THEOREM TranscriptsInvariant == Spec => []TranscriptInv
PROOF
  <1>1. Init => TranscriptInv
    BY DEF Init, TranscriptInv, WholeTurns, PendingIsLatestPrompt
  <1> QED BY <1>1, NextTranscript, GateInvariant, PTL DEF Spec

(* What a thread's next reply is taken to answer is the last question or   *)
(* preview its transcript shows (supervisor.py:989).                       *)
THEOREM LatestPromptIsPending == Spec => []PendingIsLatestPrompt
PROOF
  <1>1. TranscriptInv => PendingIsLatestPrompt
    BY DEF TranscriptInv
  <1> QED BY <1>1, TranscriptsInvariant, PTL

(* An agent is handed whole turns, whatever overlapped and was trimmed     *)
(* (store.py:36).                                                          *)
THEOREM WindowsAreWholeTurns == Spec => []HistoryInWholeTurns
PROOF
  <1>1. TypeOK /\ TranscriptInv => HistoryInWholeTurns
    <2> SUFFICES ASSUME TypeOK, TranscriptInv, NEW t \in Threads PROVE WholeTurns(History(t))
      BY DEF HistoryInWholeTurns
    <2>1. log[t] \in Seq(Lines) /\ WholeTurns(log[t])
      BY DEF TypeOK, TranscriptInv
    <2>2. 2 * MaxTurns \in Nat /\ (2 * MaxTurns) % 2 = 0
      BY ConversationAssumption
    <2> QED BY <2>1, <2>2, LastOfWhole DEF History
  <1> QED BY <1>1, TranscriptsInvariant, TypeCorrect, PTL

=============================================================================
