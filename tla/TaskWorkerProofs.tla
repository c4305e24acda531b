-------------------------- MODULE TaskWorkerProofs --------------------------
(***************************************************************************)
(* Theorems about TaskWorker for any workers, web threads, notices and     *)
(* users, any queue, retries, restarts and deaths.                         *)
(***************************************************************************)
EXTENDS TaskWorker, FiniteSetTheorems, TLAPS

-----------------------------------------------------------------------------
(* The invariant *)

JobType == [at : {"idle", "telegram", "broadcast", "over"}, note : Notes \cup {None},
            attempt : 0..MaxRetries, plain : BOOLEAN, left : SUBSET Recipients, count : Nat]

WorkerType == [at : {"top", "broken", "exited"}, done : 0..MaxTasks, stop : BOOLEAN]

Typed ==
  /\ queue \in Seq(Notes)
  /\ held \subseteq Notes
  /\ disk \subseteq Kinds
  /\ loaded \in [Workers -> SUBSET Kinds]
  /\ worker \in [Workers -> WorkerType]
  /\ job \in [Threads -> JobType]
  /\ asked \subseteq Notes
  /\ copies \in [Notes -> [Recipients -> Nat]]
  /\ repeats \in [Notes -> Nat]
  /\ unrun \subseteq Notes /\ IsFiniteSet(unrun)
  /\ faults \in Nat

\* There is a copy, or a cause why there is none.
Explained(n, r) == copies[n][r] > 0 \/ <<n, r>> \in refused \/ n \in unrun \cup discarded \cup cut
Settled(n) == \A r \in To(n) : Explained(n, r)

\* Who of the users a broadcast has come to has got it.
Served(j) == {u \in Users \ j.left : copies[j.note][u] > 0}

JobHolds(j) ==
  /\ j.at # "broadcast" => j.count = 0
  /\ j.at \in {"idle", "over"} => j.left = {}
  /\ j.at = "telegram"  => j.note \in Posts /\ j.left = {Chat}
  /\ j.at = "broadcast" => /\ j.note \in Broadcasts /\ j.left \subseteq Users
                           /\ j.count <= Cardinality(Served(j))
                           /\ \A u \in Users \ j.left : Explained(j.note, u)
  /\ j.at = "over" => j.note \in Notes /\ Settled(j.note)

JobsHold == \A t \in Threads : JobHolds(job[t])

\* A notice that was asked for is with the queue, or with a web thread that runs it
\* itself, or settled.
OnTheWeb(n) == \E t \in Web : job[t].at # "idle" /\ job[t].note = n
Waiting(n)  == n \in Range(queue) \cup held
Traced == \A n \in asked : Waiting(n) \/ OnTheWeb(n) \/ Settled(n)

\* A worker that is about to acknowledge what comes next has paid with a fault.
Broken == {w \in Workers : worker[w].at = "broken"}
Paid   == Cardinality(unrun) + Cardinality(Broken) <= faults

\* The copies that there are and those that are still owed: by the queue, and by
\* whoever runs the task.
Occ(q, n)     == Cardinality({i \in 1..Len(q) : q[i] = n})
Same(m, n)    == IF m = n THEN 1 ELSE 0
Due(n)        == IF n \in asked THEN 1 ELSE 0
Debt(j, n, r) == IF j.note = n /\ r \in j.left THEN 1 ELSE 0
Owers(n, r)   == {t \in Threads : Debt(job[t], n, r) = 1}
Accounted ==
  \A n \in Notes : \A r \in To(n) :
    copies[n][r] + Occ(queue, n) + Cardinality(Owers(n, r)) <= Due(n) + repeats[n]

Inv == Typed /\ JobsHold /\ Traced /\ Paid /\ Accounted

-----------------------------------------------------------------------------
(* Sequences and sets *)

LEMMA OccType ==
  ASSUME NEW q \in Seq(Notes), NEW n
  PROVE  Occ(q, n) \in Nat /\ IsFiniteSet({i \in 1..Len(q) : q[i] = n})
<1>1. IsFiniteSet(1..Len(q))
  BY FS_Interval
<1>2. IsFiniteSet({i \in 1..Len(q) : q[i] = n})
  BY <1>1, FS_Subset
<1>3. QED  BY <1>2, FS_CardinalityType DEF Occ

LEMMA OccAppend ==
  ASSUME NEW q \in Seq(Notes), NEW n, NEW m \in Notes
  PROVE  Occ(Append(q, m), n) = Occ(q, n) + Same(m, n)
<1> DEFINE A == {i \in 1..Len(q) : q[i] = n}
           B == {i \in 1..Len(Append(q, m)) : Append(q, m)[i] = n}
<1>1. Len(q) \in Nat /\ Len(Append(q, m)) = Len(q) + 1
  OBVIOUS
<1>2. \A i \in 1..Len(q) : Append(q, m)[i] = q[i]
  OBVIOUS
<1>3. Append(q, m)[Len(q) + 1] = m
  OBVIOUS
<1>4. B = IF m = n THEN A \cup {Len(q) + 1} ELSE A
  BY <1>1, <1>2, <1>3
<1>5. IsFiniteSet(A) /\ Cardinality(A) \in Nat
  BY OccType DEF Occ
<1>6. Len(q) + 1 \notin A
  BY <1>1
<1>7. Cardinality(A \cup {Len(q) + 1}) = Cardinality(A) + 1
  BY <1>5, <1>6, FS_AddElement
<1> HIDE DEF A, B
<1>8. Cardinality(B) = Cardinality(A) + Same(m, n)
  BY <1>4, <1>5, <1>7 DEF Same
<1>9. QED  BY <1>8 DEF Occ, A, B

LEMMA OccTail ==
  ASSUME NEW q \in Seq(Notes), q # <<>>, NEW n
  PROVE  Occ(q, n) = Occ(Tail(q), n) + Same(Head(q), n)
<1> DEFINE A == {i \in 1..Len(q) : q[i] = n}
           C == A \ {1}
           B == {i \in 1..Len(Tail(q)) : Tail(q)[i] = n}
           f == [i \in B |-> i + 1]
<1>1. Len(q) \in Nat \ {0} /\ Tail(q) \in Seq(Notes) /\ Len(Tail(q)) = Len(q) - 1
  OBVIOUS
<1>2. \A i \in 1..Len(Tail(q)) : Tail(q)[i] = q[i + 1]
  OBVIOUS
<1>3. IsFiniteSet(A) /\ IsFiniteSet(B)
  BY <1>1, OccType
<1>4. \A i \in B : i + 1 \in C /\ i \in Nat
  BY <1>1, <1>2
<1>5. \A k \in C : k - 1 \in B /\ k \in Int
  BY <1>1, <1>2
<1> HIDE DEF A, B, C
<1>6. f \in Bijection(B, C)
  <2>1. f \in [B -> C]
    BY <1>4
  <2>2. \A i, k \in B : f[i] = f[k] => i = k
    BY <1>4
  <2>3. \A k \in C : \E i \in B : f[i] = k
    <3> TAKE k \in C
    <3>1. k - 1 \in B /\ f[k - 1] = k
      BY <1>5
    <3> QED BY <3>1
  <2>4. QED  BY <2>1, <2>2, <2>3 DEF Bijection, Injection, Surjection, IsInjective
<1>7. Cardinality(B) = Cardinality(C)
  <2>1. ExistsBijection(B, C)
    BY <1>6 DEF ExistsBijection
  <2>2. QED  BY <2>1, <1>3, FS_Bijection
<1>8. Cardinality(B) \in Nat
  BY <1>3, FS_CardinalityType
<1>9. CASE Head(q) = n
  <2>1. 1 \in A
    BY <1>1, <1>9 DEF A
  <2>2. Cardinality(C) = Cardinality(A) - 1 /\ Cardinality(A) \in Nat
    BY <1>3, <2>1, FS_RemoveElement, FS_CardinalityType DEF C
  <2>3. Same(Head(q), n) = 1
    BY <1>9 DEF Same
  <2>4. Cardinality(A) = Cardinality(B) + 1
    BY <1>7, <1>8, <2>2
  <2>5. QED  BY <2>3, <2>4 DEF Occ, A, B
<1>10. CASE Head(q) # n
  <2>1. C = A
    BY <1>1, <1>10 DEF A, C
  <2>2. Same(Head(q), n) = 0
    BY <1>10 DEF Same
  <2>3. Cardinality(A) = Cardinality(B) + 0
    BY <1>7, <1>8, <2>1
  <2>4. QED  BY <2>2, <2>3 DEF Occ, A, B
<1>11. QED  BY <1>9, <1>10

LEMMA RangeAppend ==
  ASSUME NEW q \in Seq(Notes), NEW m \in Notes
  PROVE  Range(Append(q, m)) = Range(q) \cup {m}
<1>1. DOMAIN q = 1..Len(q) /\ DOMAIN Append(q, m) = 1..(Len(q) + 1) /\ Len(q) \in Nat
  OBVIOUS
<1>2. /\ \A i \in 1..Len(q) : Append(q, m)[i] = q[i]
      /\ Append(q, m)[Len(q) + 1] = m
  OBVIOUS
<1>3. QED  BY <1>1, <1>2 DEF Range

LEMMA RangeTail ==
  ASSUME NEW q \in Seq(Notes), q # <<>>
  PROVE  Range(q) = {Head(q)} \cup Range(Tail(q))
<1>1. /\ DOMAIN q = 1..Len(q) /\ Len(q) \in Nat \ {0}
      /\ DOMAIN Tail(q) = 1..(Len(q) - 1) /\ Head(q) = q[1]
  OBVIOUS
<1>2. \A i \in 1..(Len(q) - 1) : Tail(q)[i] = q[i + 1]
  OBVIOUS
<1>3. ASSUME NEW n \in Range(q)
      PROVE  n = Head(q) \/ n \in Range(Tail(q))
  <2>1. PICK k \in 1..Len(q) : n = q[k]
    BY <1>1 DEF Range
  <2>2. CASE k = 1
    BY <1>1, <2>1, <2>2
  <2>3. CASE k # 1
    <3>1. k - 1 \in 1..(Len(q) - 1) /\ (k - 1) + 1 = k
      BY <1>1, <2>3
    <3>2. Tail(q)[k - 1] = n
      BY <1>2, <2>1, <3>1
    <3>3. QED  BY <1>1, <3>1, <3>2 DEF Range
  <2>4. QED  BY <2>2, <2>3
<1>4. ASSUME NEW n \in Range(Tail(q))
      PROVE  n \in Range(q)
  <2>1. PICK i \in 1..(Len(q) - 1) : n = Tail(q)[i]
    BY <1>1 DEF Range
  <2>2. i + 1 \in 1..Len(q) /\ n = q[i + 1]
    BY <1>1, <1>2, <2>1
  <2>3. QED  BY <1>1, <2>2 DEF Range
<1>5. Head(q) \in Range(q)
  <2>1. 1 \in 1..Len(q)
    BY <1>1
  <2>2. QED  BY <1>1, <2>1 DEF Range
<1>6. QED  BY <1>3, <1>4, <1>5

LEMMA OwersType ==
  ASSUME NEW n, NEW r
  PROVE  /\ IsFiniteSet(Owers(n, r)) /\ Cardinality(Owers(n, r)) \in Nat
         /\ IsFiniteSet(Owers(n, r)') /\ Cardinality(Owers(n, r)') \in Nat
<1>1. IsFiniteSet(Threads)
  BY TaskWorkerAssumption, FS_Union DEF Threads
<1>2. IsFiniteSet(Owers(n, r)) /\ IsFiniteSet(Owers(n, r)')
  BY <1>1, FS_Subset DEF Owers
<1>3. QED  BY <1>2, FS_CardinalityType

\* A thread that turns to another task changes what is owed by the difference.
Balance(t, j, n, r) ==
  Cardinality(Owers(n, r)') + Debt(job[t], n, r) = Cardinality(Owers(n, r)) + Debt(j, n, r)

LEMMA OwersStep ==
  ASSUME Typed, NEW t \in Threads, NEW j \in JobType, job' = [job EXCEPT ![t] = j], NEW n, NEW r
  PROVE  Balance(t, j, n, r)
<1> DEFINE O == Owers(n, r)
           Q == Owers(n, r)'
           C == O \ {t}
<1>1. \A s \in Threads : job'[s] = IF s = t THEN j ELSE job[s]
  BY DEF Typed
<1>2. IsFiniteSet(C) /\ t \notin C
  BY OwersType, FS_Subset
<1>3. O = IF Debt(job[t], n, r) = 1 THEN C \cup {t} ELSE C
  BY DEF Owers
<1>4. Q = IF Debt(j, n, r) = 1 THEN C \cup {t} ELSE C
  BY <1>1 DEF Owers, Debt
<1>5. Cardinality(C \cup {t}) = Cardinality(C) + 1 /\ Cardinality(C) \in Nat
  BY <1>2, FS_AddElement, FS_CardinalityType
<1> HIDE DEF O, Q, C
<1>6. Cardinality(O) = Cardinality(C) + Debt(job[t], n, r)
  BY <1>3, <1>5 DEF Debt
<1>7. Cardinality(Q) = Cardinality(C) + Debt(j, n, r)
  BY <1>4, <1>5 DEF Debt
<1>8. Debt(j, n, r) \in Nat /\ Debt(job[t], n, r) \in Nat
  BY DEF Debt
<1>9. Cardinality(Q) + Debt(job[t], n, r) = Cardinality(O) + Debt(j, n, r)
  BY <1>5, <1>6, <1>7, <1>8
<1>10. QED  BY <1>9 DEF O, Q, Balance

LEMMA BrokenFinite == IsFiniteSet(Broken) /\ Cardinality(Broken) \in Nat
BY TaskWorkerAssumption, FS_Subset, FS_CardinalityType DEF Broken

-----------------------------------------------------------------------------
(* What a step keeps *)

\* Copies and causes only grow.
Grows ==
  /\ \A n \in Notes : \A r \in Recipients : copies'[n][r] >= copies[n][r]
  /\ refused \subseteq refused' /\ unrun \subseteq unrun'
  /\ discarded \subseteq discarded' /\ cut \subseteq cut'

LEMMA ToRecipients ==
  ASSUME NEW n \in Notes
  PROVE  To(n) \subseteq Recipients
BY DEF To, Recipients

LEMMA ExplainedKept ==
  ASSUME Typed, Typed', Grows, NEW n \in Notes, NEW r \in Recipients, Explained(n, r)
  PROVE  Explained(n, r)'
<1>1. copies[n][r] \in Nat /\ copies'[n][r] \in Nat /\ copies'[n][r] >= copies[n][r]
  BY DEF Typed, Grows
<1>2. QED  BY <1>1 DEF Explained, Grows

LEMMA SettledKept ==
  ASSUME Typed, Typed', Grows, NEW n \in Notes, Settled(n)
  PROVE  Settled(n)'
BY ExplainedKept, ToRecipients DEF Settled, To

LEMMA JobKept ==
  ASSUME Typed, Typed', Grows, NEW j \in JobType, JobHolds(j)
  PROVE  JobHolds(j)'
<1>1. CASE j.at = "broadcast"
  <2>1. j.note \in Notes /\ j.note \in Broadcasts /\ j.count \in Nat
    BY <1>1 DEF JobHolds, Notes, JobType
  <2>2. Served(j) \subseteq Served(j)'
    <3>1. \A u \in Users : copies[j.note][u] \in Nat /\ copies'[j.note][u] \in Nat
                           /\ copies'[j.note][u] >= copies[j.note][u]
      BY <2>1 DEF Typed, Grows, Recipients
    <3>2. QED  BY <3>1 DEF Served
  <2>3. IsFiniteSet(Served(j)')
    BY TaskWorkerAssumption, FS_Subset DEF Served
  <2>4. Cardinality(Served(j)) <= Cardinality(Served(j)')
    BY <2>2, <2>3, FS_Subset
  <2>5. Cardinality(Served(j)) \in Nat /\ Cardinality(Served(j)') \in Nat
    BY <2>2, <2>3, FS_Subset, FS_CardinalityType
  <2>6. j.count <= Cardinality(Served(j)')
    <3>1. j.count <= Cardinality(Served(j))
      BY <1>1 DEF JobHolds
    <3>2. QED  BY <2>1, <2>4, <2>5, <3>1
  <2>7. \A u \in Users \ j.left : Explained(j.note, u)'
    BY <1>1, <2>1, ExplainedKept DEF JobHolds, Recipients
  <2>8. QED  BY <1>1, <2>6, <2>7 DEF JobHolds
<1>2. CASE j.at # "broadcast"
  BY <1>2, SettledKept DEF JobHolds
<1>3. QED  BY <1>1, <1>2

\* The rows of the other threads.
LEMMA JobsStep ==
  ASSUME Typed, Typed', Grows, JobsHold, NEW t \in Threads, NEW j \in JobType,
         job' = [job EXCEPT ![t] = j], JobHolds(j)'
  PROVE  JobsHold'
<1>1. ASSUME NEW s \in Threads
      PROVE  JobHolds(job[s])'
  <2>1. job'[s] = IF s = t THEN j ELSE job[s]
    BY DEF Typed
  <2>2. CASE s = t
    <3>1. job'[s] = j
      BY <2>1, <2>2
    <3>2. QED  BY <3>1 DEF JobHolds, Settled, Served, Explained
  <2>3. CASE s # t
    <3>1. PICK i \in JobType : i = job[s]
      BY DEF Typed
    <3>2. JobHolds(i)
      BY <3>1 DEF JobsHold
    <3>3. JobHolds(i)'
      BY <3>2, JobKept
    <3>4. i = job'[s]
      BY <2>1, <2>3, <3>1
    <3>5. QED  BY <3>3, <3>4 DEF JobHolds, Settled, Served, Explained
  <2>4. QED  BY <2>2, <2>3
<1>2. QED  BY <1>1 DEF JobsHold

LEMMA JobsSame ==
  ASSUME Typed, Typed', Grows, JobsHold, job' = job
  PROVE  JobsHold'
<1>1. ASSUME NEW s \in Threads
      PROVE  JobHolds(job[s])'
  <2>1. PICK i \in JobType : i = job[s]
    BY DEF Typed
  <2>2. JobHolds(i)
    BY <2>1 DEF JobsHold
  <2>3. JobHolds(i)'
    BY <2>2, JobKept
  <2>4. i = job'[s]
    BY <2>1
  <2>5. QED  BY <2>3, <2>4 DEF JobHolds, Settled, Served, Explained
<1>2. QED  BY <1>1 DEF JobsHold

LEMMA TracedStep ==
  ASSUME Typed, Typed', Grows, Traced, asked' = asked,
         \A n \in asked : Waiting(n) => Waiting(n)' \/ OnTheWeb(n)' \/ Settled(n)',
         \A n \in asked : OnTheWeb(n) => OnTheWeb(n)' \/ Settled(n)'
  PROVE  Traced'
<1>1. asked \subseteq Notes
  BY DEF Typed
<1>2. \A n \in asked : Settled(n) => Settled(n)'
  BY <1>1, SettledKept
<1>3. QED  BY <1>2 DEF Traced

LEMMA OnTheWebSame ==
  ASSUME job' = job, NEW n, OnTheWeb(n)
  PROVE  OnTheWeb(n)'
BY DEF OnTheWeb

\* A thread without a job owes nothing.
LEMMA NoDebt ==
  ASSUME NEW j, j.left = {}, NEW n, NEW r
  PROVE  Debt(j, n, r) = 0
BY DEF Debt

\* One step of a task.
LEMMA BodyStep ==
  ASSUME Inv, Typed', Grows, NEW t \in Threads, NEW j \in JobType, job' = [job EXCEPT ![t] = j],
         UNCHANGED taskless, faults' >= faults, JobHolds(j)',
         NEW m, m = job[t].note, (j.at # "idle" /\ j.note = m) \/ Settled(m)',
         \A n \in Notes : \A r \in To(n) :
           copies'[n][r] + Debt(j, n, r) + repeats[n]
             <= copies[n][r] + Debt(job[t], n, r) + repeats'[n]
  PROVE  Inv'
<1>1. Typed /\ JobsHold /\ Traced /\ Paid /\ Accounted
  BY DEF Inv
<1>2. JobsHold'
  BY <1>1, JobsStep
<1>3. /\ queue' = queue /\ held' = held /\ worker' = worker /\ asked' = asked /\ unrun' = unrun
  BY DEF taskless
<1>4. Traced'
  <2>1. \A n \in asked : Waiting(n) => Waiting(n)'
    BY <1>3 DEF Waiting
  <2>2. ASSUME NEW n \in asked, OnTheWeb(n)
        PROVE  OnTheWeb(n)' \/ Settled(n)'
    <3>1. PICK s \in Web : job[s].at # "idle" /\ job[s].note = n
      BY <2>2 DEF OnTheWeb
    <3>2. s \in Threads /\ job'[s] = IF s = t THEN j ELSE job[s]
      BY <1>1 DEF Typed, Threads
    <3>3. CASE s = t
      <4>1. n = m
        BY <3>1, <3>3
      <4>2. QED  BY <3>1, <3>2, <3>3, <4>1 DEF OnTheWeb
    <3>4. CASE s # t
      BY <3>1, <3>2, <3>4 DEF OnTheWeb
    <3>5. QED  BY <3>3, <3>4
  <2>3. QED  BY <1>1, <1>3, <2>1, <2>2, TracedStep
<1>5. Paid'
  <2>1. Broken' = Broken
    BY <1>3 DEF Broken
  <2>2. Cardinality(unrun) + Cardinality(Broken) <= faults /\ Cardinality(unrun) \in Nat
    BY <1>1, FS_CardinalityType DEF Paid, Typed
  <2>3. faults \in Nat /\ faults' \in Nat
    BY <1>1 DEF Typed
  <2>4. Cardinality(unrun) + Cardinality(Broken) <= faults'
    BY <2>2, <2>3, BrokenFinite
  <2>5. QED  BY <1>3, <2>1, <2>4 DEF Paid
<1>6. Accounted'
  <2>1. ASSUME NEW n \in Notes, NEW r \in To(n)
        PROVE  copies'[n][r] + Occ(queue, n)' + Cardinality(Owers(n, r)') <= Due(n)' + repeats'[n]
    <3>1. copies[n][r] + Occ(queue, n) + Cardinality(Owers(n, r)) <= Due(n) + repeats[n]
      BY <1>1 DEF Accounted
    <3>2. Cardinality(Owers(n, r)) \in Nat /\ Cardinality(Owers(n, r)') \in Nat
      BY OwersType
    <3>3. Balance(t, j, n, r)
      BY <1>1, OwersStep
    <3>4. Debt(job[t], n, r) \in Nat /\ Debt(j, n, r) \in Nat /\ Due(n) \in Nat
      BY DEF Debt, Due
    <3>5. /\ copies[n][r] \in Nat /\ copies'[n][r] \in Nat /\ repeats[n] \in Nat /\ repeats'[n] \in Nat
      BY <1>1, ToRecipients DEF Typed
    <3>6. Occ(queue, n) \in Nat
      BY <1>1, OccType DEF Typed
    <3>7. copies'[n][r] + Debt(j, n, r) + repeats[n] <= copies[n][r] + Debt(job[t], n, r) + repeats'[n]
      OBVIOUS
    <3>8. copies'[n][r] + Occ(queue, n) + Cardinality(Owers(n, r)') <= Due(n) + repeats'[n]
      BY <3>1, <3>2, <3>3, <3>4, <3>5, <3>6, <3>7 DEF Balance
    <3>9. QED  BY <1>3, <3>8 DEF Due, Occ
  <2>2. QED  BY <2>1 DEF Accounted
<1>7. QED  BY <1>2, <1>4, <1>5, <1>6 DEF Inv

-----------------------------------------------------------------------------
(* The bodies of the tasks *)

LEMMA FaultType ==
  ASSUME Typed, Fault \/ NoFault
  PROVE  faults' \in Nat /\ faults' >= faults
BY DEF Typed, Fault, NoFault

\* A copy more for one recipient.
LEMMA ReachesStep ==
  ASSUME Typed, NEW n \in Notes, NEW r \in Recipients, Reaches(n, r)
  PROVE  /\ copies' \in [Notes -> [Recipients -> Nat]]
         /\ copies'[n][r] = copies[n][r] + 1
         /\ \A m \in Notes, s \in Recipients : m # n \/ s # r => copies'[m][s] = copies[m][s]
         /\ \A m \in Notes, s \in Recipients : copies'[m][s] >= copies[m][s]
<1>1. copies \in [Notes -> [Recipients -> Nat]]
  BY DEF Typed
<1>2. copies' = [copies EXCEPT ![n] = [copies[n] EXCEPT ![r] = copies[n][r] + 1]]
  BY DEF Reaches
<1>3. [copies[n] EXCEPT ![r] = copies[n][r] + 1] \in [Recipients -> Nat]
  BY <1>1
<1>4. copies' \in [Notes -> [Recipients -> Nat]]
  BY <1>1, <1>2, <1>3
<1>5. \A m \in Notes, s \in Recipients :
        copies'[m][s] = IF m = n /\ s = r THEN copies[n][r] + 1 ELSE copies[m][s]
  BY <1>1, <1>2
<1>6. \A m \in Notes, s \in Recipients : copies[m][s] \in Nat
  BY <1>1
<1>7. QED  BY <1>4, <1>5, <1>6

\* The rest of the state is typed as it was.
LEMMA TasklessTyped ==
  ASSUME Typed, UNCHANGED taskless, NEW t \in Threads, NEW j \in JobType,
         job' = [job EXCEPT ![t] = j], copies' \in [Notes -> [Recipients -> Nat]],
         repeats' \in [Notes -> Nat], faults' \in Nat
  PROVE  Typed'
<1>1. job' \in [Threads -> JobType]
  BY DEF Typed
<1>2. QED  BY <1>1 DEF Typed, taskless

\* Who runs a notice for Telegram, and what is owed for it.
LEMMA TelegramJob ==
  ASSUME Inv, NEW t \in Threads, job[t].at = "telegram"
  PROVE  /\ job[t] \in JobType /\ job[t].note \in Posts /\ job[t].note \in Notes
         /\ job[t].left = {Chat} /\ job[t].count = 0 /\ To(job[t].note) = {Chat}
         /\ Chat \in Recipients /\ Debt(job[t], job[t].note, Chat) = 1
<1>1. job[t] \in JobType
  BY DEF Inv, Typed
<1>2. JobHolds(job[t])
  BY DEF Inv, JobsHold
<1>3. job[t].note \in Posts /\ job[t].left = {Chat} /\ job[t].count = 0
  BY <1>2 DEF JobHolds
<1>4. QED  BY <1>1, <1>3 DEF Notes, To, Recipients, Debt

Ended(t, n) == IF t \in Workers THEN [Idle EXCEPT !.at = "over", !.note = n] ELSE Idle

\* A task is over when its notice is settled.
LEMMA EndedJob ==
  ASSUME NEW t \in Threads, NEW n \in Notes
  PROVE  /\ Ended(t, n) \in JobType /\ Ended(t, n).left = {} /\ Ended(t, n).count = 0
         /\ Settled(n)' => JobHolds(Ended(t, n))'
<1>1. Ended(t, n) \in JobType /\ Ended(t, n).left = {} /\ Ended(t, n).count = 0
      /\ Ended(t, n).at \in {"idle", "over"}
  <2>1. Idle \in JobType
    BY TaskWorkerAssumption DEF Idle, JobType
  <2>2. [Idle EXCEPT !.at = "over", !.note = n] \in JobType
    BY <2>1 DEF JobType
  <2>3. QED  BY <2>1, <2>2 DEF Ended, Idle
<1>2. Ended(t, n).at = "over" => Ended(t, n).note = n
  BY DEF Ended, Idle
<1>3. PICK j \in JobType : j = Ended(t, n)
  BY <1>1
<1>4. ASSUME Settled(n)'
      PROVE  JobHolds(j)'
  <2>1. j.at = "over" => j.note = n
    BY <1>2, <1>3
  <2>2. j.left = {} /\ j.count = 0 /\ j.at \in {"idle", "over"}
    BY <1>1, <1>3
  <2>3. QED  BY <1>4, <2>1, <2>2 DEF JobHolds
<1>5. (JobHolds(Ended(t, n)))' <=> JobHolds(j)'
  BY <1>3 DEF JobHolds, Ended, Served, Settled, Explained
<1>6. QED  BY <1>1, <1>4, <1>5

\* The sums of BodyStep: nothing is sent.
LEMMA NothingSent ==
  ASSUME Typed, NEW t \in Threads, NEW j, copies' = copies, repeats' = repeats,
         j.left \subseteq job[t].left, j.left = {} \/ j.note = job[t].note
  PROVE  \A n \in Notes : \A r \in To(n) :
           copies'[n][r] + Debt(j, n, r) + repeats[n] <= copies[n][r] + Debt(job[t], n, r) + repeats'[n]
<1> TAKE n \in Notes
<1> TAKE r \in To(n)
<1>1. copies[n][r] \in Nat /\ repeats[n] \in Nat
  BY ToRecipients DEF Typed
<1>2. Debt(j, n, r) <= Debt(job[t], n, r) /\ Debt(j, n, r) \in Nat /\ Debt(job[t], n, r) \in Nat
  BY DEF Debt
<1>3. copies[n][r] + Debt(j, n, r) + repeats[n] <= copies[n][r] + Debt(job[t], n, r) + repeats[n]
  BY <1>1, <1>2
<1>4. QED  BY <1>3

\* What was owed is sent.
LEMMA DebtPaid ==
  ASSUME Typed, NEW t \in Threads, NEW j, NEW m \in Notes, NEW s \in Recipients, Reaches(m, s),
         repeats' = repeats, j.left \subseteq job[t].left, j.left = {} \/ j.note = job[t].note,
         s \notin j.left, Debt(job[t], m, s) = 1
  PROVE  \A n \in Notes : \A r \in To(n) :
           copies'[n][r] + Debt(j, n, r) + repeats[n] <= copies[n][r] + Debt(job[t], n, r) + repeats'[n]
<1> TAKE n \in Notes
<1> TAKE r \in To(n)
<1>1. copies[n][r] \in Nat /\ repeats[n] \in Nat /\ r \in Recipients
  BY ToRecipients DEF Typed
<1>2. Debt(j, n, r) <= Debt(job[t], n, r) /\ Debt(j, n, r) \in Nat /\ Debt(job[t], n, r) \in Nat
  BY DEF Debt
<1>3. CASE n = m /\ r = s
  <2>1. Debt(j, n, r) = 0 /\ Debt(job[t], n, r) = 1
    BY <1>3 DEF Debt
  <2>2. copies'[n][r] = copies[n][r] + 1
    BY <1>3, ReachesStep
  <2>3. (copies[n][r] + 1) + 0 + repeats[n] <= copies[n][r] + 1 + repeats[n]
    BY <1>1
  <2>4. QED  BY <2>1, <2>2, <2>3
<1>4. CASE n # m \/ r # s
  <2>1. copies'[n][r] = copies[n][r]
    BY <1>1, <1>4, ReachesStep
  <2>2. copies[n][r] + Debt(j, n, r) + repeats[n] <= copies[n][r] + Debt(job[t], n, r) + repeats[n]
    BY <1>1, <1>2
  <2>3. QED  BY <2>1, <2>2
<1>5. QED  BY <1>3, <1>4

\* What is still owed is sent, for a reason of its own.
LEMMA SentOnCredit ==
  ASSUME Typed, NEW t \in Threads, NEW j, NEW m \in Notes, NEW s \in Recipients, Reaches(m, s),
         repeats' = [repeats EXCEPT ![m] = @ + 1],
         j.left \subseteq job[t].left, j.left = {} \/ j.note = job[t].note
  PROVE  \A n \in Notes : \A r \in To(n) :
           copies'[n][r] + Debt(j, n, r) + repeats[n] <= copies[n][r] + Debt(job[t], n, r) + repeats'[n]
<1> TAKE n \in Notes
<1> TAKE r \in To(n)
<1>1. copies[n][r] \in Nat /\ repeats[n] \in Nat /\ r \in Recipients
  BY ToRecipients DEF Typed
<1>2. Debt(j, n, r) <= Debt(job[t], n, r) /\ Debt(j, n, r) \in Nat /\ Debt(job[t], n, r) \in Nat
  BY DEF Debt
<1>3. repeats'[n] = IF n = m THEN repeats[n] + 1 ELSE repeats[n]
  BY DEF Typed
<1>4. CASE n = m
  <2>1. repeats'[n] = repeats[n] + 1
    BY <1>3, <1>4
  <2>2. copies'[n][r] \in Nat /\ copies'[n][r] <= copies[n][r] + 1
    <3>1. r = s => copies'[n][r] = copies[n][r] + 1
      BY <1>4, ReachesStep
    <3>2. r # s => copies'[n][r] = copies[n][r]
      BY <1>1, ReachesStep
    <3>3. QED  BY <1>1, <3>1, <3>2
  <2>3. copies'[n][r] + Debt(j, n, r) + repeats[n] <= copies[n][r] + Debt(job[t], n, r) + (repeats[n] + 1)
    BY <1>1, <1>2, <2>2
  <2>4. QED  BY <2>1, <2>3
<1>5. CASE n # m
  <2>1. copies'[n][r] = copies[n][r] /\ repeats'[n] = repeats[n]
    BY <1>1, <1>3, <1>5, ReachesStep
  <2>2. copies[n][r] + Debt(j, n, r) + repeats[n] <= copies[n][r] + Debt(job[t], n, r) + repeats[n]
    BY <1>1, <1>2
  <2>3. QED  BY <2>1, <2>2
<1>6. QED  BY <1>4, <1>5

LEMMA PostedStep ==
  ASSUME Inv, NEW t \in Threads, Posted(t)
  PROVE  Inv'
<1>1. Typed /\ job[t].at = "telegram"
  BY DEF Inv, Posted
<1>2. PICK m \in Notes : m = job[t].note
  BY <1>1, TelegramJob
<1>3. PICK j \in JobType : j = Ended(t, m)
  BY EndedJob
<1>4. /\ UNCHANGED taskless /\ refused' = refused /\ repeats' = repeats /\ faults' = faults
      /\ Reaches(m, Chat) /\ job' = [job EXCEPT ![t] = j]
  BY <1>2, <1>3 DEF Posted, Over, Ended
<1>5. Chat \in Recipients /\ To(m) = {Chat} /\ Debt(job[t], m, Chat) = 1
  BY <1>1, <1>2, TelegramJob
<1>6. Typed' /\ faults' >= faults
  <2>1. copies' \in [Notes -> [Recipients -> Nat]]
    BY <1>1, <1>4, <1>5, ReachesStep
  <2>2. repeats' \in [Notes -> Nat] /\ faults' \in Nat /\ faults' >= faults
    BY <1>1, <1>4 DEF Typed
  <2>3. QED  BY <1>1, <1>4, <2>1, <2>2, TasklessTyped
<1>7. Grows
  <2>1. \A n \in Notes : \A r \in Recipients : copies'[n][r] >= copies[n][r]
    BY <1>1, <1>4, <1>5, ReachesStep
  <2>2. QED  BY <1>4, <2>1 DEF Grows, taskless
<1>8. Settled(m)'
  <2>1. copies'[m][Chat] > 0
    <3>1. copies'[m][Chat] = copies[m][Chat] + 1 /\ copies[m][Chat] \in Nat
      BY <1>1, <1>4, <1>5, ReachesStep DEF Typed
    <3>2. QED  BY <3>1
  <2>2. QED  BY <1>5, <2>1 DEF Settled, Explained
<1>9. JobHolds(j)' /\ j.left = {}
  <2>1. JobHolds(Ended(t, m))' /\ Ended(t, m).left = {}
    BY <1>8, EndedJob
  <2>2. QED  BY <1>3, <2>1
<1>10. \A n \in Notes : \A r \in To(n) :
         copies'[n][r] + Debt(j, n, r) + repeats[n] <= copies[n][r] + Debt(job[t], n, r) + repeats'[n]
  BY <1>1, <1>4, <1>5, <1>9, DebtPaid
<1>11. QED  BY <1>2, <1>4, <1>6, <1>7, <1>8, <1>9, <1>10, BodyStep

\* After a refusal the task goes on, or is over.
LEMMA TriedJob ==
  ASSUME Inv, NEW t \in Threads, job[t].at = "telegram", NEW plain \in BOOLEAN,
         TriesAgain(t, plain), NEW m \in Notes, m = job[t].note, Settled(m)'
  PROVE  \E j \in JobType :
           /\ job' = [job EXCEPT ![t] = j] /\ JobHolds(j)'
           /\ j.left \subseteq job[t].left /\ (j.left = {} \/ j.note = job[t].note)
<1>1. Typed /\ job[t] \in JobType /\ job[t].left = {Chat} /\ job[t].note \in Posts /\ job[t].count = 0
  BY TelegramJob DEF Inv
<1>2. CASE job[t].attempt < MaxRetries
  <2>1. job' = [job EXCEPT ![t].attempt = @ + 1, ![t].plain = plain]
    BY <1>2 DEF TriesAgain
  <2>2. PICK j : j = [job[t] EXCEPT !.attempt = job[t].attempt + 1, !.plain = plain]
    OBVIOUS
  <2>3. job' = [job EXCEPT ![t] = j]
    BY <1>1, <2>1, <2>2 DEF Typed
  <2>4. job[t].attempt + 1 \in 0..MaxRetries
    BY <1>1, <1>2, TaskWorkerAssumption DEF JobType
  <2>5. j \in JobType
    BY <1>1, <2>2, <2>4 DEF JobType
  <2>6. j.at = "telegram" /\ j.left = {Chat} /\ j.note = job[t].note /\ j.count = 0
    BY <1>1, <2>2 DEF JobType
  <2>7. JobHolds(j)'
    BY <1>1, <2>6 DEF JobHolds
  <2>8. QED  BY <1>1, <2>3, <2>5, <2>6, <2>7
<1>3. CASE ~(job[t].attempt < MaxRetries)
  <2>1. PICK j \in JobType : j = Ended(t, m)
    BY EndedJob
  <2>2. job' = [job EXCEPT ![t] = j]
    BY <1>3, <2>1 DEF TriesAgain, Over, Ended
  <2>3. JobHolds(Ended(t, m))' /\ Ended(t, m).left = {}
    BY EndedJob
  <2>4. JobHolds(j)' /\ j.left = {}
    BY <2>1, <2>3
  <2>5. QED  BY <2>2, <2>4
<1>4. QED  BY <1>2, <1>3

\* A refusal settles the notice for the chat.
LEMMA RefusedSettles ==
  ASSUME Inv, NEW t \in Threads, job[t].at = "telegram", NEW m \in Notes, m = job[t].note,
         IsRefused(m, Chat)
  PROVE  Settled(m)' /\ refused \subseteq refused'
<1>1. To(m) = {Chat}
  BY TelegramJob
<1>2. refused' = refused \cup {<<m, Chat>>}
  BY DEF IsRefused
<1>3. QED  BY <1>1, <1>2 DEF Settled, Explained

LEMMA RefusedOnce ==
  ASSUME Inv, NEW t \in Threads, job[t].at = "telegram", NEW m \in Notes, m = job[t].note,
         IsRefused(m, Chat), UNCHANGED <<taskless, copies, repeats, faults>>,
         NEW j \in JobType, job' = [job EXCEPT ![t] = j], JobHolds(j)',
         j.left \subseteq job[t].left, j.left = {} \/ j.note = job[t].note
  PROVE  Inv'
<1>1. Typed
  BY DEF Inv
<1>2. Settled(m)' /\ refused \subseteq refused'
  BY RefusedSettles
<1>3. Typed' /\ faults' >= faults
  <2>1. copies' \in [Notes -> [Recipients -> Nat]] /\ repeats' \in [Notes -> Nat]
        /\ faults' \in Nat /\ faults' >= faults
    BY <1>1 DEF Typed
  <2>2. QED  BY <1>1, <2>1, TasklessTyped
<1>4. Grows
  <2>1. \A n \in Notes : \A r \in Recipients : copies'[n][r] >= copies[n][r]
    BY <1>1 DEF Typed
  <2>2. QED  BY <1>2, <2>1 DEF Grows, taskless
<1>5. \A n \in Notes : \A r \in To(n) :
        copies'[n][r] + Debt(j, n, r) + repeats[n] <= copies[n][r] + Debt(job[t], n, r) + repeats'[n]
  BY <1>1, NothingSent
<1>6. QED  BY <1>2, <1>3, <1>4, <1>5, BodyStep

LEMMA UnparsedStep ==
  ASSUME Inv, NEW t \in Threads, Unparsed(t)
  PROVE  Inv'
<1>1. PICK m \in Notes : m = job[t].note
  BY TelegramJob DEF Unparsed
<1>2. /\ job[t].at = "telegram" /\ IsRefused(m, Chat) /\ TriesAgain(t, TRUE)
      /\ UNCHANGED <<taskless, copies, repeats, faults>>
  BY <1>1 DEF Unparsed
<1>3. Settled(m)'
  BY <1>1, <1>2, RefusedSettles
<1>4. PICK j \in JobType :
        /\ job' = [job EXCEPT ![t] = j] /\ JobHolds(j)'
        /\ j.left \subseteq job[t].left /\ (j.left = {} \/ j.note = job[t].note)
  BY <1>1, <1>2, <1>3, TriedJob
<1>5. QED  BY <1>1, <1>2, <1>4, RefusedOnce

LEMMA RefusedStep ==
  ASSUME Inv, NEW t \in Threads, Refused(t)
  PROVE  Inv'
<1>1. PICK m \in Notes : m = job[t].note
  BY TelegramJob DEF Refused
<1>2. /\ job[t].at = "telegram" /\ IsRefused(m, Chat) /\ Over(t)
      /\ UNCHANGED <<taskless, copies, repeats, faults>>
  BY <1>1 DEF Refused
<1>3. Settled(m)'
  BY <1>1, <1>2, RefusedSettles
<1>4. PICK j \in JobType : j = Ended(t, m)
  BY EndedJob
<1>5. job' = [job EXCEPT ![t] = j]
  BY <1>1, <1>2, <1>4 DEF Over, Ended
<1>6. JobHolds(Ended(t, m))' /\ Ended(t, m).left = {}
  BY <1>3, EndedJob
<1>7. JobHolds(j)' /\ j.left = {}
  BY <1>4, <1>6
<1>8. QED  BY <1>1, <1>2, <1>5, <1>7, RefusedOnce

LEMMA DeferredStep ==
  ASSUME Inv, NEW t \in Threads, Deferred(t)
  PROVE  Inv'
<1>1. PICK m \in Notes : m = job[t].note
  BY TelegramJob DEF Deferred
<1>2. Typed /\ job[t].at = "telegram" /\ IsRefused(m, Chat) /\ TriesAgain(t, job[t].plain)
      /\ UNCHANGED taskless
  BY <1>1 DEF Deferred, Inv
<1>3. Settled(m)' /\ refused \subseteq refused'
  BY <1>1, <1>2, RefusedSettles
<1>4. job[t].plain \in BOOLEAN
  BY <1>2 DEF Typed, JobType
<1>5. PICK j \in JobType :
        /\ job' = [job EXCEPT ![t] = j] /\ JobHolds(j)'
        /\ j.left \subseteq job[t].left /\ (j.left = {} \/ j.note = job[t].note)
  BY <1>1, <1>2, <1>3, <1>4, TriedJob
<1>6. CASE UNCHANGED <<copies, repeats, faults>>
  BY <1>1, <1>2, <1>5, <1>6, RefusedOnce
<1>7. CASE Fault /\ Reaches(m, Chat) /\ repeats' = [repeats EXCEPT ![m] = @ + 1]
  <2>1. Chat \in Recipients
    BY DEF Recipients
  <2>2. Typed' /\ faults' >= faults
    <3>1. copies' \in [Notes -> [Recipients -> Nat]]
      BY <1>2, <1>7, <2>1, ReachesStep
    <3>2. repeats' \in [Notes -> Nat]
      BY <1>2, <1>7 DEF Typed
    <3>3. faults' \in Nat /\ faults' >= faults
      BY <1>2, <1>7, FaultType
    <3>4. QED  BY <1>2, <1>5, <3>1, <3>2, <3>3, TasklessTyped
  <2>3. Grows
    <3>1. \A n \in Notes : \A r \in Recipients : copies'[n][r] >= copies[n][r]
      BY <1>2, <1>7, <2>1, ReachesStep
    <3>2. QED  BY <1>2, <1>3, <3>1 DEF Grows, taskless
  <2>4. \A n \in Notes : \A r \in To(n) :
          copies'[n][r] + Debt(j, n, r) + repeats[n] <= copies[n][r] + Debt(job[t], n, r) + repeats'[n]
    BY <1>2, <1>5, <1>7, <2>1, SentOnCredit
  <2>5. QED  BY <1>1, <1>2, <1>3, <1>5, <2>2, <2>3, <2>4, BodyStep
<1>8. QED  BY <1>1, <1>6, <1>7 DEF Deferred

LEMMA BroadcastJob ==
  ASSUME Inv, NEW t \in Threads, job[t].at = "broadcast"
  PROVE  /\ job[t] \in JobType /\ job[t].note \in Broadcasts /\ job[t].note \in Notes
         /\ job[t].left \subseteq Users /\ To(job[t].note) = Users
         /\ job[t].count <= Cardinality(Served(job[t]))
         /\ \A u \in Users \ job[t].left : Explained(job[t].note, u)
<1>1. job[t] \in JobType
  BY DEF Inv, Typed
<1>2. JobHolds(job[t])
  BY DEF Inv, JobsHold
<1>3. /\ job[t].note \in Broadcasts /\ job[t].left \subseteq Users
      /\ job[t].count <= Cardinality(Served(job[t]))
      /\ \A u \in Users \ job[t].left : Explained(job[t].note, u)
  BY <1>2 DEF JobHolds
<1>4. job[t].note \in Notes /\ To(job[t].note) = Users
  BY <1>3, TaskWorkerAssumption DEF Notes, To
<1>5. QED  BY <1>1, <1>3, <1>4

\* The next user of a broadcast.
LEMMA DeliveredRow ==
  ASSUME Typed, NEW t \in Threads, NEW u, NEW taken \in BOOLEAN, GoesOn(t, u, taken)
  PROVE  \E j \in JobType :
           /\ job' = [job EXCEPT ![t] = j]
           /\ j.at = job[t].at /\ j.note = job[t].note /\ j.left = job[t].left \ {u}
           /\ j.count = IF taken THEN job[t].count + 1 ELSE job[t].count
<1>1. job[t] \in JobType
  BY DEF Typed
<1>2. job' = [job EXCEPT ![t].left = @ \ {u}, ![t].count = IF taken THEN @ + 1 ELSE @]
  BY DEF GoesOn
<1>3. PICK c : c = IF taken THEN job[t].count + 1 ELSE job[t].count
  OBVIOUS
<1>4. c \in Nat
  BY <1>1, <1>3 DEF JobType
<1>5. PICK j : j = [job[t] EXCEPT !.left = job[t].left \ {u}, !.count = c]
  OBVIOUS
<1>6. /\ j \in JobType /\ j.at = job[t].at /\ j.note = job[t].note
      /\ j.left = job[t].left \ {u} /\ j.count = c
  BY <1>1, <1>4, <1>5 DEF JobType
<1>7. job' = [job EXCEPT ![t] = j]
  BY <1>1, <1>2, <1>3, <1>5 DEF Typed
<1>8. QED  BY <1>3, <1>6, <1>7

LEMMA DeliveredHolds ==
  ASSUME Inv, Typed', Grows, NEW t \in Threads, job[t].at = "broadcast", NEW u \in job[t].left,
         NEW taken \in BOOLEAN, NEW m, m = job[t].note,
         Explained(m, u)', taken => copies'[m][u] > 0,
         NEW j \in JobType, j.at = "broadcast", j.note = m, j.left = job[t].left \ {u},
         j.count = IF taken THEN job[t].count + 1 ELSE job[t].count
  PROVE  JobHolds(j)'
<1>1. Typed
  BY DEF Inv
<1>2. PICK i \in JobType : i = job[t]
  BY <1>1 DEF Typed
<1>3. /\ m \in Broadcasts /\ m \in Notes /\ i.left \subseteq Users /\ u \in Users
      /\ i.count <= Cardinality(Served(i)) /\ i.count \in Nat /\ i.note = m
      /\ \A v \in Users \ i.left : Explained(m, v)
  BY <1>2, BroadcastJob DEF JobType
<1>4. \A v \in Users \ j.left : Explained(m, v)'
  <2>1. TAKE v \in Users \ j.left
  <2>2. v = u \/ v \in Users \ i.left
    BY <1>2
  <2>3. v \in Recipients
    BY DEF Recipients
  <2>4. CASE v = u
    BY <2>4
  <2>5. CASE v \in Users \ i.left
    <3>1. Explained(m, v)
      BY <1>3, <2>5
    <3>2. QED  BY <1>1, <1>3, <2>3, <3>1, ExplainedKept
  <2>6. QED  BY <2>2, <2>4, <2>5
<1>5. Served(i) \subseteq Served(j)' /\ u \notin Served(i) /\ (taken => u \in Served(j)')
  <2>1. \A v \in Users : copies[m][v] \in Nat /\ copies'[m][v] \in Nat /\ copies'[m][v] >= copies[m][v]
    BY <1>1, <1>3 DEF Typed, Grows, Recipients
  <2>2. \A v \in Users : copies[m][v] > 0 => copies'[m][v] > 0
    BY <2>1
  <2>3. u \notin j.left /\ j.left = i.left \ {u}
    BY <1>2
  <2>4. QED  BY <1>2, <1>3, <2>2, <2>3 DEF Served
<1>6. /\ IsFiniteSet(Served(i)) /\ IsFiniteSet(Served(j)')
      /\ Cardinality(Served(i)) \in Nat /\ Cardinality(Served(j)') \in Nat
  BY TaskWorkerAssumption, FS_Subset, FS_CardinalityType DEF Served
<1>7. j.count <= Cardinality(Served(j)')
  <2>1. CASE taken
    <3>1. Served(i) \cup {u} \subseteq Served(j)'
      BY <1>5, <2>1
    <3>2. Cardinality(Served(i) \cup {u}) = Cardinality(Served(i)) + 1
      BY <1>5, <1>6, FS_AddElement
    <3>3. Cardinality(Served(i)) + 1 <= Cardinality(Served(j)')
      BY <1>6, <3>1, <3>2, FS_Subset
    <3>4. j.count = i.count + 1
      BY <1>2, <2>1
    <3>5. QED  BY <1>3, <1>6, <3>3, <3>4
  <2>2. CASE ~taken
    <3>1. Cardinality(Served(i)) <= Cardinality(Served(j)')
      BY <1>5, <1>6, FS_Subset
    <3>2. j.count = i.count
      BY <1>2, <2>2
    <3>3. QED  BY <1>3, <1>6, <3>1, <3>2
  <2>3. QED  BY <2>1, <2>2
<1>8. j.left \subseteq Users
  BY <1>2, <1>3
<1>9. QED  BY <1>3, <1>4, <1>7, <1>8 DEF JobHolds

LEMMA DeliversStep ==
  ASSUME Inv, NEW t \in Threads, NEW u \in Users, Delivers(t, u)
  PROVE  Inv'
<1>1. Typed /\ job[t].at = "broadcast" /\ job[t].left # {} /\ UNCHANGED taskless /\ repeats' = repeats
  BY DEF Inv, Delivers
<1>2. u \in job[t].left
  BY DEF Delivers
<1>3. PICK m \in Notes : m = job[t].note
  BY <1>1, BroadcastJob
<1>4. u \in Recipients /\ Debt(job[t], m, u) = 1
  BY <1>2, <1>3 DEF Recipients, Debt
<1>5. PICK taken \in BOOLEAN :
        /\ GoesOn(t, u, taken) /\ (Fault \/ NoFault)
        /\ \/ Reaches(m, u) /\ refused' = refused
           \/ ~taken /\ IsRefused(m, u) /\ copies' = copies
  <2>1. CASE Reaches(m, u) /\ GoesOn(t, u, TRUE) /\ UNCHANGED <<refused, faults>>
    <3>1. GoesOn(t, u, TRUE) /\ NoFault /\ Reaches(m, u) /\ refused' = refused
      BY <2>1 DEF NoFault
    <3>2. QED  BY <3>1
  <2>2. CASE IsRefused(m, u) /\ GoesOn(t, u, FALSE) /\ UNCHANGED <<copies, faults>>
    <3>1. GoesOn(t, u, FALSE) /\ NoFault /\ IsRefused(m, u) /\ copies' = copies
      BY <2>2 DEF NoFault
    <3>2. QED  BY <3>1
  <2>3. CASE Fault /\ Reaches(m, u) /\ GoesOn(t, u, FALSE) /\ UNCHANGED refused
    <3>1. GoesOn(t, u, FALSE) /\ Fault /\ Reaches(m, u) /\ refused' = refused
      BY <2>3
    <3>2. QED  BY <3>1
  <2>4. QED  BY <1>3, <2>1, <2>2, <2>3 DEF Delivers
<1>6. PICK j \in JobType :
        /\ job' = [job EXCEPT ![t] = j]
        /\ j.at = job[t].at /\ j.note = job[t].note /\ j.left = job[t].left \ {u}
        /\ j.count = IF taken THEN job[t].count + 1 ELSE job[t].count
  BY <1>1, <1>5, DeliveredRow
<1>7. /\ copies' \in [Notes -> [Recipients -> Nat]]
      /\ \A n \in Notes : \A r \in Recipients : copies'[n][r] >= copies[n][r]
  <2>1. CASE Reaches(m, u)
    BY <1>1, <1>4, <2>1, ReachesStep
  <2>2. CASE copies' = copies
    BY <1>1, <2>2 DEF Typed
  <2>3. QED  BY <1>5, <2>1, <2>2
<1>8. Typed' /\ faults' >= faults
  <2>1. repeats' \in [Notes -> Nat]
    BY <1>1 DEF Typed
  <2>2. faults' \in Nat /\ faults' >= faults
    BY <1>1, <1>5, FaultType
  <2>3. QED  BY <1>1, <1>6, <1>7, <2>1, <2>2, TasklessTyped
<1>9. Grows
  <2>1. refused \subseteq refused'
    BY <1>5 DEF IsRefused
  <2>2. QED  BY <1>1, <1>7, <2>1 DEF Grows, taskless
<1>10. Explained(m, u)' /\ (taken => copies'[m][u] > 0)
  <2>1. CASE Reaches(m, u)
    <3>1. copies'[m][u] = copies[m][u] + 1 /\ copies[m][u] \in Nat
      BY <1>1, <1>4, <2>1, ReachesStep DEF Typed
    <3>2. copies'[m][u] > 0
      BY <3>1
    <3>3. QED  BY <3>2 DEF Explained
  <2>2. CASE ~taken /\ IsRefused(m, u)
    BY <2>2 DEF IsRefused, Explained
  <2>3. QED  BY <1>5, <2>1, <2>2
<1>11. JobHolds(j)'
  BY <1>1, <1>2, <1>3, <1>6, <1>8, <1>9, <1>10, DeliveredHolds
<1>12. j.left \subseteq job[t].left /\ u \notin j.left /\ j.at # "idle" /\ j.note = m
  BY <1>1, <1>3, <1>6
<1>13. \A n \in Notes : \A r \in To(n) :
         copies'[n][r] + Debt(j, n, r) + repeats[n] <= copies[n][r] + Debt(job[t], n, r) + repeats'[n]
  <2>1. CASE Reaches(m, u)
    BY <1>1, <1>3, <1>4, <1>12, <2>1, DebtPaid
  <2>2. CASE copies' = copies
    BY <1>1, <1>3, <1>12, <2>2, NothingSent
  <2>3. QED  BY <1>5, <2>1, <2>2
<1>14. QED  BY <1>1, <1>3, <1>6, <1>8, <1>9, <1>11, <1>12, <1>13, BodyStep

LEMMA BroadcastEndsStep ==
  ASSUME Inv, NEW t \in Threads, BroadcastEnds(t)
  PROVE  Inv'
<1>1. /\ Typed /\ job[t].at = "broadcast" /\ job[t].left = {} /\ Over(t)
      /\ UNCHANGED <<taskless, copies, refused, repeats, faults>>
  BY DEF Inv, BroadcastEnds
<1>2. PICK m \in Notes : m = job[t].note
  BY <1>1, BroadcastJob
<1>3. To(m) = Users /\ \A u \in Users : Explained(m, u)
  BY <1>1, <1>2, BroadcastJob
<1>4. PICK j \in JobType : j = Ended(t, m)
  BY EndedJob
<1>5. job' = [job EXCEPT ![t] = j]
  BY <1>1, <1>2, <1>4 DEF Over, Ended
<1>6. Typed' /\ faults' >= faults
  <2>1. copies' \in [Notes -> [Recipients -> Nat]] /\ repeats' \in [Notes -> Nat]
        /\ faults' \in Nat /\ faults' >= faults
    BY <1>1 DEF Typed
  <2>2. QED  BY <1>1, <1>5, <2>1, TasklessTyped
<1>7. Grows
  <2>1. \A n \in Notes : \A r \in Recipients : copies'[n][r] >= copies[n][r]
    BY <1>1 DEF Typed
  <2>2. QED  BY <1>1, <2>1 DEF Grows, taskless
<1>8. Settled(m)'
  <2>1. Settled(m)
    BY <1>3 DEF Settled
  <2>2. QED  BY <1>1, <1>6, <1>7, <2>1, SettledKept
<1>9. JobHolds(Ended(t, m))' /\ Ended(t, m).left = {}
  BY <1>8, EndedJob
<1>10. JobHolds(j)' /\ j.left = {}
  BY <1>4, <1>9
<1>11. \A n \in Notes : \A r \in To(n) :
         copies'[n][r] + Debt(j, n, r) + repeats[n] <= copies[n][r] + Debt(job[t], n, r) + repeats'[n]
  BY <1>1, <1>10, NothingSent
<1>12. QED  BY <1>1, <1>2, <1>5, <1>6, <1>7, <1>8, <1>10, <1>11, BodyStep

-----------------------------------------------------------------------------
(* The loop of a worker *)

\* Nobody becomes broken.
LEMMA PaidStill ==
  ASSUME Inv, Typed', unrun' = unrun, faults' >= faults, Broken' \subseteq Broken
  PROVE  Paid'
<1>1. Cardinality(Broken') <= Cardinality(Broken) /\ Cardinality(Broken') \in Nat
  BY BrokenFinite, FS_Subset, FS_CardinalityType
<1>2. Cardinality(unrun) \in Nat /\ faults \in Nat /\ faults' \in Nat
  BY FS_CardinalityType DEF Inv, Typed
<1>3. Cardinality(unrun) + Cardinality(Broken) <= faults
  BY DEF Inv, Paid
<1>4. Cardinality(unrun) + Cardinality(Broken') <= faults'
  BY <1>1, <1>2, <1>3, BrokenFinite
<1>5. QED  BY <1>4 DEF Paid

\* One worker does, by a fault.
LEMMA PaidForBroken ==
  ASSUME Inv, Typed', unrun' = unrun, Fault, NEW w, Broken' \subseteq Broken \cup {w}
  PROVE  Paid'
<1>1. /\ IsFiniteSet(Broken \cup {w}) /\ Cardinality(Broken \cup {w}) \in Nat
      /\ Cardinality(Broken \cup {w}) <= Cardinality(Broken) + 1
  <2>1. CASE w \in Broken
    <3>1. Broken \cup {w} = Broken
      BY <2>1
    <3>2. QED  BY <3>1, BrokenFinite
  <2>2. CASE w \notin Broken
    <3>1. IsFiniteSet(Broken \cup {w}) /\ Cardinality(Broken \cup {w}) = Cardinality(Broken) + 1
      BY <2>2, BrokenFinite, FS_AddElement
    <3>2. QED  BY <3>1, BrokenFinite
  <2>3. QED  BY <2>1, <2>2
<1>2. Cardinality(Broken') <= Cardinality(Broken \cup {w}) /\ Cardinality(Broken') \in Nat
  BY <1>1, FS_Subset, FS_CardinalityType
<1>3. Cardinality(unrun) \in Nat /\ faults \in Nat /\ faults' = faults + 1
  BY FS_CardinalityType DEF Inv, Typed, Fault
<1>4. Cardinality(unrun) + Cardinality(Broken) <= faults
  BY DEF Inv, Paid
<1>5. Cardinality(unrun) + Cardinality(Broken') <= faults'
  BY <1>1, <1>2, <1>3, <1>4, BrokenFinite
<1>6. QED  BY <1>5 DEF Paid

\* What a broken worker acknowledges was paid for.
LEMMA PaidForUnrun ==
  ASSUME Inv, Typed', NEW w \in Broken, Broken' \subseteq Broken \ {w},
         NEW n, unrun' = unrun \cup {n}, faults' = faults
  PROVE  Paid'
<1>1. /\ Cardinality(Broken \ {w}) = Cardinality(Broken) - 1 /\ IsFiniteSet(Broken \ {w})
  BY BrokenFinite, FS_RemoveElement
<1>2. Cardinality(Broken') <= Cardinality(Broken \ {w}) /\ Cardinality(Broken') \in Nat
  BY <1>1, FS_Subset, FS_CardinalityType
<1>3. IsFiniteSet(unrun) /\ Cardinality(unrun) \in Nat /\ faults \in Nat
  BY FS_CardinalityType DEF Inv, Typed
<1>4. Cardinality(unrun \cup {n}) <= Cardinality(unrun) + 1 /\ Cardinality(unrun \cup {n}) \in Nat
  <2>1. CASE n \in unrun
    <3>1. unrun \cup {n} = unrun
      BY <2>1
    <3>2. QED  BY <3>1, <1>3
  <2>2. CASE n \notin unrun
    <3>1. Cardinality(unrun \cup {n}) = Cardinality(unrun) + 1
      BY <2>2, <1>3, FS_AddElement
    <3>2. QED  BY <3>1, <1>3
  <2>3. QED  BY <2>1, <2>2
<1>5. Cardinality(unrun) + Cardinality(Broken) <= faults
  BY DEF Inv, Paid
<1>6. Cardinality(unrun \cup {n}) + Cardinality(Broken') <= faults
  BY <1>1, <1>2, <1>3, <1>4, <1>5, BrokenFinite
<1>7. QED  BY <1>6 DEF Paid

\* A step that sends nothing and changes the task of one thread at most.
LEMMA AroundStep ==
  ASSUME Inv, Typed', Grows, copies' = copies, Paid', Traced',
         NEW t \in Threads, NEW j \in JobType, job' = [job EXCEPT ![t] = j], JobHolds(j)',
         \A n \in Notes : \A r \in To(n) :
           Occ(queue, n)' + Debt(j, n, r) + Due(n) + repeats[n]
             <= Occ(queue, n) + Debt(job[t], n, r) + Due(n)' + repeats'[n]
  PROVE  Inv'
<1>1. Typed /\ JobsHold /\ Accounted
  BY DEF Inv
<1>2. JobsHold'
  BY <1>1, JobsStep
<1>3. Accounted'
  <2>1. ASSUME NEW n \in Notes, NEW r \in To(n)
        PROVE  copies'[n][r] + Occ(queue, n)' + Cardinality(Owers(n, r)') <= Due(n)' + repeats'[n]
    <3>1. copies[n][r] + Occ(queue, n) + Cardinality(Owers(n, r)) <= Due(n) + repeats[n]
      BY <1>1 DEF Accounted
    <3>2. Cardinality(Owers(n, r)) \in Nat /\ Cardinality(Owers(n, r)') \in Nat
      BY OwersType
    <3>3. Balance(t, j, n, r)
      BY <1>1, OwersStep
    <3>4. /\ Debt(job[t], n, r) \in Nat /\ Debt(j, n, r) \in Nat
          /\ Due(n) \in Nat /\ Due(n)' \in Nat
      BY DEF Debt, Due
    <3>5. copies[n][r] \in Nat /\ repeats[n] \in Nat /\ repeats'[n] \in Nat
      BY <1>1, ToRecipients DEF Typed
    <3>6. Occ(queue, n) \in Nat /\ Occ(queue, n)' \in Nat
      <4>1. queue \in Seq(Notes) /\ queue' \in Seq(Notes)
        BY <1>1 DEF Typed
      <4>2. Occ(queue, n) \in Nat /\ Occ(queue', n) \in Nat
        BY <4>1, OccType
      <4>3. QED  BY <4>2 DEF Occ
    <3>7. Occ(queue, n)' + Debt(j, n, r) + Due(n) + repeats[n]
            <= Occ(queue, n) + Debt(job[t], n, r) + Due(n)' + repeats'[n]
      OBVIOUS
    <3>8. copies[n][r] + Occ(queue, n)' + Cardinality(Owers(n, r)') <= Due(n)' + repeats'[n]
      BY <3>1, <3>2, <3>3, <3>4, <3>5, <3>6, <3>7 DEF Balance
    <3>9. QED  BY <3>8
  <2>2. QED  BY <2>1 DEF Accounted
<1>4. QED  BY <1>2, <1>3 DEF Inv

\* One that leaves the tasks alone.
LEMMA LoopStep ==
  ASSUME Inv, Typed', Grows, copies' = copies, job' = job, asked' = asked, Paid',
         \A n \in asked : Waiting(n) => Waiting(n)' \/ Settled(n)',
         \A n \in Notes : Occ(queue, n)' + repeats[n] <= Occ(queue, n) + repeats'[n]
  PROVE  Inv'
<1>1. Typed /\ JobsHold /\ Traced /\ Accounted
  BY DEF Inv
<1>2. JobsHold'
  BY <1>1, JobsSame
<1>3. Traced'
  <2>1. \A n \in asked : OnTheWeb(n) => OnTheWeb(n)'
    BY OnTheWebSame
  <2>2. QED  BY <1>1, <2>1, TracedStep
<1>4. Accounted'
  <2>1. ASSUME NEW n \in Notes, NEW r \in To(n)
        PROVE  copies'[n][r] + Occ(queue, n)' + Cardinality(Owers(n, r)') <= Due(n)' + repeats'[n]
    <3>1. copies[n][r] + Occ(queue, n) + Cardinality(Owers(n, r)) <= Due(n) + repeats[n]
      BY <1>1 DEF Accounted
    <3>2. Cardinality(Owers(n, r)) \in Nat /\ Owers(n, r)' = Owers(n, r)
      BY OwersType DEF Owers
    <3>3. Due(n) \in Nat /\ Due(n)' = Due(n)
      BY DEF Due
    <3>4. copies[n][r] \in Nat /\ repeats[n] \in Nat /\ repeats'[n] \in Nat
      BY <1>1, ToRecipients DEF Typed
    <3>5. Occ(queue, n) \in Nat /\ Occ(queue, n)' \in Nat
      <4>1. queue \in Seq(Notes) /\ queue' \in Seq(Notes)
        BY <1>1 DEF Typed
      <4>2. Occ(queue, n) \in Nat /\ Occ(queue', n) \in Nat
        BY <4>1, OccType
      <4>3. QED  BY <4>2 DEF Occ
    <3>6. Occ(queue, n)' + repeats[n] <= Occ(queue, n) + repeats'[n]
      OBVIOUS
    <3>7. copies[n][r] + Occ(queue, n)' + Cardinality(Owers(n, r)) <= Due(n) + repeats'[n]
      BY <3>1, <3>2, <3>3, <3>4, <3>5, <3>6
    <3>8. copies'[n][r] + Occ(queue, n)' + Cardinality(Owers(n, r)') <= Due(n)' + repeats'[n]
      BY <3>2, <3>3, <3>7
    <3>9. QED  BY <3>8
  <2>2. QED  BY <2>1 DEF Accounted
<1>5. QED  BY <1>2, <1>3, <1>4 DEF Inv

LEMMA SameGrows ==
  ASSUME Typed, copies' = copies, refused' = refused, unrun \subseteq unrun',
         discarded \subseteq discarded', cut \subseteq cut'
  PROVE  Grows
<1>1. \A n \in Notes : \A r \in Recipients : copies'[n][r] >= copies[n][r]
  BY DEF Typed
<1>2. QED  BY <1>1 DEF Grows

\* The queue without its head, which is held.
LEMMA TakenQueue ==
  ASSUME Typed, queue # <<>>, queue' = Tail(queue)
  PROVE  /\ Head(queue) \in Notes /\ queue' \in Seq(Notes)
         /\ \A n : Occ(queue, n)' + Same(Head(queue), n) = Occ(queue, n)
         /\ \A n : Waiting(n) => n = Head(queue) \/ n \in Range(queue') \cup held
<1>1. queue \in Seq(Notes)
  BY DEF Typed
<1>2. Head(queue) \in Notes /\ Tail(queue) \in Seq(Notes)
  BY <1>1
<1>3. ASSUME NEW n
      PROVE  Occ(queue, n)' + Same(Head(queue), n) = Occ(queue, n)
  <2>1. Occ(queue, n) = Occ(Tail(queue), n) + Same(Head(queue), n)
    BY <1>1, OccTail
  <2>2. Occ(queue, n)' = Occ(Tail(queue), n)
    BY DEF Occ
  <2>3. QED  BY <2>1, <2>2
<1>4. ASSUME NEW n, Waiting(n)
      PROVE  n = Head(queue) \/ n \in Range(queue') \cup held
  <2>1. Range(queue) = {Head(queue)} \cup Range(Tail(queue))
    BY <1>1, RangeTail
  <2>2. QED  BY <1>4, <2>1 DEF Waiting
<1>5. QED  BY <1>2, <1>3, <1>4

LEMMA AppendedQueue ==
  ASSUME Typed, NEW m \in Notes, queue' = Append(queue, m)
  PROVE  /\ queue' \in Seq(Notes) /\ Range(queue') = Range(queue) \cup {m}
         /\ \A n : Occ(queue, n)' = Occ(queue, n) + Same(m, n)
<1>1. queue \in Seq(Notes)
  BY DEF Typed
<1>2. queue' \in Seq(Notes) /\ Range(queue') = Range(queue) \cup {m}
  BY <1>1, RangeAppend
<1>3. ASSUME NEW n
      PROVE  Occ(queue, n)' = Occ(queue, n) + Same(m, n)
  <2>1. Occ(Append(queue, m), n) = Occ(queue, n) + Same(m, n)
    BY <1>1, OccAppend
  <2>2. Occ(queue, n)' = Occ(Append(queue, m), n)
    BY DEF Occ
  <2>3. QED  BY <2>1, <2>2
<1>4. QED  BY <1>2, <1>3

LEMMA MovesToStep ==
  ASSUME Typed, NEW w \in Workers, NEW at \in {"top", "broken", "exited"}, MovesTo(w, at)
  PROVE  /\ worker' \in [Workers -> WorkerType]
         /\ Broken' \subseteq Broken \cup {w} /\ (at # "broken" => Broken' \subseteq Broken \ {w})
<1>1. worker[w] \in WorkerType /\ worker' = [worker EXCEPT ![w] = [worker[w] EXCEPT !.at = at]]
  BY DEF Typed, MovesTo
<1>2. [worker[w] EXCEPT !.at = at] \in WorkerType /\ [worker[w] EXCEPT !.at = at].at = at
  BY <1>1 DEF WorkerType
<1>3. worker' \in [Workers -> WorkerType] /\ worker'[w].at = at
      /\ \A v \in Workers \ {w} : worker'[v] = worker[v]
  BY <1>1, <1>2 DEF Typed
<1>4. QED  BY <1>3 DEF Broken

LEMMA UpType ==
  Up \in WorkerType /\ [Up EXCEPT !.at = "exited"] \in WorkerType
  /\ Up.at = "top" /\ [Up EXCEPT !.at = "exited"].at = "exited"
<1>1. Up \in WorkerType /\ Up.at = "top"
  BY TaskWorkerAssumption DEF Up, WorkerType
<1>2. [Up EXCEPT !.at = "exited"] \in WorkerType /\ [Up EXCEPT !.at = "exited"].at = "exited"
  BY <1>1 DEF WorkerType
<1>3. QED  BY <1>1, <1>2

LEMMA ExitsStep ==
  ASSUME Typed, NEW w \in Workers, Exits(w)
  PROVE  worker' \in [Workers -> WorkerType] /\ Broken' \subseteq Broken \ {w}
<1>1. worker' = [worker EXCEPT ![w] = [Up EXCEPT !.at = "exited"]]
  BY DEF Exits
<1>2. worker' \in [Workers -> WorkerType] /\ worker'[w].at = "exited"
      /\ \A v \in Workers \ {w} : worker'[v] = worker[v]
  BY <1>1, UpType DEF Typed
<1>3. QED  BY <1>2 DEF Broken

LEMMA CountsStep ==
  ASSUME Typed, NEW w \in Workers, Counts(w)
  PROVE  worker' \in [Workers -> WorkerType] /\ Broken' \subseteq Broken
<1>1. CASE UNCHANGED worker
  BY <1>1 DEF Typed, Broken
<1>2. CASE Exits(w)
  BY <1>2, ExitsStep
<1>3. CASE worker' = [worker EXCEPT ![w].done = @ + 1] /\ ~(worker[w].done + 1 >= MaxTasks)
  <2>1. worker[w] \in WorkerType
    BY DEF Typed
  <2>2. worker[w].done + 1 \in 0..MaxTasks
    BY <2>1, <1>3, TaskWorkerAssumption DEF WorkerType
  <2>3. worker' = [worker EXCEPT ![w] = [worker[w] EXCEPT !.done = worker[w].done + 1]]
    BY <1>3 DEF Typed
  <2>4. [worker[w] EXCEPT !.done = worker[w].done + 1] \in WorkerType
        /\ [worker[w] EXCEPT !.done = worker[w].done + 1].at = worker[w].at
    BY <2>1, <2>2 DEF WorkerType
  <2>5. worker' \in [Workers -> WorkerType] /\ worker'[w].at = worker[w].at
        /\ \A v \in Workers \ {w} : worker'[v] = worker[v]
    BY <2>3, <2>4 DEF Typed
  <2>6. QED  BY <2>5 DEF Broken
<1>4. QED  BY <1>1, <1>2, <1>3 DEF Counts

LEMMA NothingDoneStep ==
  ASSUME Typed, NEW w \in Workers, NothingDone(w)
  PROVE  worker' \in [Workers -> WorkerType] /\ Broken' \subseteq Broken \ {w}
BY MovesToStep, ExitsStep DEF NothingDone

LEMMA OccSame ==
  ASSUME Typed, queue' = queue, repeats' = repeats
  PROVE  \A n \in Notes : Occ(queue, n)' + repeats[n] <= Occ(queue, n) + repeats'[n]
<1> TAKE n \in Notes
<1>1. Occ(queue, n) \in Nat /\ repeats[n] \in Nat /\ Occ(queue, n)' = Occ(queue, n)
  BY OccType DEF Typed, Occ
<1>2. Occ(queue, n) + repeats[n] <= Occ(queue, n) + repeats[n]
  BY <1>1
<1>3. QED  BY <1>1, <1>2

LEMMA TakenLess ==
  ASSUME Typed, queue # <<>>, queue' = Tail(queue), repeats' = repeats
  PROVE  \A n \in Notes : Occ(queue, n)' + repeats[n] <= Occ(queue, n) + repeats'[n]
<1> TAKE n \in Notes
<1>1. Occ(queue, n)' + Same(Head(queue), n) = Occ(queue, n)
  BY TakenQueue
<1>2. Occ(queue, n)' \in Nat
  <2>1. queue' \in Seq(Notes)
    BY TakenQueue
  <2>2. Occ(queue', n) \in Nat
    BY <2>1, OccType
  <2>3. QED  BY <2>2 DEF Occ
<1>3. repeats[n] \in Nat /\ Same(Head(queue), n) \in Nat
  BY DEF Typed, Same
<1>4. Occ(queue, n)' + repeats[n] <= (Occ(queue, n)' + Same(Head(queue), n)) + repeats[n]
  BY <1>2, <1>3
<1>5. QED  BY <1>1, <1>4

LEMMA ClaimsStep ==
  ASSUME Inv, NEW w \in Workers, NEW n \in Notes, Claims(w, n)
  PROVE  Inv'
<1>1. Typed /\ queue' = Append(queue, n) /\ held' = held \ {n} /\ repeats' = [repeats EXCEPT ![n] = @ + 1]
  BY DEF Inv, Claims
<1>2. UNCHANGED <<disk, asked, copies, refused, cut, loaded, worker, job, unrun, discarded>>
  BY DEF Claims, bodies
<1>3. faults' \in Nat /\ faults' >= faults
  BY <1>1, FaultType DEF Claims
<1>4. /\ queue' \in Seq(Notes) /\ Range(queue') = Range(queue) \cup {n}
      /\ \A m : Occ(queue, m)' = Occ(queue, m) + Same(n, m)
  BY <1>1, AppendedQueue
<1>5. /\ repeats' \in [Notes -> Nat]
      /\ \A m \in Notes : repeats'[m] = repeats[m] + Same(n, m) /\ repeats[m] \in Nat
  BY <1>1 DEF Typed, Same
<1>6. Typed'
  BY <1>1, <1>2, <1>3, <1>4, <1>5 DEF Typed
<1>7. Grows
  BY <1>1, <1>2, SameGrows
<1>8. Paid'
  <2>1. Broken' = Broken
    BY <1>2 DEF Broken
  <2>2. QED  BY <1>2, <1>3, <1>6, <2>1, PaidStill
<1>9. \A m \in asked : Waiting(m) => Waiting(m)'
  BY <1>1, <1>4 DEF Waiting
<1>10. ASSUME NEW m \in Notes
       PROVE  Occ(queue, m)' + repeats[m] <= Occ(queue, m) + repeats'[m]
  <2>1. Occ(queue, m) \in Nat /\ Same(n, m) \in Nat
    BY <1>1, OccType DEF Typed, Same
  <2>2. repeats[m] \in Nat /\ repeats'[m] = repeats[m] + Same(n, m)
    BY <1>5
  <2>3. Occ(queue, m)' = Occ(queue, m) + Same(n, m)
    BY <1>4
  <2>4. (Occ(queue, m) + Same(n, m)) + repeats[m] <= Occ(queue, m) + (repeats[m] + Same(n, m))
    BY <2>1, <2>2
  <2>5. QED  BY <2>2, <2>3, <2>4
<1>11. QED  BY <1>2, <1>6, <1>7, <1>8, <1>9, <1>10, LoopStep

\* A step that leaves the queue, the causes and the tasks alone.
LEMMA QuietStep ==
  ASSUME Inv, UNCHANGED <<queue, held, asked, copies, refused, cut, unrun, discarded, repeats, job>>,
         faults' \in Nat, faults' >= faults, disk' \subseteq Kinds, loaded' \in [Workers -> SUBSET Kinds],
         worker' \in [Workers -> WorkerType], Broken' \subseteq Broken
  PROVE  Inv'
<1>1. Typed
  BY DEF Inv
<1>2. Typed'
  BY <1>1 DEF Typed
<1>3. Grows
  BY <1>1, SameGrows
<1>4. Paid'
  BY <1>2, PaidStill
<1>5. \A n \in asked : Waiting(n) => Waiting(n)'
  BY DEF Waiting
<1>6. \A n \in Notes : Occ(queue, n)' + repeats[n] <= Occ(queue, n) + repeats'[n]
  BY <1>1, OccSame
<1>7. QED  BY <1>2, <1>3, <1>4, <1>5, <1>6, LoopStep

LEMMA LeavesStep ==
  ASSUME Inv, NEW w \in Workers, FindsNothing(w) \/ Stops(w)
  PROVE  Inv'
<1>1. Typed /\ Exits(w)
  BY DEF Inv, FindsNothing, Stops
<1>2. UNCHANGED <<queue, held, asked, copies, refused, cut, unrun, discarded, repeats, job,
                  disk, loaded, faults>>
  BY DEF FindsNothing, Stops, bodies, delivery
<1>3. worker' \in [Workers -> WorkerType] /\ Broken' \subseteq Broken
  BY <1>1, ExitsStep
<1>4. faults' \in Nat /\ faults' >= faults /\ disk' \subseteq Kinds /\ loaded' \in [Workers -> SUBSET Kinds]
  BY <1>1, <1>2 DEF Typed
<1>5. QED  BY <1>2, <1>3, <1>4, QuietStep

LEMMA SignalsStep ==
  ASSUME Inv, NEW w \in Workers, Signals(w)
  PROVE  Inv'
<1>1. Typed /\ worker' = [worker EXCEPT ![w].stop = TRUE]
  BY DEF Inv, Signals
<1>2. UNCHANGED <<queue, held, asked, copies, refused, cut, unrun, discarded, repeats, job,
                  disk, loaded, faults>>
  BY DEF Signals, bodies, delivery
<1>3. worker' \in [Workers -> WorkerType] /\ Broken' \subseteq Broken
  <2>1. worker[w] \in WorkerType /\ worker' = [worker EXCEPT ![w] = [worker[w] EXCEPT !.stop = TRUE]]
    BY <1>1 DEF Typed
  <2>2. [worker[w] EXCEPT !.stop = TRUE] \in WorkerType
        /\ [worker[w] EXCEPT !.stop = TRUE].at = worker[w].at
    BY <2>1 DEF WorkerType
  <2>3. worker' \in [Workers -> WorkerType] /\ worker'[w].at = worker[w].at
        /\ \A v \in Workers \ {w} : worker'[v] = worker[v]
    BY <1>1, <2>1, <2>2 DEF Typed
  <2>4. QED  BY <2>3 DEF Broken
<1>4. faults' \in Nat /\ faults' >= faults /\ disk' \subseteq Kinds /\ loaded' \in [Workers -> SUBSET Kinds]
  BY <1>1, <1>2 DEF Typed
<1>5. QED  BY <1>2, <1>3, <1>4, QuietStep

LEMMA ReleasesStep ==
  ASSUME Inv, Releases
  PROVE  Inv'
<1>1. Typed /\ disk' \subseteq Kinds
  BY DEF Inv, Releases, Kinds
<1>2. UNCHANGED <<queue, held, asked, copies, refused, cut, unrun, discarded, repeats, job,
                  loaded, worker, faults>>
  BY DEF Releases, delivery
<1>3. worker' \in [Workers -> WorkerType] /\ Broken' \subseteq Broken
  BY <1>1, <1>2 DEF Typed, Broken
<1>4. faults' \in Nat /\ faults' >= faults /\ loaded' \in [Workers -> SUBSET Kinds]
  BY <1>1, <1>2 DEF Typed
<1>5. QED  BY <1>1, <1>2, <1>3, <1>4, QuietStep

LEMMA RestartsStep ==
  ASSUME Inv, NEW w \in Workers, Restarts(w)
  PROVE  Inv'
<1>1. Typed /\ worker' = [worker EXCEPT ![w] = Up] /\ loaded' = [loaded EXCEPT ![w] = disk]
  BY DEF Inv, Restarts
<1>2. UNCHANGED <<queue, held, asked, copies, refused, cut, unrun, discarded, repeats, job,
                  disk, faults>>
  BY DEF Restarts, bodies, delivery
<1>3. worker' \in [Workers -> WorkerType] /\ Broken' \subseteq Broken
  <2>1. worker' \in [Workers -> WorkerType] /\ worker'[w].at = "top"
        /\ \A v \in Workers \ {w} : worker'[v] = worker[v]
    BY <1>1, UpType DEF Typed
  <2>2. QED  BY <2>1 DEF Broken
<1>4. faults' \in Nat /\ faults' >= faults /\ disk' \subseteq Kinds
  BY <1>1, <1>2 DEF Typed
<1>5. loaded' \in [Workers -> SUBSET Kinds]
  BY <1>1 DEF Typed
<1>6. QED  BY <1>2, <1>3, <1>4, <1>5, QuietStep

LEMMA RaisesStep ==
  ASSUME Inv, NEW w \in Workers, Raises(w)
  PROVE  Inv'
<1>1. Typed /\ Fault /\ MovesTo(w, "broken")
  BY DEF Inv, Raises
<1>2. UNCHANGED <<disk, asked, copies, refused, cut, loaded, job, unrun, discarded, repeats>>
  BY DEF Raises, bodies
<1>3. \/ queue' = queue /\ held' = held
      \/ queue # <<>> /\ queue' = Tail(queue) /\ held' = held \cup {Head(queue)}
  BY DEF Raises, delivery
<1>4. faults' \in Nat /\ faults' >= faults
  BY <1>1, FaultType
<1>5. worker' \in [Workers -> WorkerType] /\ Broken' \subseteq Broken \cup {w}
  BY <1>1, MovesToStep
<1>6. queue' \in Seq(Notes) /\ held' \subseteq Notes
  BY <1>1, <1>3, TakenQueue DEF Typed
<1>7. Typed'
  BY <1>1, <1>2, <1>4, <1>5, <1>6 DEF Typed
<1>8. Grows
  BY <1>1, <1>2, SameGrows
<1>9. Paid'
  BY <1>1, <1>2, <1>5, <1>7, PaidForBroken
<1>10. \A n \in asked : Waiting(n) => Waiting(n)'
  BY <1>1, <1>3, TakenQueue DEF Waiting
<1>11. \A n \in Notes : Occ(queue, n)' + repeats[n] <= Occ(queue, n) + repeats'[n]
  <2>1. CASE queue' = queue
    BY <1>1, <1>2, <2>1, OccSame
  <2>2. CASE queue # <<>> /\ queue' = Tail(queue)
    BY <1>1, <1>2, <2>2, TakenLess
  <2>3. QED  BY <1>3, <2>1, <2>2
<1>12. QED  BY <1>2, <1>7, <1>8, <1>9, <1>10, <1>11, LoopStep

LEMMA AcknowledgesNextStep ==
  ASSUME Inv, NEW w \in Workers, AcknowledgesNext(w)
  PROVE  Inv'
<1>1. Typed /\ w \in Broken /\ NothingDone(w)
  BY DEF Inv, AcknowledgesNext, Broken
<1>2. UNCHANGED <<disk, asked, copies, refused, cut, loaded, job, discarded, repeats>>
  BY DEF AcknowledgesNext, bodies
<1>3. worker' \in [Workers -> WorkerType] /\ Broken' \subseteq Broken \ {w} /\ Broken' \subseteq Broken
  BY <1>1, NothingDoneStep
<1>4. \/ UNCHANGED <<queue, held, unrun>> /\ (Fault \/ NoFault)
      \/ queue # <<>> /\ AcksUnrun /\ held' = held /\ NoFault
      \/ /\ queue # <<>> /\ Fault /\ queue' = Tail(queue) /\ held' = held \cup {Head(queue)}
         /\ unrun' = unrun
  BY DEF AcknowledgesNext, delivery, NoFault
<1>5. faults' \in Nat /\ faults' >= faults
  BY <1>1, <1>4, FaultType
<1>6. CASE UNCHANGED <<queue, held, unrun>>
  <2>1. disk' \subseteq Kinds /\ loaded' \in [Workers -> SUBSET Kinds]
    BY <1>1, <1>2 DEF Typed
  <2>2. QED  BY <1>2, <1>3, <1>5, <1>6, <2>1, QuietStep
<1>7. CASE queue # <<>> /\ AcksUnrun /\ held' = held /\ NoFault
  <2>1. queue' = Tail(queue) /\ unrun' = unrun \cup {Head(queue)} /\ faults' = faults
    BY <1>7 DEF AcksUnrun, NoFault
  <2>2. Head(queue) \in Notes /\ queue' \in Seq(Notes)
    BY <1>1, <1>7, <2>1, TakenQueue
  <2>3. IsFiniteSet(unrun') /\ unrun' \subseteq Notes
    BY <1>1, <2>1, <2>2, FS_AddElement DEF Typed
  <2>4. Typed'
    BY <1>1, <1>2, <1>3, <1>5, <1>7, <2>2, <2>3 DEF Typed
  <2>5. Grows
    BY <1>1, <1>2, <2>1, SameGrows
  <2>6. Paid'
    BY <1>1, <1>3, <2>1, <2>4, PaidForUnrun
  <2>7. ASSUME NEW n \in asked, Waiting(n)
        PROVE  Waiting(n)' \/ Settled(n)'
    <3>1. n = Head(queue) \/ n \in Range(queue') \cup held
      BY <1>1, <1>7, <2>1, <2>7, TakenQueue
    <3>2. CASE n = Head(queue)
      BY <2>1, <3>2 DEF Settled, Explained
    <3>3. CASE n \in Range(queue') \cup held
      BY <1>7, <3>3 DEF Waiting
    <3>4. QED  BY <3>1, <3>2, <3>3
  <2>8. \A n \in Notes : Occ(queue, n)' + repeats[n] <= Occ(queue, n) + repeats'[n]
    BY <1>1, <1>2, <1>7, <2>1, TakenLess
  <2>9. QED  BY <1>2, <2>4, <2>5, <2>6, <2>7, <2>8, LoopStep
<1>8. CASE /\ queue # <<>> /\ Fault /\ queue' = Tail(queue) /\ held' = held \cup {Head(queue)}
           /\ unrun' = unrun
  <2>1. queue' \in Seq(Notes) /\ held' \subseteq Notes
    BY <1>1, <1>8, TakenQueue DEF Typed
  <2>2. Typed'
    BY <1>1, <1>2, <1>3, <1>5, <1>8, <2>1 DEF Typed
  <2>3. Grows
    BY <1>1, <1>2, <1>8, SameGrows
  <2>4. Paid'
    BY <1>3, <1>5, <1>8, <2>2, PaidStill
  <2>5. \A n \in asked : Waiting(n) => Waiting(n)'
    BY <1>1, <1>8, TakenQueue DEF Waiting
  <2>6. \A n \in Notes : Occ(queue, n)' + repeats[n] <= Occ(queue, n) + repeats'[n]
    BY <1>1, <1>2, <1>8, TakenLess
  <2>7. QED  BY <1>2, <2>2, <2>3, <2>4, <2>5, <2>6, LoopStep
<1>9. QED  BY <1>4, <1>6, <1>7, <1>8

\* A thread that is about to begin a notice.
LEMMA BegunJob ==
  ASSUME Typed, NEW t \in Threads, NEW n \in Notes
  PROVE  \E j \in JobType :
           /\ Begins(t, n) => job' = [job EXCEPT ![t] = j]
           /\ j.note = n /\ j.left = To(n) /\ j.at # "idle" /\ JobHolds(j) /\ JobHolds(j)'
<1>1. PICK j : j = [at |-> Kind(n), note |-> n, attempt |-> 1, plain |-> FALSE, left |-> To(n), count |-> 0]
  OBVIOUS
<1>2. /\ j.at = Kind(n) /\ j.note = n /\ j.left = To(n) /\ j.count = 0
  BY <1>1
<1>3. Kind(n) \in {"telegram", "broadcast"}
  BY DEF Kind
<1>4. j \in JobType
  <2>1. 1 \in 0..MaxRetries
    BY TaskWorkerAssumption
  <2>2. To(n) \in SUBSET Recipients
    BY ToRecipients
  <2>3. QED  BY <1>1, <1>3, <2>1, <2>2 DEF JobType
<1>5. Begins(t, n) => job' = [job EXCEPT ![t] = j]
  BY <1>1 DEF Begins
<1>6. IsFiniteSet(Served(j)) /\ IsFiniteSet(Served(j)')
      /\ Cardinality(Served(j)) \in Nat /\ Cardinality(Served(j)') \in Nat
  BY TaskWorkerAssumption, FS_Subset, FS_CardinalityType DEF Served
<1>7. j.count <= Cardinality(Served(j)) /\ j.count <= Cardinality(Served(j)')
  BY <1>2, <1>6
<1>8. CASE n \in Posts
  <2>1. j.at = "telegram" /\ j.left = {Chat}
    BY <1>2, <1>8 DEF Kind, To
  <2>2. JobHolds(j) /\ JobHolds(j)'
    BY <1>2, <1>8, <2>1 DEF JobHolds
  <2>3. QED  BY <1>2, <1>4, <1>5, <2>1, <2>2
<1>9. CASE n \notin Posts
  <2>1. j.at = "broadcast" /\ j.left = Users /\ n \in Broadcasts
    BY <1>2, <1>9 DEF Kind, To, Notes
  <2>2. JobHolds(j) /\ JobHolds(j)'
    BY <1>2, <1>7, <2>1 DEF JobHolds
  <2>3. QED  BY <1>2, <1>4, <1>5, <2>1, <2>2
<1>10. QED  BY <1>8, <1>9

LEMMA IdleType == Idle \in JobType
BY TaskWorkerAssumption DEF Idle, JobType

LEMMA IdleJob ==
  ASSUME Inv, NEW t \in Threads, job[t].at \in {"idle", "over"}
  PROVE  /\ job[t] \in JobType /\ job[t].left = {}
         /\ \A n, r : Debt(job[t], n, r) = 0
         /\ job[t].at = "over" => job[t].note \in Notes /\ Settled(job[t].note)
<1>1. job[t] \in JobType /\ JobHolds(job[t])
  BY DEF Inv, Typed, JobsHold
<1>2. job[t].left = {} /\ (job[t].at = "over" => job[t].note \in Notes /\ Settled(job[t].note))
  BY <1>1 DEF JobHolds
<1>3. QED  BY <1>1, <1>2, NoDebt

LEMMA OnOtherThreads ==
  ASSUME Typed, NEW t \in Threads, NEW j, job' = [job EXCEPT ![t] = j], NEW n, OnTheWeb(n)
  PROVE  OnTheWeb(n)' \/ (t \in Web /\ job[t].note = n /\ job[t].at # "idle")
<1>1. PICK s \in Web : job[s].at # "idle" /\ job[s].note = n
  BY DEF OnTheWeb
<1>2. s \in Threads /\ (s # t => job'[s] = job[s])
  BY DEF Typed, Threads
<1>3. QED  BY <1>1, <1>2 DEF OnTheWeb

LEMMA TakesStep ==
  ASSUME Inv, NEW w \in Workers, Takes(w)
  PROVE  Inv'
<1>1. /\ Typed /\ queue # <<>> /\ queue' = Tail(queue) /\ held' = held \cup {Head(queue)}
      /\ job[w].at = "idle" /\ Resolves(w, Head(queue)) /\ w \in Threads
  BY DEF Inv, Takes, Loops, Threads
<1>2. UNCHANGED <<disk, asked, copies, refused, cut, worker, unrun, repeats, faults>>
  BY DEF Takes, bodies
<1>3. PICK m \in Notes : m = Head(queue)
  BY <1>1, TakenQueue
<1>4. /\ queue' \in Seq(Notes)
      /\ \A n : Occ(queue, n)' + Same(m, n) = Occ(queue, n)
      /\ \A n : Waiting(n) => Waiting(n)'
  BY <1>1, <1>3, TakenQueue DEF Waiting
<1>5. loaded' \in [Workers -> SUBSET Kinds] /\ discarded \subseteq discarded'
  BY <1>1 DEF Resolves, Typed
<1>6. PICK j \in JobType :
        /\ job' = [job EXCEPT ![w] = j] /\ j.note = m /\ j.left \subseteq To(m)
        /\ JobHolds(j)' \/ (j = Ended(w, m) /\ m \in discarded')
  <2>1. CASE Begins(w, m)
    BY <1>1, <2>1, BegunJob
  <2>2. CASE job' = [job EXCEPT ![w] = [Idle EXCEPT !.at = "over", !.note = m]]
             /\ discarded' = discarded \cup {m}
    <3>1. PICK j \in JobType : j = Ended(w, m)
      BY <1>1, EndedJob
    <3>2. j.note = m /\ j.left = {} /\ job' = [job EXCEPT ![w] = j]
      BY <2>2, <3>1 DEF Ended, Idle
    <3>3. QED  BY <2>2, <3>1, <3>2
  <2>3. QED  BY <1>1, <1>3, <2>1, <2>2 DEF Resolves
<1>7. Typed'
  <2>1. held' \subseteq Notes
    BY <1>1, <1>3 DEF Typed
  <2>2. job' \in [Threads -> JobType]
    BY <1>1, <1>6 DEF Typed
  <2>3. QED  BY <1>1, <1>2, <1>4, <1>5, <2>1, <2>2 DEF Typed
<1>8. Grows
  BY <1>1, <1>2, <1>5, SameGrows
<1>9. JobHolds(j)'
  <2>1. CASE j = Ended(w, m) /\ m \in discarded'
    <3>1. Settled(m)'
      BY <2>1 DEF Settled, Explained
    <3>2. JobHolds(Ended(w, m))'
      BY <1>1, <3>1, EndedJob
    <3>3. QED  BY <2>1, <3>2
  <2>2. QED  BY <1>6, <2>1
<1>10. Paid'
  <2>1. Broken' = Broken /\ faults' >= faults
    BY <1>1, <1>2 DEF Broken, Typed
  <2>2. QED  BY <1>2, <1>7, <2>1, PaidStill
<1>11. Traced'
  <2>1. \A n \in asked : OnTheWeb(n) => OnTheWeb(n)'
    BY <1>1, <1>6, OnOtherThreads
  <2>2. Traced
    BY DEF Inv
  <2>3. QED  BY <1>1, <1>2, <1>4, <1>7, <1>8, <2>1, <2>2, TracedStep
<1>12. ASSUME NEW n \in Notes, NEW r \in To(n)
       PROVE  Occ(queue, n)' + Debt(j, n, r) + Due(n) + repeats[n]
                <= Occ(queue, n) + Debt(job[w], n, r) + Due(n)' + repeats'[n]
  <2>1. Debt(j, n, r) <= Same(m, n) /\ Debt(j, n, r) \in Nat /\ Same(m, n) \in Nat
    BY <1>6 DEF Debt, Same
  <2>2. Occ(queue, n)' + Same(m, n) = Occ(queue, n)
    BY <1>4
  <2>3. Occ(queue, n)' \in Nat
    <3>1. Occ(queue', n) \in Nat
      BY <1>4, OccType
    <3>2. QED  BY <3>1 DEF Occ
  <2>4. Debt(job[w], n, r) = 0 /\ Due(n)' = Due(n) /\ Due(n) \in Nat /\ repeats'[n] = repeats[n]
        /\ repeats[n] \in Nat
    BY <1>1, <1>2, IdleJob DEF Due, Typed
  <2>5. Occ(queue, n)' + Debt(j, n, r) + Due(n) + repeats[n]
          <= (Occ(queue, n)' + Same(m, n)) + 0 + Due(n) + repeats[n]
    BY <2>1, <2>3, <2>4
  <2>6. QED  BY <2>2, <2>4, <2>5
<1>13. QED  BY <1>1, <1>2, <1>6, <1>7, <1>8, <1>9, <1>10, <1>11, <1>12, AroundStep

\* A step that puts a thread to rest which owes nothing, or dies.
LEMMA RestStep ==
  ASSUME Inv, NEW t \in Threads, job' = [job EXCEPT ![t] = Idle],
         UNCHANGED <<queue, disk, loaded, asked, copies, refused, unrun, discarded, repeats>>,
         held' \subseteq held, cut \subseteq cut', faults' \in Nat,
         worker' \in [Workers -> WorkerType], Paid',
         \A n \in asked : Waiting(n) => Waiting(n)' \/ Settled(n),
         t \in Web /\ job[t].at # "idle" => job[t].note \in cut'
  PROVE  Inv'
<1>1. Typed /\ Traced
  BY DEF Inv
<1>2. PICK j \in JobType : j = Idle
  BY IdleType
<1>3. j.at = "idle" /\ j.left = {} /\ j.count = 0
  BY <1>2 DEF Idle
<1>4. job' = [job EXCEPT ![t] = j]
  BY <1>2
<1>5. Typed'
  <2>1. job' \in [Threads -> JobType]
    BY <1>1, <1>4 DEF Typed
  <2>2. QED  BY <1>1, <2>1 DEF Typed
<1>6. Grows
  BY <1>1, SameGrows
<1>7. JobHolds(j)'
  BY <1>3 DEF JobHolds
<1>8. Traced'
  <2>1. \A n \in asked : Waiting(n) => Waiting(n)' \/ Settled(n)'
    BY <1>1, <1>5, <1>6, SettledKept DEF Typed
  <2>2. ASSUME NEW n \in asked, OnTheWeb(n)
        PROVE  OnTheWeb(n)' \/ Settled(n)'
    <3>1. OnTheWeb(n)' \/ (t \in Web /\ job[t].note = n /\ job[t].at # "idle")
      BY <1>1, <1>4, <2>2, OnOtherThreads
    <3>2. CASE t \in Web /\ job[t].note = n /\ job[t].at # "idle"
      BY <3>2 DEF Settled, Explained
    <3>3. QED  BY <3>1, <3>2
  <2>3. QED  BY <1>1, <1>5, <1>6, <2>1, <2>2, TracedStep
<1>9. ASSUME NEW n \in Notes, NEW r \in To(n)
      PROVE  Occ(queue, n)' + Debt(j, n, r) + Due(n) + repeats[n]
                <= Occ(queue, n) + Debt(job[t], n, r) + Due(n)' + repeats'[n]
  <2>1. Occ(queue, n)' = Occ(queue, n) /\ Due(n)' = Due(n) /\ repeats'[n] = repeats[n]
    BY DEF Occ, Due
  <2>2. Occ(queue, n) \in Nat /\ Due(n) \in Nat /\ repeats[n] \in Nat
    BY <1>1, OccType DEF Due, Typed
  <2>3. Debt(j, n, r) = 0 /\ Debt(job[t], n, r) \in Nat
    BY <1>3 DEF Debt
  <2>4. Occ(queue, n) + 0 + Due(n) + repeats[n] <= Occ(queue, n) + Debt(job[t], n, r) + Due(n) + repeats[n]
    BY <2>2, <2>3
  <2>5. QED  BY <2>1, <2>3, <2>4
<1>10. QED  BY <1>4, <1>5, <1>6, <1>7, <1>8, <1>9, AroundStep

LEMMA AcknowledgesStep ==
  ASSUME Inv, NEW w \in Workers, Acknowledges(w)
  PROVE  Inv'
<1>1. Typed /\ job[w].at = "over" /\ job' = [job EXCEPT ![w] = Idle] /\ w \in Threads /\ w \notin Web
  BY TaskWorkerAssumption DEF Inv, Acknowledges, Threads
<1>2. UNCHANGED <<queue, disk, loaded, asked, copies, refused, cut, unrun, discarded, repeats>>
  BY DEF Acknowledges, bodies
<1>3. \/ held' = held \ {job[w].note} /\ Counts(w) /\ faults' = faults
      \/ Fault /\ MovesTo(w, "broken") /\ held' = held
  BY DEF Acknowledges
<1>4. Settled(job[w].note)
  BY <1>1, IdleJob
<1>5. held' \subseteq held /\ \A n \in asked : Waiting(n) => Waiting(n)' \/ Settled(n)
  <2>1. held' \subseteq held /\ held \ {job[w].note} \subseteq held'
    BY <1>3
  <2>2. ASSUME NEW n \in asked, Waiting(n)
        PROVE  Waiting(n)' \/ Settled(n)
    <3>1. CASE n = job[w].note
      BY <1>4, <3>1
    <3>2. CASE n # job[w].note
      BY <1>2, <2>1, <2>2, <3>2 DEF Waiting
    <3>3. QED  BY <3>1, <3>2
  <2>3. QED  BY <2>1, <2>2
<1>6. faults' \in Nat /\ faults' >= faults
  BY <1>1, <1>3, FaultType DEF NoFault
<1>7. worker' \in [Workers -> WorkerType]
  BY <1>1, <1>3, CountsStep, MovesToStep
<1>8. Typed'
  <2>1. job' \in [Threads -> JobType]
    BY <1>1, IdleType DEF Typed
  <2>2. QED  BY <1>1, <1>2, <1>5, <1>6, <1>7, <2>1 DEF Typed
<1>9. Paid'
  <2>1. CASE Counts(w) /\ faults' = faults
    <3>1. Broken' \subseteq Broken
      BY <1>1, <2>1, CountsStep
    <3>2. QED  BY <1>2, <1>6, <1>8, <3>1, PaidStill
  <2>2. CASE Fault /\ MovesTo(w, "broken")
    <3>1. Broken' \subseteq Broken \cup {w}
      BY <1>1, <2>2, MovesToStep
    <3>2. QED  BY <1>2, <1>8, <2>2, <3>1, PaidForBroken
  <2>3. QED  BY <1>3, <2>1, <2>2
<1>10. QED  BY <1>1, <1>2, <1>5, <1>6, <1>7, <1>9, RestStep

LEMMA DiesStep ==
  ASSUME Inv, NEW t \in Threads, Dies(t)
  PROVE  Inv'
<1>1. Typed /\ Fault /\ job' = [job EXCEPT ![t] = Idle]
  BY DEF Inv, Dies
<1>2. UNCHANGED <<queue, held, disk, loaded, asked, copies, refused, unrun, discarded, repeats>>
  BY DEF Dies, delivery
<1>3. \/ t \in Workers /\ Exits(t) /\ cut' = cut
      \/ t \in Web /\ cut' = cut \cup {job[t].note} /\ worker' = worker
  BY DEF Dies
<1>4. faults' \in Nat /\ faults' >= faults
  BY <1>1, FaultType
<1>5. worker' \in [Workers -> WorkerType] /\ Broken' \subseteq Broken
  <2>1. CASE t \in Workers /\ Exits(t)
    BY <1>1, <2>1, ExitsStep
  <2>2. CASE worker' = worker
    BY <1>1, <2>2 DEF Typed, Broken
  <2>3. QED  BY <1>3, <2>1, <2>2
<1>6. Typed'
  <2>1. job' \in [Threads -> JobType]
    BY <1>1, IdleType DEF Typed
  <2>2. QED  BY <1>1, <1>2, <1>4, <1>5, <2>1 DEF Typed
<1>7. Paid'
  BY <1>2, <1>4, <1>5, <1>6, PaidStill
<1>8. \A n \in asked : Waiting(n) => Waiting(n)' \/ Settled(n)
  BY <1>2 DEF Waiting
<1>9. cut \subseteq cut' /\ (t \in Web /\ job[t].at # "idle" => job[t].note \in cut')
  BY <1>3, TaskWorkerAssumption
<1>10. QED  BY <1>1, <1>2, <1>4, <1>5, <1>7, <1>8, <1>9, RestStep

-----------------------------------------------------------------------------
(* The web asks *)

\* A notice that was not asked for yet.
LEMMA AskedStep ==
  ASSUME Inv, NEW t \in Web, NEW n \in Notes \ asked, asked' = asked \cup {n},
         UNCHANGED <<held, disk, loaded, worker, copies, unrun, discarded, refused>>,
         faults' \in Nat, faults' >= faults, cut \subseteq cut', repeats' \in [Notes -> Nat],
         queue' \in Seq(Notes), Range(queue) \subseteq Range(queue'),
         NEW j \in JobType, job' = [job EXCEPT ![t] = j], job[t].at = "idle",
         j = job[t] \/ (j.note = n /\ j.at # "idle" /\ JobHolds(j)),
         n \in Range(queue') \cup cut' \/ (j.note = n /\ j.at # "idle"),
         \A m \in Notes : \A r \in To(m) :
           Occ(queue, m)' + Debt(j, m, r) + repeats[m] <= Occ(queue, m) + Same(n, m) + repeats'[m]
  PROVE  Inv'
<1>1. Typed /\ Traced /\ t \in Threads
  BY DEF Inv, Threads
<1>2. Typed'
  <2>1. job' \in [Threads -> JobType]
    BY <1>1 DEF Typed
  <2>2. QED  BY <1>1, <2>1 DEF Typed
<1>3. Grows
  BY <1>1, SameGrows
<1>4. JobHolds(j)'
  <2>1. JobHolds(j)
    <3>1. JobHolds(job[t])
      BY <1>1 DEF Inv, JobsHold
    <3>2. QED  BY <3>1
  <2>2. QED  BY <1>1, <1>2, <1>3, <2>1, JobKept
<1>5. Paid'
  <2>1. Broken' = Broken
    BY DEF Broken
  <2>2. QED  BY <1>2, <2>1, PaidStill
<1>6. Traced'
  <2>1. ASSUME NEW m \in asked
        PROVE  Waiting(m)' \/ OnTheWeb(m)' \/ Settled(m)'
    <3>1. Waiting(m) => Waiting(m)'
      BY DEF Waiting
    <3>2. OnTheWeb(m) => OnTheWeb(m)'
      BY <1>1, OnOtherThreads
    <3>3. Settled(m) => Settled(m)'
      BY <1>1, <1>2, <1>3, SettledKept DEF Typed
    <3>4. QED  BY <1>1, <3>1, <3>2, <3>3 DEF Traced
  <2>2. Waiting(n)' \/ OnTheWeb(n)' \/ Settled(n)'
    <3>1. CASE n \in Range(queue')
      BY <3>1 DEF Waiting
    <3>2. CASE n \in cut'
      BY <3>2 DEF Settled, Explained
    <3>3. CASE j.note = n /\ j.at # "idle"
      <4>1. job'[t] = j
        BY <1>1 DEF Typed
      <4>2. QED  BY <3>3, <4>1 DEF OnTheWeb
    <3>4. QED  BY <3>1, <3>2, <3>3
  <2>3. ASSUME NEW m \in asked'
        PROVE  Waiting(m)' \/ OnTheWeb(m)' \/ Settled(m)'
    <3>1. CASE m \in asked
      BY <2>1, <3>1
    <3>2. CASE m = n
      BY <2>2, <3>2
    <3>3. QED  BY <3>1, <3>2
  <2>4. QED  BY <2>3 DEF Traced
<1>7. ASSUME NEW m \in Notes, NEW r \in To(m)
      PROVE  Occ(queue, m)' + Debt(j, m, r) + Due(m) + repeats[m]
                <= Occ(queue, m) + Debt(job[t], m, r) + Due(m)' + repeats'[m]
  <2>1. Debt(job[t], m, r) = 0
    BY <1>1, IdleJob
  <2>2. Due(m) \in Nat /\ Same(n, m) \in Nat
    BY DEF Due, Same
  <2>3. Due(m)' = Due(m) + Same(n, m)
    BY DEF Due, Same
  <2>4. Occ(queue, m) \in Nat /\ Occ(queue, m)' \in Nat
    <3>1. Occ(queue, m) \in Nat /\ Occ(queue', m) \in Nat
      BY <1>1, OccType DEF Typed
    <3>2. QED  BY <3>1 DEF Occ
  <2>5. repeats[m] \in Nat /\ repeats'[m] \in Nat /\ Debt(j, m, r) \in Nat
    BY <1>1 DEF Typed, Debt
  <2>6. Occ(queue, m)' + Debt(j, m, r) + repeats[m] <= Occ(queue, m) + Same(n, m) + repeats'[m]
    OBVIOUS
  <2>7. Occ(queue, m)' + Debt(j, m, r) + Due(m) + repeats[m]
          <= Occ(queue, m) + 0 + (Due(m) + Same(n, m)) + repeats'[m]
    BY <2>2, <2>4, <2>5, <2>6, SMTT(60)
  <2>8. QED  BY <2>1, <2>3, <2>7
<1>8. QED  BY <1>1, <1>2, <1>3, <1>4, <1>5, <1>6, <1>7, AroundStep

\* The message is in the queue.
LEMMA QueuedStep ==
  ASSUME Inv, NEW t \in Web, NEW n \in Notes \ asked, job[t].at = "idle", asked' = asked \cup {n},
         UNCHANGED <<held, disk, loaded, worker, copies, unrun, discarded, refused>>,
         UNCHANGED <<job, cut, repeats, faults>>, queue' = Append(queue, n)
  PROVE  Inv'
<1>1. Typed /\ t \in Threads
  BY DEF Inv, Threads
<1>2. PICK j \in JobType : j = job[t]
  BY <1>1 DEF Typed
<1>3. job' = [job EXCEPT ![t] = j]
  BY <1>1, <1>2 DEF Typed
<1>4. /\ queue' \in Seq(Notes) /\ Range(queue') = Range(queue) \cup {n}
      /\ \A m : Occ(queue, m)' = Occ(queue, m) + Same(n, m)
  BY <1>1, AppendedQueue
<1>5. faults' \in Nat /\ faults' >= faults /\ repeats' \in [Notes -> Nat]
  BY <1>1 DEF Typed
<1>6. ASSUME NEW m \in Notes, NEW r \in To(m)
      PROVE  Occ(queue, m)' + Debt(j, m, r) + repeats[m] <= Occ(queue, m) + Same(n, m) + repeats'[m]
  <2>1. Debt(j, m, r) = 0
    BY <1>1, <1>2, IdleJob
  <2>2. Occ(queue, m) \in Nat /\ Same(n, m) \in Nat /\ repeats[m] \in Nat
    BY <1>1, OccType DEF Typed, Same
  <2>3. (Occ(queue, m) + Same(n, m)) + 0 + repeats[m] <= Occ(queue, m) + Same(n, m) + repeats[m]
    BY <2>2
  <2>4. QED  BY <1>4, <2>1, <2>3
<1>7. QED  BY <1>1, <1>2, <1>3, <1>4, <1>5, <1>6, AskedStep

LEMMA AsksBroadcastStep ==
  ASSUME Inv, NEW t \in Web, NEW n \in Notes, AsksBroadcast(t, n)
  PROVE  Inv'
<1>1. n \in Notes \ asked /\ job[t].at = "idle" /\ asked' = asked \cup {n} /\ queue' = Append(queue, n)
  BY DEF AsksBroadcast
<1>2. /\ UNCHANGED <<held, disk, loaded, worker, copies, unrun, discarded, refused>>
      /\ UNCHANGED <<job, cut, repeats, faults>>
  BY DEF AsksBroadcast
<1>3. QED  BY <1>1, <1>2, QueuedStep

\* The web thread runs the task itself; the message may be in the queue as well.
LEMMA FallbackStep ==
  ASSUME Inv, NEW t \in Web, NEW n \in Notes \ asked, job[t].at = "idle", asked' = asked \cup {n},
         UNCHANGED <<held, disk, loaded, worker, copies, unrun, discarded, refused, cut>>,
         Fault, Begins(t, n),
         \/ queue' = queue /\ repeats' = repeats
         \/ queue' = Append(queue, n) /\ repeats' = [repeats EXCEPT ![n] = @ + 1]
  PROVE  Inv'
<1>1. Typed /\ t \in Threads /\ faults' \in Nat /\ faults' >= faults
  BY FaultType DEF Inv, Threads
<1>2. PICK j \in JobType :
        job' = [job EXCEPT ![t] = j] /\ j.note = n /\ j.left = To(n) /\ j.at # "idle" /\ JobHolds(j)
  BY <1>1, BegunJob
<1>3. \A m \in Notes : \A r \in To(m) : Debt(j, m, r) <= Same(n, m) /\ Debt(j, m, r) \in Nat
  BY <1>2 DEF Debt, Same
<1>4. \A m \in Notes : Occ(queue, m) \in Nat /\ Same(n, m) \in Nat /\ repeats[m] \in Nat
  BY <1>1, OccType DEF Typed, Same
<1>5. CASE queue' = queue /\ repeats' = repeats
  <2>1. queue' \in Seq(Notes) /\ Range(queue) \subseteq Range(queue') /\ repeats' \in [Notes -> Nat]
    BY <1>1, <1>5 DEF Typed
  <2>2. ASSUME NEW m \in Notes, NEW r \in To(m)
        PROVE  Occ(queue, m)' + Debt(j, m, r) + repeats[m] <= Occ(queue, m) + Same(n, m) + repeats'[m]
    <3>1. Occ(queue, m)' = Occ(queue, m)
      BY <1>5 DEF Occ
    <3>2. Occ(queue, m) + Debt(j, m, r) + repeats[m] <= Occ(queue, m) + Same(n, m) + repeats[m]
      BY <1>3, <1>4
    <3>3. QED  BY <1>5, <3>1, <3>2
  <2>3. QED  BY <1>1, <1>2, <2>1, <2>2, AskedStep
<1>6. CASE queue' = Append(queue, n) /\ repeats' = [repeats EXCEPT ![n] = @ + 1]
  <2>1. /\ queue' \in Seq(Notes) /\ Range(queue') = Range(queue) \cup {n}
        /\ \A m : Occ(queue, m)' = Occ(queue, m) + Same(n, m)
    BY <1>1, <1>6, AppendedQueue
  <2>2. repeats' \in [Notes -> Nat] /\ \A m \in Notes : repeats'[m] = repeats[m] + Same(n, m)
    BY <1>1, <1>6 DEF Typed, Same
  <2>3. ASSUME NEW m \in Notes, NEW r \in To(m)
        PROVE  Occ(queue, m)' + Debt(j, m, r) + repeats[m] <= Occ(queue, m) + Same(n, m) + repeats'[m]
    <3>1. (Occ(queue, m) + Same(n, m)) + Debt(j, m, r) + repeats[m]
            <= Occ(queue, m) + Same(n, m) + (repeats[m] + Same(n, m))
      BY <1>3, <1>4
    <3>2. QED  BY <2>1, <2>2, <3>1
  <2>4. QED  BY <1>1, <1>2, <2>1, <2>2, <2>3, AskedStep
<1>7. QED  BY <1>5, <1>6

\* The process dies before the message is in the queue.
LEMMA CutStep ==
  ASSUME Inv, NEW t \in Web, NEW n \in Notes \ asked, job[t].at = "idle", asked' = asked \cup {n},
         UNCHANGED <<held, disk, loaded, worker, copies, unrun, discarded, refused>>,
         Fault, cut' = cut \cup {n}, UNCHANGED <<queue, job, repeats>>
  PROVE  Inv'
<1>1. Typed /\ t \in Threads /\ faults' \in Nat /\ faults' >= faults
  BY FaultType DEF Inv, Threads
<1>2. PICK j \in JobType : j = job[t]
  BY <1>1 DEF Typed
<1>3. job' = [job EXCEPT ![t] = j]
  BY <1>1, <1>2 DEF Typed
<1>4. queue' \in Seq(Notes) /\ Range(queue) \subseteq Range(queue') /\ repeats' \in [Notes -> Nat]
  BY <1>1 DEF Typed
<1>5. ASSUME NEW m \in Notes, NEW r \in To(m)
      PROVE  Occ(queue, m)' + Debt(j, m, r) + repeats[m] <= Occ(queue, m) + Same(n, m) + repeats'[m]
  <2>1. Debt(j, m, r) = 0 /\ Occ(queue, m)' = Occ(queue, m)
    BY <1>1, <1>2, IdleJob DEF Occ
  <2>2. Occ(queue, m) \in Nat /\ Same(n, m) \in Nat /\ repeats[m] \in Nat
    BY <1>1, OccType DEF Typed, Same
  <2>3. Occ(queue, m) + 0 + repeats[m] <= Occ(queue, m) + Same(n, m) + repeats[m]
    BY <2>2
  <2>4. QED  BY <2>1, <2>3
<1>6. QED  BY <1>1, <1>2, <1>3, <1>4, <1>5, AskedStep

LEMMA AsksTelegramStep ==
  ASSUME Inv, NEW t \in Web, NEW n \in Notes, AsksTelegram(t, n)
  PROVE  Inv'
<1>1. /\ n \in Notes \ asked /\ job[t].at = "idle" /\ asked' = asked \cup {n}
      /\ UNCHANGED <<held, disk, loaded, worker, copies, unrun, discarded, refused>>
  BY DEF AsksTelegram
<1>2. \/ queue' = Append(queue, n) /\ UNCHANGED <<job, cut, repeats, faults>>
      \/ /\ Fault /\ Begins(t, n) /\ cut' = cut
         /\ \/ queue' = queue /\ repeats' = repeats
            \/ queue' = Append(queue, n) /\ repeats' = [repeats EXCEPT ![n] = @ + 1]
      \/ Fault /\ cut' = cut \cup {n} /\ UNCHANGED <<queue, job, repeats>>
  BY DEF AsksTelegram, NoFault, FallsBack
<1>3. CASE queue' = Append(queue, n) /\ UNCHANGED <<job, cut, repeats, faults>>
  BY <1>1, <1>3, QueuedStep
<1>4. CASE /\ Fault /\ Begins(t, n) /\ cut' = cut
           /\ \/ queue' = queue /\ repeats' = repeats
              \/ queue' = Append(queue, n) /\ repeats' = [repeats EXCEPT ![n] = @ + 1]
  BY <1>1, <1>4, FallbackStep
<1>5. CASE Fault /\ cut' = cut \cup {n} /\ UNCHANGED <<queue, job, repeats>>
  BY <1>1, <1>5, CutStep
<1>6. QED  BY <1>2, <1>3, <1>4, <1>5

-----------------------------------------------------------------------------
(* The invariant is inductive. *)

LEMMA InvInitially ==
  ASSUME Init
  PROVE  Inv
<1>1. \A t \in Threads : job[t] = Idle
  BY DEF Init
<1>2. Idle.at = "idle" /\ Idle.left = {} /\ Idle.count = 0
  BY DEF Idle
<1>3. Typed
  <2>1. queue \in Seq(Notes) /\ held \subseteq Notes /\ asked \subseteq Notes /\ faults \in Nat
    BY DEF Init
  <2>2. disk \subseteq Kinds /\ loaded \in [Workers -> SUBSET Kinds]
    BY DEF Init, Kinds
  <2>3. worker \in [Workers -> WorkerType]
    BY UpType DEF Init
  <2>4. job \in [Threads -> JobType]
    BY IdleType DEF Init
  <2>5. copies \in [Notes -> [Recipients -> Nat]] /\ repeats \in [Notes -> Nat]
    BY DEF Init
  <2>6. unrun \subseteq Notes /\ IsFiniteSet(unrun)
    BY FS_EmptySet DEF Init
  <2>7. QED  BY <2>1, <2>2, <2>3, <2>4, <2>5, <2>6 DEF Typed
<1>4. JobsHold
  BY <1>1, <1>2 DEF JobsHold, JobHolds
<1>5. Traced
  BY DEF Init, Traced
<1>6. Paid
  <2>1. Broken = {} /\ unrun = {} /\ faults = 0
    BY UpType DEF Init, Broken
  <2>2. Cardinality({}) = 0
    BY FS_EmptySet
  <2>3. QED  BY <2>1, <2>2 DEF Paid
<1>7. Accounted
  <2>1. ASSUME NEW n \in Notes, NEW r \in To(n)
        PROVE  copies[n][r] + Occ(queue, n) + Cardinality(Owers(n, r)) <= Due(n) + repeats[n]
    <3>1. copies[n][r] = 0 /\ repeats[n] = 0 /\ Due(n) = 0
      BY ToRecipients DEF Init, Due
    <3>2. {i \in 1..Len(queue) : queue[i] = n} = {}
      <4>1. Len(queue) = 0
        BY DEF Init
      <4>2. QED  BY <4>1
    <3>3. Owers(n, r) = {}
      BY <1>1, <1>2 DEF Owers, Debt
    <3>4. Cardinality({}) = 0
      BY FS_EmptySet
    <3>5. Occ(queue, n) = 0 /\ Cardinality(Owers(n, r)) = 0
      BY <3>2, <3>3, <3>4 DEF Occ
    <3>6. QED  BY <3>1, <3>5
  <2>2. QED  BY <2>1 DEF Accounted
<1>8. QED  BY <1>3, <1>4, <1>5, <1>6, <1>7 DEF Inv

LEMMA InvStutters ==
  ASSUME Inv, UNCHANGED vars
  PROVE  Inv'
<1>1. UNCHANGED <<queue, held, asked, copies, refused, cut, unrun, discarded, repeats, job,
                  disk, loaded, worker, faults>>
  BY DEF vars, ghosts
<1>2. Typed
  BY DEF Inv
<1>3. faults' \in Nat /\ faults' >= faults /\ disk' \subseteq Kinds /\ loaded' \in [Workers -> SUBSET Kinds]
  BY <1>1, <1>2 DEF Typed
<1>4. worker' \in [Workers -> WorkerType] /\ Broken' \subseteq Broken
  BY <1>1, <1>2 DEF Typed, Broken
<1>5. QED  BY <1>1, <1>3, <1>4, QuietStep

LEMMA InvInductive ==
  ASSUME Inv, [Next]_vars
  PROVE  Inv'
<1>1. CASE \E t \in Web : Asks(t)
  BY <1>1, AsksTelegramStep, AsksBroadcastStep DEF Asks
<1>2. ASSUME NEW t \in Threads, Works(t)
      PROVE  Inv'
  BY <1>2, PostedStep, UnparsedStep, DeferredStep, RefusedStep, BroadcastEndsStep, DeliversStep
  DEF Works
<1>3. ASSUME NEW t \in Threads, Dies(t)
      PROVE  Inv'
  BY <1>3, DiesStep
<1>4. ASSUME NEW w \in Workers, Polls(w) \/ Tends(w)
      PROVE  Inv'
  BY <1>4, TakesStep, LeavesStep, AcknowledgesStep, AcknowledgesNextStep DEF Polls, Tends
<1>5. ASSUME NEW w \in Workers, Raises(w) \/ Signals(w) \/ Restarts(w)
      PROVE  Inv'
  BY <1>5, RaisesStep, SignalsStep, RestartsStep
<1>6. ASSUME NEW w \in Workers, NEW n \in Notes, Claims(w, n)
      PROVE  Inv'
  BY <1>6, ClaimsStep
<1>7. CASE Releases
  BY <1>7, ReleasesStep
<1>8. CASE UNCHANGED vars
  BY <1>8, InvStutters
<1>9. QED  BY <1>1, <1>2, <1>3, <1>4, <1>5, <1>6, <1>7, <1>8 DEF Next

-----------------------------------------------------------------------------
(* The theorems *)

LEMMA Silent ==
  ASSUME Inv
  PROVE  SilenceExplained
<1>1. ASSUME NEW n \in asked, NEW r \in To(n), ~InFlight(n), copies[n][r] = 0
      PROVE  <<n, r>> \in refused \/ n \in unrun \cup discarded \cup cut
  <2>1. ~Waiting(n)
    BY <1>1 DEF Waiting, InFlight
  <2>2. ~OnTheWeb(n)
    BY <1>1 DEF OnTheWeb, InFlight, Threads
  <2>3. Settled(n)
    BY <2>1, <2>2 DEF Inv, Traced
  <2>4. Explained(n, r)
    BY <2>3 DEF Settled
  <2>5. QED  BY <1>1, <2>4 DEF Explained
<1>2. Cardinality(unrun) <= faults
  <2>1. Cardinality(unrun) \in Nat /\ faults \in Nat
    BY FS_CardinalityType DEF Inv, Typed
  <2>2. Cardinality(unrun) + Cardinality(Broken) <= faults
    BY DEF Inv, Paid
  <2>3. QED  BY <2>1, <2>2, BrokenFinite
<1>3. ASSUME NEW t \in Threads, job[t].at = "broadcast"
      PROVE  job[t].count <= Cardinality({u \in Users : copies[job[t].note][u] > 0})
  <2>1. PICK j \in JobType : j = job[t]
    BY DEF Inv, Typed
  <2>2. j.count <= Cardinality(Served(j)) /\ j.count \in Nat
    BY <1>3, <2>1, BroadcastJob DEF JobType
  <2>3. Served(j) \subseteq {u \in Users : copies[j.note][u] > 0}
    BY DEF Served
  <2>4. IsFiniteSet({u \in Users : copies[j.note][u] > 0})
    BY TaskWorkerAssumption, FS_Subset
  <2>5. /\ Cardinality(Served(j)) <= Cardinality({u \in Users : copies[j.note][u] > 0})
        /\ Cardinality(Served(j)) \in Nat
        /\ Cardinality({u \in Users : copies[j.note][u] > 0}) \in Nat
    BY <2>3, <2>4, FS_Subset, FS_CardinalityType
  <2>6. j.count <= Cardinality({u \in Users : copies[j.note][u] > 0})
    BY <2>2, <2>5
  <2>7. QED  BY <2>1, <2>6
<1>4. QED  BY <1>1, <1>2, <1>3 DEF SilenceExplained

LEMMA Copied ==
  ASSUME Inv
  PROVE  CopiesExplained
<1>1. ASSUME NEW n \in Notes, NEW r \in To(n)
      PROVE  copies[n][r] <= 1 + repeats[n]
  <2>1. copies[n][r] + Occ(queue, n) + Cardinality(Owers(n, r)) <= Due(n) + repeats[n]
    BY DEF Inv, Accounted
  <2>2. copies[n][r] \in Nat /\ repeats[n] \in Nat
    BY ToRecipients DEF Inv, Typed
  <2>3. Occ(queue, n) \in Nat /\ Cardinality(Owers(n, r)) \in Nat
    BY OccType, OwersType DEF Inv, Typed
  <2>4. Due(n) \in Nat /\ Due(n) <= 1
    BY DEF Due
  <2>5. QED  BY <2>1, <2>2, <2>3, <2>4
<1>2. QED  BY <1>1 DEF CopiesExplained

\* No notice vanishes without a trace and no copy is sent without a cause: whoever
\* got none was refused, or the notice was acknowledged unrun, discarded or cut off
\* with its web thread; each further copy has a repeated enqueue, a second delivery
\* or a lost answer behind it; a broadcast counts nobody who got nothing.
THEOREM NoticesAlwaysExplained == Spec => []NoticesExplained
<1>1. Inv => NoticesExplained
  BY Silent, Copied DEF NoticesExplained
<1>2. QED  BY InvInitially, InvInductive, <1>1, PTL DEF Spec

\* The type invariant: a worker counts no further than its limit, a task tries no
\* more often than it may, and a broadcast counts each user once.
THEOREM TaskWorkerTyped == Spec => []TypeOK
<1>1. ASSUME Inv
      PROVE  TypeOK
  <2>1. ASSUME NEW t \in Threads
        PROVE  JobOk(job[t])
    <3>1. PICK j \in JobType : j = job[t]
      BY <1>1 DEF Inv, Typed
    <3>2. JobHolds(j)
      BY <1>1, <3>1 DEF Inv, JobsHold
    <3>3. j.count <= Cardinality(Users) /\ Cardinality(Users) \in Nat
      <4>1. Cardinality(Users) \in Nat /\ IsFiniteSet(Users)
        BY TaskWorkerAssumption, FS_CardinalityType
      <4>2. CASE j.at = "broadcast"
        <5>1. Served(j) \subseteq Users
          BY DEF Served
        <5>2. Cardinality(Served(j)) <= Cardinality(Users) /\ Cardinality(Served(j)) \in Nat
          BY <4>1, <5>1, FS_Subset, FS_CardinalityType
        <5>3. j.count <= Cardinality(Served(j)) /\ j.count \in Nat
          BY <3>2, <4>2 DEF JobHolds, JobType
        <5>4. QED  BY <4>1, <5>2, <5>3
      <4>3. CASE j.at # "broadcast"
        BY <3>2, <4>1, <4>3 DEF JobHolds
      <4>4. QED  BY <4>2, <4>3
    <3>4. JobOk(j)
      BY <3>3 DEF JobOk, JobType
    <3>5. QED  BY <3>1, <3>4
  <2>2. \A w \in Workers : /\ worker[w].at \in {"top", "broken", "exited"}
                           /\ worker[w].done \in 0..MaxTasks
                           /\ worker[w].stop \in BOOLEAN
    BY <1>1 DEF Inv, Typed, WorkerType
  <2>3. QED  BY <1>1, <2>1, <2>2 DEF TypeOK, Inv, Typed
<1>2. QED  BY InvInitially, InvInductive, <1>1, PTL DEF Spec
=============================================================================
