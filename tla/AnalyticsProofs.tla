--------------------------- MODULE AnalyticsProofs ---------------------------
(***************************************************************************)
(* Theorems about AnalyticsPipeline for any number of events, tables,      *)
(* processes, threads and faults and any sizes: its types, the bound on    *)
(* the flushers, that no event is lost but to a fault that may cost it     *)
(* nor doubled but by a call that failed after taking effect, that it      *)
(* implements AnalyticsDelivery, and that while Redis works its list keeps *)
(* its order and, within a margin, its size.  And one about Tracking, at   *)
(* its end: each view is accounted for once, for any number of requests    *)
(* and failures.                                                           *)
(*                                                                         *)
(* For the loss the sequences are followed as the sets of their elements:  *)
(* a step of a thread touches the lists of one table and what the thread   *)
(* itself has in hand, and every event in these stays in one of them or is *)
(* accounted for in mayLose.  For the copies each list, each hand and each *)
(* payload is a cell: an event outside of mayDup stands in one cell at     *)
(* most, once, and a step passes on what its cells had.  From both follows *)
(* that every step is one of the abstract pipeline.  For the order what is *)
(* stored, in hand and waiting is one line, which grows at its end by rows *)
(* that have never been in it.                                             *)
(***************************************************************************)
EXTENDS AnalyticsPipeline, Tracking, SequenceTheorems, FiniteSetTheorems, TLAPS

-----------------------------------------------------------------------------
(* Lemmas on the sequence helpers *)

\* The elements of a concatenation.
LEMMA ToSetConcat ==
  ASSUME NEW S, NEW s \in Seq(S), NEW r \in Seq(S)
  PROVE  ToSet(s \o r) = ToSet(s) \cup ToSet(r)
<1>1. ASSUME NEW x \in ToSet(s \o r) PROVE x \in ToSet(s) \cup ToSet(r)
  BY <1>1 DEF ToSet
<1>2. ASSUME NEW x \in ToSet(s) PROVE x \in ToSet(s \o r)
  BY <1>2 DEF ToSet
<1>3. ASSUME NEW x \in ToSet(r) PROVE x \in ToSet(s \o r)
  <2>1. PICK i \in 1..Len(r) : x = r[i]
    BY <1>3 DEF ToSet
  <2>2. (s \o r)[Len(s) + i] = x /\ Len(s) + i \in 1..Len(s \o r)
    BY <2>1
  <2>3. QED  BY <2>2 DEF ToSet
<1>4. QED  BY <1>1, <1>2, <1>3

LEMMA ToSetSubset ==
  ASSUME NEW S, NEW s \in Seq(S)
  PROVE  ToSet(s) \subseteq S
BY DEF ToSet

LEMMA ToSetAppend ==
  ASSUME NEW S, NEW s \in Seq(S), NEW x \in S
  PROVE  Append(s, x) \in Seq(S) /\ ToSet(Append(s, x)) = ToSet(s) \cup {x}
<1>1. ASSUME NEW y \in ToSet(Append(s, x)) PROVE y \in ToSet(s) \cup {x}
  BY <1>1 DEF ToSet
<1>2. ASSUME NEW y \in ToSet(s) PROVE y \in ToSet(Append(s, x))
  BY <1>2 DEF ToSet
<1>3. x \in ToSet(Append(s, x))
  <2>1. Append(s, x)[Len(s) + 1] = x /\ Len(s) + 1 \in 1..Len(Append(s, x))
    OBVIOUS
  <2>2. QED  BY <2>1 DEF ToSet
<1>4. QED  BY <1>1, <1>2, <1>3

\* Splitting a sequence at k keeps every element on one side or the other.
LEMMA ToSetSplit ==
  ASSUME NEW S, NEW s \in Seq(S), NEW k \in 0..Len(s)
  PROVE  /\ SubSeq(s, 1, k) \in Seq(S)
         /\ SubSeq(s, k + 1, Len(s)) \in Seq(S)
         /\ ToSet(s) = ToSet(SubSeq(s, 1, k)) \cup ToSet(SubSeq(s, k + 1, Len(s)))
<1> DEFINE l == SubSeq(s, 1, k)
           r == SubSeq(s, k + 1, Len(s))
<1>1. l \in Seq(S) /\ r \in Seq(S)
  BY SMTT(30)
<1>2. Len(l) = k /\ \A i \in 1..k : l[i] = s[i]
  BY SMTT(30)
<1>3. Len(r) = Len(s) - k /\ \A i \in 1..(Len(s) - k) : r[i] = s[k + i]
  BY SMTT(30)
<1>4. ASSUME NEW x \in ToSet(s) PROVE x \in ToSet(l) \cup ToSet(r)
  <2>1. PICK i \in 1..Len(s) : x = s[i]
    BY <1>4 DEF ToSet
  <2>2. CASE i <= k
    <3>1. i \in DOMAIN l /\ l[i] = x
      BY <1>1, <1>2, <2>1, <2>2
    <3>2. QED  BY <3>1 DEF ToSet
  <2>3. CASE i > k
    <3>1. i - k \in DOMAIN r /\ r[i - k] = x
      BY <1>1, <1>3, <2>1, <2>3
    <3>2. QED  BY <3>1 DEF ToSet
  <2>4. QED  BY <2>2, <2>3
<1>5. ASSUME NEW x \in ToSet(l) PROVE x \in ToSet(s)
  <2>1. PICK i \in 1..k : x = l[i]
    BY <1>1, <1>2, <1>5 DEF ToSet
  <2>2. i \in DOMAIN s /\ s[i] = x
    BY <1>2, <2>1
  <2>3. QED  BY <2>2 DEF ToSet
<1>6. ASSUME NEW x \in ToSet(r) PROVE x \in ToSet(s)
  <2>1. PICK i \in DOMAIN r : x = r[i]
    BY <1>6 DEF ToSet
  <2>a. i \in 1..(Len(s) - k)
    BY <1>1, <1>3, <2>1
  <2>2. k + i \in DOMAIN s /\ s[k + i] = x
    BY <1>3, <2>1, <2>a
  <2>3. QED  BY <2>2 DEF ToSet
<1>7. QED  BY <1>1, <1>4, <1>5, <1>6

\* LTRIM keeps the elements it does not cut off.
LEMMA KeepLastSplits ==
  ASSUME NEW S, NEW s \in Seq(S), NEW n \in Nat \ {0}
  PROVE  /\ KeepLast(s, n) \in Seq(S)
         /\ ToSet(s) = CutOff(s, n) \cup ToSet(KeepLast(s, n))
         /\ CutOff(s, n) \subseteq S
<1>1. CASE Len(s) > n
  <2>1. Len(s) - n \in 0..Len(s)
    BY <1>1
  <2>2. /\ SubSeq(s, 1, Len(s) - n) \in Seq(S)
        /\ SubSeq(s, Len(s) - n + 1, Len(s)) \in Seq(S)
        /\ ToSet(s) = ToSet(SubSeq(s, 1, Len(s) - n)) \cup ToSet(SubSeq(s, Len(s) - n + 1, Len(s)))
    BY <2>1, ToSetSplit
  <2>3. ToSet(SubSeq(s, 1, Len(s) - n)) \subseteq S
    BY <2>2, ToSetSubset
  <2>4. QED  BY <1>1, <2>2, <2>3 DEF KeepLast, CutOff
<1>2. CASE ~(Len(s) > n)
  BY <1>2 DEF KeepLast, CutOff
<1>3. QED  BY <1>1, <1>2

\* LPOP splits a list into what it takes and what it leaves.
LEMMA TakenSplits ==
  ASSUME NEW S, NEW s \in Seq(S), NEW n \in Nat \ {0}
  PROVE  /\ Taken(s, n) \in Seq(S)
         /\ Rest(s, n) \in Seq(S)
         /\ ToSet(s) = ToSet(Taken(s, n)) \cup ToSet(Rest(s, n))
<1> DEFINE k == IF Len(s) < n THEN Len(s) ELSE n
<1>1. k \in 0..Len(s)
  OBVIOUS
<1>2. QED  BY <1>1, ToSetSplit DEF Taken, Rest

-----------------------------------------------------------------------------
(* Type correctness *)

\* The threads of a process, the tables of a flusher and of a payload exist.
LEMMA ThreadFacts ==
  ASSUME TypeOK, NEW t \in Threads
  PROVE  /\ ProcOf[t] \in Procs
         /\ Table(t) \in Tables
         /\ hand[t] \in Seq(Events)
         /\ item[t] \in Events => ItemTable(t) \in Tables
         /\ mem[ProcOf[t]][Table(t)] \in Seq(Events)
<1>1. TableSeq[ti[t]] \in Tables
  <2>1. TableSeq \in Seq(Tables) /\ ti[t] \in 1..Len(TableSeq)
    BY PipelineAssumption DEF TypeOK, LocalTypes
  <2>2. QED  BY <2>1, ElementOfSeq
<1>2. ProcOf[t] \in Procs /\ hand[t] \in Seq(Events)
  BY PipelineAssumption DEF TypeOK, LocalTypes
<1>3. item[t] \in Events => TableOf[item[t]] \in Tables
  BY PipelineAssumption
<1>4. QED  BY <1>1, <1>2, <1>3 DEF TypeOK, BufferTypes, LocalTypes, Table, ItemTable

\* An append to the memory of a process keeps the type of mem.
LEMMA AppendToMemoryTyped ==
  ASSUME TypeOK, NEW p \in Procs, NEW tab \in Tables, NEW e \in Events,
         AppendToMemory(p, tab, e)
  PROVE  mem' \in [Procs -> [Tables -> Seq(Events)]] /\ MemoryOverflow(p, tab, e) \subseteq Events
<1>1. Append(mem[p][tab], e) \in Seq(Events)
  BY DEF TypeOK, BufferTypes
<1>2. /\ KeepLast(Append(mem[p][tab], e), MaxSize) \in Seq(Events)
      /\ CutOff(Append(mem[p][tab], e), MaxSize) \subseteq Events
  <2>1. MaxSize \in Nat \ {0}
    BY PipelineAssumption
  <2>2. QED  BY <1>1, <2>1, KeepLastSplits
<1>3. QED  BY <1>1, <1>2 DEF TypeOK, BufferTypes, AppendToMemory, MemoryOverflow

\* A thread that moves to a point where it holds no payload, with the rows and
\* the table it then has, keeps the types of the locals.
LEMMA MoveTyped ==
  ASSUME LocalTypes, NEW t \in Threads,
         NEW point \in Points \ {"pipe", "trim"}, Goto(t, point),
         NEW rows \in Seq(Events), Holds(t, rows) \/ hand' = hand,
         NEW k \in 1..Len(TableSeq), ti' = [ti EXCEPT ![t] = k] \/ ti' = ti,
         item' = item \/ item' = [item EXCEPT ![t] = NoEvent]
  PROVE  LocalTypes'
<1>1. pc' \in [Threads -> Points] /\ \A u \in Threads : pc'[u] = IF u = t THEN point ELSE pc[u]
  BY DEF LocalTypes, Goto
<1>2. hand' \in [Threads -> Seq(Events)]
  BY DEF LocalTypes, Holds
<1>3. ti' \in [Threads -> 1..Len(TableSeq)]
  BY DEF LocalTypes
<1>4. item' \in [Threads -> Events \cup {NoEvent}]
  BY DEF LocalTypes
<1>5. \A u \in Threads : pc'[u] \in {"pipe", "trim"} => item'[u] \in Events
  <2>1. TAKE u \in Threads
  <2>2. CASE u = t
    BY <1>1, <2>2
  <2>3. CASE u # t
    <3>1. pc'[u] = pc[u] /\ item'[u] = item[u]
      BY <1>1, <2>3 DEF LocalTypes
    <3>2. QED  BY <3>1 DEF LocalTypes
  <2>4. QED  BY <2>2, <2>3
<1>6. QED  BY <1>1, <1>2, <1>3, <1>4, <1>5 DEF LocalTypes

\* The same when a flusher moves on to the next table.
LEMMA NextTableTyped ==
  ASSUME LocalTypes, NEW t \in Threads, NextTable(t),
         NEW rows \in Seq(Events), Holds(t, rows) \/ hand' = hand, item' = item
  PROVE  LocalTypes'
<1>1. TableSeq \in Seq(Tables) /\ Len(TableSeq) \in Nat /\ ti[t] \in 1..Len(TableSeq)
  BY PipelineAssumption DEF LocalTypes
<1>2. CASE ti[t] < Len(TableSeq)
  <2>1. Goto(t, "table") /\ ti' = [ti EXCEPT ![t] = ti[t] + 1]
    BY <1>2 DEF NextTable
  <2>2. ti[t] + 1 \in 1..Len(TableSeq)
    BY <1>1, <1>2
  <2>3. QED  BY <2>1, <2>2, MoveTyped DEF Points
<1>3. CASE ~(ti[t] < Len(TableSeq))
  <2>1. Goto(t, "release") /\ ti' = ti
    BY <1>3 DEF NextTable
  <2>2. QED  BY <1>1, <2>1, MoveTyped DEF Points
<1>4. QED  BY <1>2, <1>3

\* A push that returns leaves the locals of the thread in order.
LEMMA PushReturnsTyped ==
  ASSUME LocalTypes, NEW t \in Threads, PushReturns(t), ti' = ti
  PROVE  LocalTypes'
<1>1. <<>> \in Seq(Events)
  OBVIOUS
<1>2. ti[t] \in 1..Len(TableSeq) /\ "idle" \in Points \ {"pipe", "trim"}
  BY DEF LocalTypes, Points
<1>3. Goto(t, "idle") /\ Holds(t, <<>>) /\ item' = [item EXCEPT ![t] = NoEvent]
  BY DEF PushReturns
<1>4. QED  BY <1>1, <1>2, <1>3, MoveTyped

\* A thread that takes a payload, with rows to push, has locals in order.
LEMMA CarriesTyped ==
  ASSUME LocalTypes, NEW t \in Threads, NEW point \in {"pipe", "trim"}, Goto(t, point),
         NEW rows \in Seq(Events), Holds(t, rows),
         NEW e \in Events, item' = [item EXCEPT ![t] = e], ti' = ti
  PROVE  LocalTypes'
<1>1. pc' \in [Threads -> Points]
  BY DEF LocalTypes, Goto, Points
<1>2. \A u \in Threads : pc'[u] \in {"pipe", "trim"} => item'[u] \in Events
  BY DEF LocalTypes, Goto
<1>3. hand' \in [Threads -> Seq(Events)] /\ item' \in [Threads -> Events \cup {NoEvent}]
  BY DEF LocalTypes, Holds
<1>4. QED  BY <1>1, <1>2, <1>3 DEF LocalTypes

\* What the fallback of a push does to the buffers and the locals.
LEMMA FallBackTyped ==
  ASSUME TypeOK, NEW t \in Threads, FallBackToMemory(t), item[t] \in Events, ti' = ti
  PROVE  /\ LocalTypes'
         /\ mem' \in [Procs -> [Tables -> Seq(Events)]]
         /\ down' \in [Procs -> BOOLEAN]
         /\ MemoryOverflow(ProcOf[t], ItemTable(t), item[t]) \subseteq Events
<1>1. ProcOf[t] \in Procs /\ ItemTable(t) \in Tables
  BY ThreadFacts
<1>2. AppendToMemory(ProcOf[t], ItemTable(t), item[t]) /\ PushReturns(t)
  BY DEF FallBackToMemory
<1>3. /\ mem' \in [Procs -> [Tables -> Seq(Events)]]
      /\ MemoryOverflow(ProcOf[t], ItemTable(t), item[t]) \subseteq Events
  BY <1>1, <1>2, AppendToMemoryTyped
<1>4. LocalTypes'
  BY <1>2, PushReturnsTyped DEF TypeOK
<1>5. down' \in [Procs -> BOOLEAN]
  BY <1>1 DEF FallBackToMemory, TypeOK, BufferTypes
<1>6. QED  BY <1>3, <1>4, <1>5

\* A list that rows are appended to stays a list of events.
LEMMA AppendTyped ==
  ASSUME NEW q \in [Tables -> Seq(Events)], NEW tab \in Tables, NEW rows \in Seq(Events)
  PROVE  /\ [q EXCEPT ![tab] = @ \o rows] \in [Tables -> Seq(Events)]
         /\ [q EXCEPT ![tab] = rows \o @] \in [Tables -> Seq(Events)]
         /\ [q EXCEPT ![tab] = rows] \in [Tables -> Seq(Events)]
<1>1. q[tab] \o rows \in Seq(Events) /\ rows \o q[tab] \in Seq(Events)
  OBVIOUS
<1>2. QED  BY <1>1

-----------------------------------------------------------------------------
(* Each step keeps TypeOK *)

\* The actions of a pushing thread.
LEMMA PushTyped ==
  ASSUME TypeOK, NEW t \in Pushers, Push(t)
  PROVE  TypeOK'
<1>0. t \in Threads /\ BufferTypes /\ LocalTypes /\ GhostTypes
  BY DEF Threads, TypeOK
<1> USE <1>0 DEF buffers, sinks, local, ghosts, marks
<1>1. ASSUME NEW e \in Events, PushToMemory(t, e) PROVE TypeOK'
  <2>1. ProcOf[t] \in Procs /\ TableOf[e] \in Tables
    BY PipelineAssumption
  <2>2. /\ mem' \in [Procs -> [Tables -> Seq(Events)]]
        /\ MemoryOverflow(ProcOf[t], TableOf[e], e) \subseteq Events
    BY <1>1, <2>1, AppendToMemoryTyped DEF PushToMemory
  <2>3. BufferTypes'
    BY <1>1, <2>2 DEF BufferTypes, PushToMemory
  <2>4. LocalTypes'
    BY <1>1 DEF LocalTypes, PushToMemory
  <2>5. GhostTypes'
    BY <1>1, <2>2 DEF GhostTypes, PushToMemory
  <2>6. QED  BY <2>3, <2>4, <2>5 DEF TypeOK
<1>2. ASSUME NEW e \in Events, PushDrain(t, e) PROVE TypeOK'
  <2>1. ProcOf[t] \in Procs /\ TableOf[e] \in Tables
    BY PipelineAssumption
  <2>2. Memory(t)[TableOf[e]] \in Seq(Events) /\ <<>> \in Seq(Events)
    BY <2>1 DEF BufferTypes, Memory
  <2>3. BufferTypes'
    BY <1>2, <2>1, <2>2 DEF BufferTypes, PushDrain
  <2>4. LocalTypes'
    BY <1>2, <2>2, CarriesTyped DEF PushDrain
  <2>5. GhostTypes'
    BY <1>2 DEF GhostTypes, PushDrain
  <2>6. QED  BY <2>3, <2>4, <2>5 DEF TypeOK
<1>3. CASE PushPipeline(t)
  <2> DEFINE tab == ItemTable(t)
             rows == Append(hand[t], item[t])
             list == redis[tab] \o rows
  <2>1. item[t] \in Events /\ hand[t] \in Seq(Events) /\ tab \in Tables
    BY <1>3, ThreadFacts DEF LocalTypes, PushPipeline
  <2>2. rows \in Seq(Events) /\ <<>> \in Seq(Events)
    BY <2>1
  <2>3. redis' = [redis EXCEPT ![tab] = @ \o rows]
    BY <1>3, <2>1 DEF PushPipeline, BufferTypes
  <2>4. BufferTypes'
    BY <1>3, <2>1, <2>2, <2>3, AppendTyped DEF BufferTypes, PushPipeline
  <2>5. entered' \in [Tables -> Seq(Events)]
    BY <1>3, <2>1, <2>2, AppendTyped DEF GhostTypes, PushPipeline, Enters
  <2>6. GhostTypes'
    BY <1>3, <2>5 DEF GhostTypes, PushPipeline
  <2>7. LocalTypes'
    <3>1. CASE OverLimit(list)
      <4>1. Goto(t, "trim") /\ Holds(t, <<>>) /\ item' = item /\ ti' = ti
        BY <1>3, <3>1 DEF PushPipeline
      <4>2. item' = [item EXCEPT ![t] = item[t]]
        BY <4>1 DEF LocalTypes
      <4>3. QED  BY <2>1, <2>2, <4>1, <4>2, CarriesTyped
    <3>2. CASE ~OverLimit(list)
      BY <1>3, <3>2, PushReturnsTyped DEF PushPipeline
    <3>3. QED  BY <3>1, <3>2
  <2>8. QED  BY <2>4, <2>6, <2>7 DEF TypeOK
<1>4. CASE PushPipelineFails(t)
  <2> DEFINE tab == ItemTable(t)
  <2>1. item[t] \in Events /\ hand[t] \in Seq(Events) /\ tab \in Tables
    BY <1>4, ThreadFacts DEF LocalTypes, PushPipelineFails
  <2>2. /\ Append(hand[t], item[t]) \in Seq(Events) /\ <<>> \in Seq(Events)
        /\ ToSet(hand[t]) \subseteq Events
    BY <2>1, ToSetSubset
  <2>3. /\ LocalTypes' /\ mem' \in [Procs -> [Tables -> Seq(Events)]]
        /\ down' \in [Procs -> BOOLEAN]
        /\ MemoryOverflow(ProcOf[t], ItemTable(t), item[t]) \subseteq Events
    BY <1>4, <2>1, FallBackTyped DEF PushPipelineFails
  <2>4. redis' \in [Tables -> Seq(Events)]
    <3>1. redis \in [Tables -> Seq(Events)]
      BY DEF BufferTypes
    <3>2. \A s \in Seq(Events) : [redis EXCEPT ![tab] = @ \o s] \in [Tables -> Seq(Events)]
      BY <2>1, <3>1, AppendTyped
    <3>3. \E s \in {<<>>, hand[t], Append(hand[t], item[t])} : redis' = [redis EXCEPT ![tab] = @ \o s]
      BY <1>4 DEF PushPipelineFails
    <3>4. QED  BY <2>1, <2>2, <3>2, <3>3
  <2>5. mayLose' \subseteq Events /\ mayDup' \subseteq Events
    BY <1>4, <2>1, <2>2, <2>3 DEF GhostTypes, PushPipelineFails
  <2>6. faults' \in Nat /\ shaken' \in BOOLEAN
    BY <1>4 DEF GhostTypes, PushPipelineFails, RedisFault, Fault
  <2>7. BufferTypes'
    BY <1>4, <2>3, <2>4 DEF BufferTypes, PushPipelineFails
  <2>8. GhostTypes'
    BY <1>4, <2>5, <2>6 DEF GhostTypes, PushPipelineFails
  <2>9. QED  BY <2>3, <2>7, <2>8 DEF TypeOK
<1>5. ASSUME PushTrim(t) \/ PushTrimFails(t) PROVE TypeOK'
  <2> DEFINE tab == ItemTable(t)
  <2>1. item[t] \in Events /\ tab \in Tables
    BY <1>5, ThreadFacts DEF LocalTypes, PushTrim, PushTrimFails
  <2>2. redis[tab] \in Seq(Events) /\ MaxSize \in Nat \ {0}
    BY <2>1, PipelineAssumption DEF BufferTypes
  <2>3. KeepLast(redis[tab], MaxSize) \in Seq(Events) /\ CutOff(redis[tab], MaxSize) \subseteq Events
    BY <2>2, KeepLastSplits
  <2>4. redis' \in [Tables -> Seq(Events)]
    BY <1>5, <2>1, <2>3 DEF BufferTypes, PushTrim, PushTrimFails
  <2>5. CASE PushTrim(t)
    <3>1. BufferTypes'
      BY <2>4, <2>5 DEF BufferTypes, PushTrim
    <3>2. LocalTypes'
      BY <2>5, PushReturnsTyped DEF PushTrim
    <3>3. GhostTypes'
      BY <2>3, <2>5 DEF GhostTypes, PushTrim
    <3>4. QED  BY <3>1, <3>2, <3>3 DEF TypeOK
  <2>6. CASE PushTrimFails(t)
    <3>1. /\ LocalTypes' /\ mem' \in [Procs -> [Tables -> Seq(Events)]]
          /\ down' \in [Procs -> BOOLEAN]
          /\ MemoryOverflow(ProcOf[t], ItemTable(t), item[t]) \subseteq Events
      BY <2>1, <2>6, FallBackTyped DEF PushTrimFails
    <3>2. BufferTypes'
      BY <2>4, <2>6, <3>1 DEF BufferTypes, PushTrimFails
    <3>3. GhostTypes'
      BY <2>1, <2>3, <2>6, <3>1 DEF GhostTypes, PushTrimFails, RedisFault, Fault
    <3>4. QED  BY <3>1, <3>2, <3>3 DEF TypeOK
  <2>7. QED  BY <1>5, <2>5, <2>6
<1>6. QED  BY <1>1, <1>2, <1>3, <1>4, <1>5 DEF Push

\* The actions of a flusher.
LEMMA FlushTyped ==
  ASSUME TypeOK, NEW t \in Flushers, FlushBegins(t) \/ FlushStep(t) \/ FlushFailure(t)
  PROVE  TypeOK'
<1>0. t \in Threads /\ BufferTypes /\ LocalTypes /\ GhostTypes
  BY DEF Threads, TypeOK
<1> USE <1>0 DEF buffers, sinks, local, ghosts, marks
<1> DEFINE p == ProcOf[t]
           tab == Table(t)
           here == mem[p][tab]
<1>1. /\ p \in Procs /\ tab \in Tables
      /\ hand[t] \in Seq(Events) /\ ToSet(hand[t]) \subseteq Events
      /\ here \in Seq(Events) /\ redis[tab] \in Seq(Events)
  BY ThreadFacts, ToSetSubset DEF BufferTypes
<1>2. /\ <<>> \in Seq(Events)
      /\ BatchSize \in Nat \ {0} /\ DlqMax \in Nat \ {0}
      /\ ti[t] \in 1..Len(TableSeq) /\ 1 \in 1..Len(TableSeq)
  BY PipelineAssumption DEF LocalTypes
<1>3. /\ Taken(here, BatchSize) \in Seq(Events) /\ Rest(here, BatchSize) \in Seq(Events)
      /\ Taken(redis[tab], BatchSize) \in Seq(Events)
      /\ Rest(redis[tab], BatchSize) \in Seq(Events)
  BY <1>1, <1>2, TakenSplits
<1>4. ToSet(Taken(redis[tab], BatchSize)) \subseteq Events
  BY <1>3, ToSetSubset
<1>5. /\ DeadLetters(t) \in Seq(Events)
      /\ KeepLast(DeadLetters(t), DlqMax) \in Seq(Events)
      /\ CutOff(DeadLetters(t), DlqMax) \subseteq Events
  <2>1. DeadLetters(t) \in Seq(Events)
    BY <1>1 DEF DeadLetters, BufferTypes
  <2>2. QED  BY <1>2, <2>1, KeepLastSplits
<1>6. /\ [redis EXCEPT ![tab] = PutBack(hand[t], @)] \in [Tables -> Seq(Events)]
      /\ [redis EXCEPT ![tab] = @ \o hand[t]] \in [Tables -> Seq(Events)]
      /\ [redis EXCEPT ![tab] = Rest(@, BatchSize)] \in [Tables -> Seq(Events)]
      /\ [stored EXCEPT ![tab] = @ \o hand[t]] \in [Tables -> Seq(Events)]
      /\ [entered EXCEPT ![tab] = @ \o hand[t]] \in [Tables -> Seq(Events)]
  <2>1. redis \in [Tables -> Seq(Events)] /\ stored \in [Tables -> Seq(Events)]
        /\ entered \in [Tables -> Seq(Events)]
    BY DEF BufferTypes, GhostTypes
  <2>2. [redis EXCEPT ![tab] = Rest(@, BatchSize)] \in [Tables -> Seq(Events)]
    BY <1>3, <2>1
  <2>3. QED  BY <1>1, <2>1, <2>2, AppendTyped DEF PutBack
<1>7. /\ [mem EXCEPT ![p][tab] = PutBack(hand[t], @)] \in [Procs -> [Tables -> Seq(Events)]]
      /\ [mem EXCEPT ![p][tab] = Rest(@, BatchSize)] \in [Procs -> [Tables -> Seq(Events)]]
      /\ [mem EXCEPT ![p][tab] = <<>>] \in [Procs -> [Tables -> Seq(Events)]]
  <2>1. PutBack(hand[t], here) \in Seq(Events)
    BY <1>1 DEF PutBack
  <2>2. QED  BY <1>1, <1>2, <1>3, <2>1 DEF BufferTypes
<1>8. {"idle", "table", "residual", "lpop", "insert", "requeue", "deadletter", "release"}
        \subseteq Points \ {"pipe", "trim"}
  BY DEF Points
<1>9. ASSUME FlushBegins(t) PROVE TypeOK'
  <2>1. BufferTypes'
    BY <1>9 DEF BufferTypes, FlushBegins
  <2>2. GhostTypes'
    BY <1>9 DEF GhostTypes, FlushBegins
  <2>3. LocalTypes'
    BY <1>9, <1>1, <1>2, <1>8, MoveTyped DEF FlushBegins
  <2>4. QED  BY <2>1, <2>2, <2>3 DEF TypeOK
<1>10. ASSUME FlushBeginsUnlocked(t) PROVE TypeOK'
  <2>1. BufferTypes'
    BY <1>10 DEF BufferTypes, FlushBeginsUnlocked, Fault
  <2>2. GhostTypes'
    BY <1>10 DEF GhostTypes, FlushBeginsUnlocked, Fault
  <2>3. LocalTypes'
    BY <1>10, <1>1, <1>2, <1>8, MoveTyped DEF FlushBeginsUnlocked, Fault
  <2>4. QED  BY <2>1, <2>2, <2>3 DEF TypeOK
<1>11. ASSUME SkipTable(t) PROVE TypeOK'
  <2>1. BufferTypes'
    BY <1>11 DEF BufferTypes, SkipTable
  <2>2. GhostTypes'
    BY <1>11 DEF GhostTypes, SkipTable
  <2>3. LocalTypes'
    BY <1>11, <1>1, <1>2, NextTableTyped DEF SkipTable
  <2>4. QED  BY <2>1, <2>2, <2>3 DEF TypeOK
<1>12. ASSUME PopMemory(t) PROVE TypeOK'
  <2>1. BufferTypes'
    BY <1>12, <1>7 DEF BufferTypes, PopMemory
  <2>2. GhostTypes'
    BY <1>12 DEF GhostTypes, PopMemory
  <2>3. LocalTypes'
    BY <1>12, <1>1, <1>2, <1>3, <1>8, MoveTyped, NextTableTyped DEF PopMemory
  <2>4. QED  BY <2>1, <2>2, <2>3 DEF TypeOK
<1>13. ASSUME PopDrain(t) PROVE TypeOK'
  <2>1. BufferTypes'
    BY <1>13, <1>7 DEF BufferTypes, PopDrain
  <2>2. GhostTypes'
    BY <1>13 DEF GhostTypes, PopDrain
  <2>3. LocalTypes'
    BY <1>13, <1>1, <1>2, <1>8, MoveTyped DEF PopDrain
  <2>4. QED  BY <2>1, <2>2, <2>3 DEF TypeOK
<1>14. ASSUME PopResidual(t) PROVE TypeOK'
  <2>1. BufferTypes'
    BY <1>14, <1>6 DEF BufferTypes, PopResidual, Enters
  <2>2. GhostTypes'
    BY <1>14, <1>6 DEF GhostTypes, PopResidual, Enters
  <2>3. LocalTypes'
    BY <1>14, <1>1, <1>2, <1>8, MoveTyped DEF PopResidual, Enters
  <2>4. QED  BY <2>1, <2>2, <2>3 DEF TypeOK
<1>15. ASSUME PopResidualFails(t) PROVE TypeOK'
  <2>1. BufferTypes'
    BY <1>15, <1>6 DEF BufferTypes, PopResidualFails, RedisFault, Fault
  <2>2. GhostTypes'
    BY <1>15, <1>1 DEF GhostTypes, PopResidualFails, RedisFault, Fault
  <2>3. LocalTypes'
    BY <1>15, <1>1, <1>2, <1>8, MoveTyped DEF PopResidualFails, RedisFault, Fault
  <2>4. QED  BY <2>1, <2>2, <2>3 DEF TypeOK
<1>16. ASSUME PopBatch(t) PROVE TypeOK'
  <2>1. BufferTypes'
    BY <1>16, <1>6 DEF BufferTypes, PopBatch
  <2>2. GhostTypes'
    BY <1>16 DEF GhostTypes, PopBatch
  <2>3. LocalTypes'
    BY <1>16, <1>1, <1>2, <1>3, <1>8, MoveTyped, NextTableTyped DEF PopBatch
  <2>4. QED  BY <2>1, <2>2, <2>3 DEF TypeOK
<1>17. ASSUME PopBatchFails(t) PROVE TypeOK'
  <2>1. BufferTypes'
    BY <1>17, <1>1, <1>6 DEF BufferTypes, PopBatchFails, RedisFault, Fault
  <2>2. GhostTypes'
    BY <1>17, <1>4 DEF GhostTypes, PopBatchFails, RedisFault, Fault
  <2>3. LocalTypes'
    BY <1>17, <1>1, <1>2, NextTableTyped DEF PopBatchFails, RedisFault, Fault
  <2>4. QED  BY <2>1, <2>2, <2>3 DEF TypeOK
<1>18. ASSUME InsertSucceeds(t) PROVE TypeOK'
  <2>1. BufferTypes'
    BY <1>18, <1>6 DEF BufferTypes, InsertSucceeds
  <2>2. GhostTypes'
    BY <1>18 DEF GhostTypes, InsertSucceeds
  <2>3. LocalTypes'
    BY <1>18, <1>1, <1>2, NextTableTyped DEF InsertSucceeds
  <2>4. QED  BY <2>1, <2>2, <2>3 DEF TypeOK
<1>19. ASSUME InsertFails(t) PROVE TypeOK'
  <2>1. BufferTypes'
    BY <1>19, <1>6 DEF BufferTypes, InsertFails, Fault
  <2>2. GhostTypes'
    <3>1. mayDup' = mayDup \/ mayDup' = mayDup \cup ToSet(hand[t])
      BY <1>19 DEF InsertFails
    <3>2. mayDup' \subseteq Events
      BY <1>1, <3>1 DEF GhostTypes
    <3>3. QED  BY <1>19, <3>2 DEF GhostTypes, InsertFails, Fault
  <2>3. LocalTypes'
    BY <1>19, <1>1, <1>2, <1>8, MoveTyped DEF InsertFails, Fault
  <2>4. QED  BY <2>1, <2>2, <2>3 DEF TypeOK
<1>20. ASSUME InsertRejected(t) PROVE TypeOK'
  <2>1. BufferTypes'
    BY <1>20 DEF BufferTypes, InsertRejected, Fault
  <2>2. GhostTypes'
    BY <1>20 DEF GhostTypes, InsertRejected, Fault
  <2>3. LocalTypes'
    BY <1>20, <1>1, <1>2, <1>8, MoveTyped DEF InsertRejected, Fault
  <2>4. QED  BY <2>1, <2>2, <2>3 DEF TypeOK
<1>21. ASSUME Requeue(t) PROVE TypeOK'
  <2>1. BufferTypes'
    BY <1>21, <1>6 DEF BufferTypes, Requeue
  <2>2. GhostTypes'
    BY <1>21 DEF GhostTypes, Requeue
  <2>3. LocalTypes'
    BY <1>21, <1>1, <1>2, NextTableTyped DEF Requeue
  <2>4. QED  BY <2>1, <2>2, <2>3 DEF TypeOK
<1>22. ASSUME RequeueToMemory(t) PROVE TypeOK'
  <2>1. BufferTypes'
    BY <1>22, <1>7 DEF BufferTypes, RequeueToMemory
  <2>2. GhostTypes'
    BY <1>22 DEF GhostTypes, RequeueToMemory
  <2>3. LocalTypes'
    BY <1>22, <1>1, <1>2, NextTableTyped DEF RequeueToMemory
  <2>4. QED  BY <2>1, <2>2, <2>3 DEF TypeOK
<1>23. ASSUME RequeueFails(t) PROVE TypeOK'
  <2>1. BufferTypes'
    BY <1>23, <1>6 DEF BufferTypes, RequeueFails, RedisFault, Fault
  <2>2. GhostTypes'
    BY <1>23, <1>1 DEF GhostTypes, RequeueFails, RedisFault, Fault
  <2>3. LocalTypes'
    BY <1>23, <1>1, <1>2, NextTableTyped DEF RequeueFails, RedisFault, Fault
  <2>4. QED  BY <2>1, <2>2, <2>3 DEF TypeOK
<1>24. ASSUME DeadLetter(t) PROVE TypeOK'
  <2>1. BufferTypes'
    BY <1>24, <1>1, <1>5 DEF BufferTypes, DeadLetter
  <2>2. GhostTypes'
    BY <1>24, <1>5 DEF GhostTypes, DeadLetter
  <2>3. LocalTypes'
    BY <1>24, <1>1, <1>2, NextTableTyped DEF DeadLetter
  <2>4. QED  BY <2>1, <2>2, <2>3 DEF TypeOK
<1>25. ASSUME DeadLetterDropped(t) PROVE TypeOK'
  <2>1. BufferTypes'
    BY <1>25 DEF BufferTypes, DeadLetterDropped
  <2>2. GhostTypes'
    BY <1>25, <1>1 DEF GhostTypes, DeadLetterDropped
  <2>3. LocalTypes'
    BY <1>25, <1>1, <1>2, NextTableTyped DEF DeadLetterDropped
  <2>4. QED  BY <2>1, <2>2, <2>3 DEF TypeOK
<1>26. ASSUME DeadLetterFails(t) PROVE TypeOK'
  <2>1. BufferTypes'
    BY <1>26, <1>1, <1>5 DEF BufferTypes, DeadLetterFails, RedisFault, Fault
  <2>2. GhostTypes'
    BY <1>26, <1>1 DEF GhostTypes, DeadLetterFails, RedisFault, Fault
  <2>3. LocalTypes'
    BY <1>26, <1>1, <1>2, NextTableTyped DEF DeadLetterFails, RedisFault, Fault
  <2>4. QED  BY <2>1, <2>2, <2>3 DEF TypeOK
<1>27. ASSUME FlushEnds(t) PROVE TypeOK'
  <2>1. BufferTypes'
    BY <1>27 DEF BufferTypes, FlushEnds, FlushReturns
  <2>2. GhostTypes'
    BY <1>27 DEF GhostTypes, FlushEnds, FlushReturns
  <2>3. LocalTypes'
    BY <1>27, <1>1, <1>2, <1>8, MoveTyped DEF FlushEnds, FlushReturns
  <2>4. QED  BY <2>1, <2>2, <2>3 DEF TypeOK
<1>28. ASSUME FlushEndsFails(t) PROVE TypeOK'
  <2>1. BufferTypes'
    BY <1>28 DEF BufferTypes, FlushEndsFails, FlushReturns, Fault
  <2>2. GhostTypes'
    BY <1>28 DEF GhostTypes, FlushEndsFails, FlushReturns, Fault
  <2>3. LocalTypes'
    BY <1>28, <1>1, <1>2, <1>8, MoveTyped DEF FlushEndsFails, FlushReturns, Fault
  <2>4. QED  BY <2>1, <2>2, <2>3 DEF TypeOK
<1>29. QED
  BY <1>9, <1>10, <1>11, <1>12, <1>13, <1>14, <1>15, <1>16, <1>17, <1>18,
     <1>19, <1>20, <1>21, <1>22, <1>23, <1>24, <1>25, <1>26, <1>27, <1>28
  DEF FlushStep, FlushFailure

\* Time and crashes.
LEMMA RestTyped ==
  ASSUME TypeOK,
         (\E p \in Procs : RedisRetried(p) \/ Crash(p)) \/ LockExpires \/ CircuitExpires
  PROVE  TypeOK'
<1>0. BufferTypes /\ LocalTypes /\ GhostTypes
  BY DEF TypeOK
<1> USE <1>0 DEF buffers, sinks, local, ghosts, marks
<1>1. ASSUME NEW p \in Procs, RedisRetried(p) PROVE TypeOK'
  BY <1>1 DEF TypeOK, BufferTypes, LocalTypes, GhostTypes, RedisRetried
<1>2. ASSUME NEW p \in Procs, Crash(p) PROVE TypeOK'
  <2>1. /\ <<>> \in Seq(Events)
        /\ 1 \in 1..Len(TableSeq)
    BY PipelineAssumption
  <2>2. \A tab \in Tables : ToSet(mem[p][tab]) \subseteq Events
    BY ToSetSubset DEF BufferTypes
  <2>3. \A t \in Threads : ToSet(hand[t]) \cup Carried(t) \subseteq Events
    BY ToSetSubset DEF LocalTypes, Carried
  <2>4. mayLose' \subseteq Events
    <3>1. HeldInMemory(p) \subseteq Events
      BY <2>2 DEF HeldInMemory
    <3>2. HeldByThreads(p) \subseteq Events
      BY <2>3 DEF HeldByThreads, ThreadsOf
    <3>3. QED  BY <1>2, <3>1, <3>2 DEF GhostTypes, Crash
  <2>5. BufferTypes'
    BY <1>2, <2>1 DEF BufferTypes, Crash
  <2>6. GhostTypes'
    BY <1>2, <2>4 DEF GhostTypes, Crash, RedisFault, Fault
  <2>7. LocalTypes'
    <3>1. pc' \in [Threads -> Points]
      BY <1>2 DEF Crash, LocalTypes, Points
    <3>2. hand' \in [Threads -> Seq(Events)]
      BY <1>2, <2>1 DEF Crash, LocalTypes
    <3>3. item' \in [Threads -> Events \cup {NoEvent}]
      BY <1>2 DEF Crash, LocalTypes
    <3>4. ti' \in [Threads -> 1..Len(TableSeq)]
      BY <1>2, <2>1 DEF Crash, LocalTypes
    <3>5. \A t \in Threads : pc'[t] \in {"pipe", "trim"} => item'[t] \in Events
      BY <1>2 DEF Crash, LocalTypes
    <3>6. QED  BY <3>1, <3>2, <3>3, <3>4, <3>5 DEF LocalTypes
  <2>8. QED  BY <2>5, <2>6, <2>7 DEF TypeOK
<1>3. ASSUME LockExpires PROVE TypeOK'
  <2>1. GhostTypes'
    BY <1>3 DEF GhostTypes, LockExpires, Active, Fault
  <2>2. BufferTypes' /\ LocalTypes'
    BY <1>3 DEF BufferTypes, LocalTypes, LockExpires
  <2>3. QED  BY <2>1, <2>2 DEF TypeOK
<1>4. ASSUME CircuitExpires PROVE TypeOK'
  BY <1>4 DEF TypeOK, BufferTypes, LocalTypes, GhostTypes, CircuitExpires
<1>5. QED  BY <1>1, <1>2, <1>3, <1>4

LEMMA InitTyped == Init => TypeOK
<1>1. <<>> \in Seq(Events) /\ 1 \in 1..Len(TableSeq)
  BY PipelineAssumption
<1>2a. [tab \in Tables |-> <<>>] \in [Tables -> Seq(Events)]
  BY <1>1
<1>2b. [p \in Procs |-> [tab \in Tables |-> <<>>]] \in [Procs -> [Tables -> Seq(Events)]]
  BY <1>2a
<1>2. Init => BufferTypes
  <2>1. SUFFICES ASSUME Init PROVE BufferTypes
    OBVIOUS
  <2>2. [p \in Procs |-> FALSE] \in [Procs -> BOOLEAN]
    OBVIOUS
  <2>3. QED  BY <1>2a, <1>2b, <2>1, <2>2, Zenon DEF Init, BufferTypes
<1>3. Init => LocalTypes
  BY <1>1 DEF Init, LocalTypes, Points
<1>4. Init => GhostTypes
  <2>1. SUFFICES ASSUME Init PROVE GhostTypes
    OBVIOUS
  <2>2. entered \in [Tables -> Seq(Events)]
    BY <1>2a, <2>1, Zenon DEF Init
  <2>3. faults \in Nat /\ breaks \in Nat /\ shaken \in BOOLEAN
    BY <2>1 DEF Init
  <2>4. accepted = {} /\ mayLose = {} /\ mayDup = {}
    BY <2>1 DEF Init
  <2>5. QED  BY <2>2, <2>3, <2>4 DEF GhostTypes
<1>5. QED  BY <1>2, <1>3, <1>4 DEF TypeOK

LEMMA NextTyped == TypeOK /\ [Next]_vars => TypeOK'
<1>1. ASSUME TypeOK, Next PROVE TypeOK'
  BY <1>1, PushTyped, FlushTyped, RestTyped DEF Next
<1>2. TypeOK /\ UNCHANGED vars => TypeOK'
  BY DEF TypeOK, BufferTypes, LocalTypes, GhostTypes, vars, buffers, sinks, local, ghosts
<1>3. QED  BY <1>1, <1>2

\* Every variable keeps its type in every behaviour of the pipeline.
THEOREM TypeCorrect == Spec => []TypeOK
BY InitTyped, NextTyped, PTL DEF Spec

-----------------------------------------------------------------------------
(* The flush lock *)

\* The strengthening of FlushersBounded: the key, while it exists, stands for
\* one flusher, so that a further one can only begin when the count allows it.
LockCounts == Cardinality(Active) <= breaks + (IF lock THEN 1 ELSE 0)

LEMMA ActiveFinite == IsFiniteSet(Active) /\ Cardinality(Active) \in Nat
<1>1. Active \subseteq Flushers /\ IsFiniteSet(Flushers)
  BY PipelineAssumption DEF Active
<1>2. QED  BY <1>1, FS_Subset, FS_CardinalityType

\* A thread that is not a flusher at the idle point before and after a step
\* leaves the set of active flushers alone.
LEMMA ActiveSame ==
  ASSUME TypeOK, NEW t \in Threads, NEW point, Goto(t, point),
         t \in Pushers \/ (pc[t] # "idle" /\ point # "idle")
  PROVE  Active' = Active
<1>1. pc \in [Threads -> Points] /\ Flushers \subseteq Threads
  BY DEF TypeOK, LocalTypes, Threads
<1>2. t \in Pushers => t \notin Flushers
  BY PipelineAssumption
<1>3. \A u \in Flushers : (pc'[u] # "idle") <=> (pc[u] # "idle")
  BY <1>1, <1>2 DEF Goto
<1>4. QED  BY <1>3 DEF Active

LEMMA PushKeepsLock ==
  ASSUME TypeOK, NEW t \in Pushers, Push(t)
  PROVE  Active' = Active /\ lock' = lock /\ breaks' = breaks
<1>1. t \in Threads
  BY DEF Threads
<1> USE <1>1 DEF local, ghosts, marks
<1>2. ASSUME NEW e \in Events, PushToMemory(t, e) \/ PushDrain(t, e)
      PROVE  Active' = Active /\ lock' = lock /\ breaks' = breaks
  <2>1. CASE PushToMemory(t, e)
    BY <2>1 DEF PushToMemory, Active
  <2>2. CASE PushDrain(t, e)
    BY <2>2, ActiveSame DEF PushDrain
  <2>3. QED  BY <1>2, <2>1, <2>2
<1>3. CASE PushPipeline(t)
  BY <1>3, ActiveSame DEF PushPipeline, PushReturns
<1>4. CASE PushPipelineFails(t)
  BY <1>4, ActiveSame DEF PushPipelineFails, FallBackToMemory, PushReturns
<1>5. CASE PushTrim(t)
  BY <1>5, ActiveSame DEF PushTrim, PushReturns
<1>6. CASE PushTrimFails(t)
  BY <1>6, ActiveSame DEF PushTrimFails, FallBackToMemory, PushReturns
<1>7. QED  BY <1>2, <1>3, <1>4, <1>5, <1>6 DEF Push

\* Between its beginning and its end a flush touches neither the key nor the
\* set of active flushers.
LEMMA MiddleKeepsLock ==
  ASSUME TypeOK, NEW t \in Flushers,
         FlushStep(t) \/ FlushFailure(t),
         ~FlushEnds(t), ~FlushEndsFails(t), ~FlushBeginsUnlocked(t)
  PROVE  Active' = Active /\ lock' = lock /\ breaks' = breaks
<1>1. t \in Threads
  BY DEF Threads
<1> USE <1>1 DEF ghosts, marks
<1>2. ASSUME pc[t] # "idle", NextTable(t) PROVE Active' = Active
  <2>1. Goto(t, "table") \/ Goto(t, "release")
    BY <1>2 DEF NextTable
  <2>2. QED  BY <1>2, <2>1, ActiveSame
<1>3. ASSUME SkipTable(t) \/ PopMemory(t) \/ PopBatch(t) \/ PopBatchFails(t)
      PROVE  Active' = Active /\ lock' = lock /\ breaks' = breaks
  BY <1>2, <1>3, ActiveSame DEF SkipTable, PopMemory, PopBatch, PopBatchFails
<1>4. ASSUME PopDrain(t) \/ PopResidual(t) \/ PopResidualFails(t)
      PROVE  Active' = Active /\ lock' = lock /\ breaks' = breaks
  BY <1>4, ActiveSame DEF PopDrain, PopResidual, PopResidualFails
<1>5. ASSUME InsertSucceeds(t) \/ InsertFails(t) \/ InsertRejected(t)
      PROVE  Active' = Active /\ lock' = lock /\ breaks' = breaks
  BY <1>2, <1>5, ActiveSame DEF InsertSucceeds, InsertFails, InsertRejected
<1>6. ASSUME Requeue(t) \/ RequeueToMemory(t) \/ RequeueFails(t)
      PROVE  Active' = Active /\ lock' = lock /\ breaks' = breaks
  BY <1>2, <1>6 DEF Requeue, RequeueToMemory, RequeueFails
<1>7. ASSUME DeadLetter(t) \/ DeadLetterDropped(t) \/ DeadLetterFails(t)
      PROVE  Active' = Active /\ lock' = lock /\ breaks' = breaks
  BY <1>2, <1>7 DEF DeadLetter, DeadLetterDropped, DeadLetterFails
<1>8. QED  BY <1>3, <1>4, <1>5, <1>6, <1>7 DEF FlushStep, FlushFailure

LEMMA LockCountsInit == Init => LockCounts
<1>1. ASSUME Init PROVE Active = {}
  <2>1. \A t \in Flushers : pc[t] = "idle"
    BY <1>1 DEF Init, Threads
  <2>2. QED  BY <2>1 DEF Active
<1>2. Init => breaks = 0
  BY DEF Init
<1>3. QED  BY <1>1, <1>2, FS_EmptySet DEF LockCounts

LEMMA LockCountsStep == TypeOK /\ LockCounts /\ [Next]_vars => LockCounts'
<1> SUFFICES ASSUME TypeOK, LockCounts, [Next]_vars PROVE LockCounts'
  OBVIOUS
<1>0. breaks \in Nat /\ lock \in BOOLEAN /\ pc \in [Threads -> Points]
  BY DEF TypeOK, GhostTypes, BufferTypes, LocalTypes
<1>1. IsFiniteSet(Active) /\ Cardinality(Active) \in Nat
  BY ActiveFinite
<1>2. ASSUME Active' = Active, lock' = lock, breaks' = breaks PROVE LockCounts'
  BY <1>2 DEF LockCounts
<1>3. ASSUME NEW t \in Pushers, Push(t) PROVE LockCounts'
  BY <1>2, <1>3, PushKeepsLock
<1>4. ASSUME NEW t \in Flushers, FlushBegins(t) \/ FlushBeginsUnlocked(t) PROVE LockCounts'
  <2>1. Active' = Active \cup {t} /\ t \notin Active
    BY <1>0, <1>4 DEF FlushBegins, FlushBeginsUnlocked, Goto, Active, Threads
  <2>2. Cardinality(Active') = Cardinality(Active) + 1
    BY <1>1, <2>1, FS_AddElement
  <2>3. CASE FlushBegins(t)
    BY <1>0, <1>1, <2>2, <2>3 DEF FlushBegins, LockFree, LockCounts, ghosts
  <2>4. CASE FlushBeginsUnlocked(t)
    BY <1>0, <1>1, <2>2, <2>4 DEF FlushBeginsUnlocked, LockCounts
  <2>5. QED  BY <1>4, <2>3, <2>4
<1>5. ASSUME NEW t \in Flushers, FlushEnds(t) \/ FlushEndsFails(t) PROVE LockCounts'
  <2>1. Active' = Active \ {t} /\ t \in Active
    BY <1>0, <1>5 DEF FlushEnds, FlushEndsFails, FlushReturns, Goto, Active, Threads
  <2>2. Cardinality(Active') = Cardinality(Active) - 1
    BY <1>1, <2>1, FS_RemoveElement
  <2>3. breaks' = breaks /\ (lock' = lock \/ lock' = FALSE)
    BY <1>5 DEF FlushEnds, FlushEndsFails
  <2>4. QED  BY <1>0, <1>1, <2>2, <2>3 DEF LockCounts
<1>6. ASSUME NEW t \in Flushers, FlushStep(t) \/ FlushFailure(t) PROVE LockCounts'
  BY <1>2, <1>4, <1>5, <1>6, MiddleKeepsLock
<1>7. ASSUME NEW p \in Procs, Crash(p) PROVE LockCounts'
  <2>1. Active' \subseteq Active
    BY <1>7 DEF Crash, Active, Threads
  <2>2. Cardinality(Active') \in Nat /\ Cardinality(Active') <= Cardinality(Active)
    BY <1>1, <2>1, FS_Subset, FS_CardinalityType
  <2>3. lock' = lock /\ breaks' = breaks
    BY <1>7 DEF Crash
  <2>4. QED  BY <1>0, <1>1, <2>2, <2>3 DEF LockCounts
<1>8. ASSUME NEW p \in Procs, RedisRetried(p) PROVE LockCounts'
  BY <1>2, <1>8 DEF RedisRetried, Active, local, ghosts
<1>9. CASE LockExpires
  <2>1. Active' = Active /\ lock' = FALSE /\ lock
    BY <1>9 DEF LockExpires, Active, local
  <2>2. CASE Active = {}
    <3>1. Cardinality(Active) = 0 /\ (breaks' = breaks \/ breaks' = breaks + 1)
      BY <1>9, <2>2, FS_EmptySet DEF LockExpires
    <3>2. QED  BY <1>0, <2>1, <3>1 DEF LockCounts
  <2>3. CASE Active # {}
    <3>1. breaks' = breaks + 1
      BY <1>9, <2>3 DEF LockExpires
    <3>2. QED  BY <1>0, <1>1, <2>1, <3>1 DEF LockCounts
  <2>4. QED  BY <2>2, <2>3
<1>10. CASE CircuitExpires
  BY <1>2, <1>10 DEF CircuitExpires, Active, local, ghosts
<1>11. CASE UNCHANGED vars
  BY <1>2, <1>11 DEF vars, Active, local, ghosts
<1>12. QED
  BY <1>3, <1>4, <1>6, <1>7, <1>8, <1>9, <1>10, <1>11 DEF Next

\* The flush lock admits at most one flusher, and one more for each time the
\* lock expired under a running flush or could not be asked for.
THEOREM FlushLockBounds == Spec => []FlushersBounded
<1>1. TypeOK /\ LockCounts => FlushersBounded
  BY ActiveFinite DEF LockCounts, FlushersBounded, TypeOK, GhostTypes
<1>2. QED
  BY <1>1, InitTyped, NextTyped, LockCountsInit, LockCountsStep, PTL DEF Spec

-----------------------------------------------------------------------------
(* The invariant *)

\* Event e is in a buffer, in a sink or in the hands of a thread.
Lies(e) ==
  \/ \E tab \in Tables : e \in ToSet(redis[tab]) \cup ToSet(stored[tab]) \cup ToSet(dlq[tab])
  \/ \E p \in Procs, tab \in Tables : e \in ToSet(mem[p][tab])
  \/ \E t \in Threads : e \in ToSet(hand[t]) \cup Carried(t)

\* NoLoss, with the places of an event reduced to whether there is one.
Kept == \A e \in accepted : Lies(e) \/ e \in mayLose

\* A thread takes rows only with empty hands, so that it drops none.
HandsEmpty ==
  \A t \in Threads : pc[t] \in {"idle", "trim", "table", "lpop", "release"} => hand[t] = <<>>

\* The events that a step of t on table tab may move.
Here(t, tab) ==
  ToSet(redis[tab]) \cup ToSet(stored[tab]) \cup ToSet(dlq[tab])
  \cup ToSet(mem[ProcOf[t]][tab]) \cup ToSet(hand[t]) \cup Carried(t)

\* The step leaves everything else alone.
Touches(t, tab) ==
  /\ \A u \in Tables \ {tab} :
       redis'[u] = redis[u] /\ stored'[u] = stored[u] /\ dlq'[u] = dlq[u]
  /\ \A p \in Procs, u \in Tables : p # ProcOf[t] \/ u # tab => mem'[p][u] = mem[p][u]
  /\ \A u \in Threads \ {t} : pc'[u] = pc[u] /\ item'[u] = item[u] /\ hand'[u] = hand[u]

-----------------------------------------------------------------------------
(* Lemmas *)

LEMMA ToSetEmpty == ToSet(<<>>) = {}
BY DEF ToSet

\* An event outside of what the step touches stays where it is.
LEMMA ElsewhereStays ==
  ASSUME NEW t \in Threads, NEW tab \in Tables, Touches(t, tab),
         NEW e, Lies(e), e \notin Here(t, tab)
  PROVE  Lies(e)'
<1>1. CASE \E u \in Tables : e \in ToSet(redis[u]) \cup ToSet(stored[u]) \cup ToSet(dlq[u])
  <2>1. PICK u \in Tables : e \in ToSet(redis[u]) \cup ToSet(stored[u]) \cup ToSet(dlq[u])
    BY <1>1
  <2>2. u # tab
    BY <2>1 DEF Here
  <2>3. e \in ToSet(redis'[u]) \cup ToSet(stored'[u]) \cup ToSet(dlq'[u])
    BY <2>1, <2>2 DEF Touches
  <2>4. QED  BY <2>3 DEF Lies
<1>2. CASE \E p \in Procs, u \in Tables : e \in ToSet(mem[p][u])
  <2>1. PICK p \in Procs, u \in Tables : e \in ToSet(mem[p][u])
    BY <1>2
  <2>2. p # ProcOf[t] \/ u # tab
    BY <2>1 DEF Here
  <2>3. e \in ToSet(mem'[p][u])
    BY <2>1, <2>2 DEF Touches
  <2>4. QED  BY <2>3 DEF Lies
<1>3. CASE \E u \in Threads : e \in ToSet(hand[u]) \cup Carried(u)
  <2>1. PICK u \in Threads : e \in ToSet(hand[u]) \cup Carried(u)
    BY <1>3
  <2>2. u # t
    BY <2>1 DEF Here
  <2>3. e \in ToSet(hand'[u]) \cup Carried(u)'
    BY <2>1, <2>2 DEF Touches, Carried
  <2>4. QED  BY <2>3 DEF Lies
<1>4. QED  BY <1>1, <1>2, <1>3 DEF Lies

\* What a step touches lies somewhere after it.
LEMMA HereLies ==
  ASSUME NEW t \in Threads, NEW tab \in Tables, NEW e \in Here(t, tab)'
  PROVE  Lies(e)'
<1>1. ProcOf[t] \in Procs
  BY PipelineAssumption
<1>2. QED  BY <1>1 DEF Here, Lies

\* A step that drops nothing of what it touches, but for what may be lost, and
\* puts what it accepts there, keeps every event.
LEMMA Conserved ==
  ASSUME Kept, NEW t \in Threads, NEW tab \in Tables, Touches(t, tab),
         mayLose \subseteq mayLose',
         Here(t, tab) \subseteq Here(t, tab)' \cup mayLose',
         accepted' \subseteq accepted \cup Here(t, tab)' \cup mayLose'
  PROVE  Kept'
<1>1. ASSUME NEW e \in accepted' PROVE Lies(e)' \/ e \in mayLose'
  <2>1. CASE e \in Here(t, tab)' \cup mayLose'
    BY <2>1, HereLies
  <2>2. CASE e \in accepted /\ e \in Here(t, tab)
    BY <2>2, HereLies
  <2>3. CASE e \in accepted /\ e \notin Here(t, tab)
    BY <2>3, ElsewhereStays DEF Kept
  <2>4. QED  BY <1>1, <2>1, <2>2, <2>3
<1>2. QED  BY <1>1 DEF Kept

\* An element of a list has a position there.
LEMMA ElementHasPlace ==
  ASSUME NEW name, NEW q, NEW k \in DOMAIN q, NEW e \in ToSet(q[k])
  PROVE  PlacesIn(name, q, e) # {}
<1>1. PICK i \in DOMAIN q[k] : q[k][i] = e
  BY DEF ToSet
<1>2. <<name, k, i>> \in PlacesIn(name, q, e)
  BY <1>1 DEF PlacesIn
<1>3. QED  BY <1>2

\* An event that lies somewhere has a place in the sense of NoLoss.
LEMMA LiesHasPlace ==
  ASSUME TypeOK, NEW e, Lies(e)
  PROVE  Places(e) # {}
<1>0. /\ DOMAIN redis = Tables /\ DOMAIN stored = Tables /\ DOMAIN dlq = Tables
      /\ DOMAIN hand = Threads /\ \A p \in Procs : DOMAIN mem[p] = Tables
  BY DEF TypeOK, BufferTypes, LocalTypes
<1>1. ASSUME NEW tab \in Tables, e \in ToSet(redis[tab]) \cup ToSet(stored[tab]) \cup ToSet(dlq[tab])
      PROVE  Places(e) # {}
  <2>1. \/ PlacesIn("redis", redis, e) # {}
        \/ PlacesIn("stored", stored, e) # {}
        \/ PlacesIn("dlq", dlq, e) # {}
    BY <1>0, <1>1, ElementHasPlace
  <2>2. QED  BY <2>1 DEF Places
<1>2. ASSUME NEW p \in Procs, NEW tab \in Tables, e \in ToSet(mem[p][tab])
      PROVE  Places(e) # {}
  <2>1. PICK x : x \in PlacesIn("list", mem[p], e)
    BY <1>0, <1>2, ElementHasPlace
  <2>2. <<"mem", p, x>> \in PlacesInMemory(e)
    BY <2>1 DEF PlacesInMemory
  <2>3. QED  BY <2>2 DEF Places
<1>3. ASSUME NEW t \in Threads, e \in ToSet(hand[t]) PROVE Places(e) # {}
  <2>1. PlacesIn("hand", hand, e) # {}
    BY <1>0, <1>3, ElementHasPlace
  <2>2. QED  BY <2>1 DEF Places
<1>4. ASSUME NEW t \in Threads, e \in Carried(t) PROVE Places(e) # {}
  <2>1. <<"item", t>> \in PlacesAsPayload(e)
    BY <1>4 DEF PlacesAsPayload
  <2>2. QED  BY <2>1 DEF Places
<1>5. QED  BY <1>1, <1>2, <1>3, <1>4 DEF Lies

-----------------------------------------------------------------------------
(* Pushing threads *)

\* The lists that a step may touch are sequences of events.
LEMMA ListTypes ==
  ASSUME TypeOK, NEW t \in Threads, NEW tab \in Tables
  PROVE  /\ redis[tab] \in Seq(Events)
         /\ stored[tab] \in Seq(Events)
         /\ dlq[tab] \in Seq(Events)
         /\ mem[ProcOf[t]][tab] \in Seq(Events)
         /\ hand[t] \in Seq(Events)
         /\ ProcOf[t] \in Procs
         /\ MaxSize \in Nat \ {0} /\ BatchSize \in Nat \ {0} /\ DlqMax \in Nat \ {0}
BY PipelineAssumption DEF TypeOK, BufferTypes, LocalTypes

\* What appending an event to the memory of a process keeps and cuts off.
LEMMA AppendToMemoryKeeps ==
  ASSUME TypeOK, NEW t \in Threads, NEW tab \in Tables, NEW e \in Events,
         AppendToMemory(ProcOf[t], tab, e)
  PROVE  /\ \A p \in Procs, u \in Tables : p # ProcOf[t] \/ u # tab => mem'[p][u] = mem[p][u]
         /\ ToSet(mem[ProcOf[t]][tab]) \cup {e}
              = ToSet(mem'[ProcOf[t]][tab]) \cup MemoryOverflow(ProcOf[t], tab, e)
<1> DEFINE p == ProcOf[t]
           grown == Append(mem[p][tab], e)
<1>1. /\ mem[p][tab] \in Seq(Events) /\ p \in Procs
      /\ MaxSize \in Nat \ {0}
      /\ mem \in [Procs -> [Tables -> Seq(Events)]]
  BY ListTypes DEF TypeOK, BufferTypes
<1>2. grown \in Seq(Events) /\ ToSet(grown) = ToSet(mem[p][tab]) \cup {e}
  BY <1>1, ToSetAppend
<1> HIDE DEF grown
<1>3. ToSet(grown) = CutOff(grown, MaxSize) \cup ToSet(KeepLast(grown, MaxSize))
  BY <1>1, <1>2, KeepLastSplits
<1>4. mem'[p][tab] = KeepLast(grown, MaxSize)
  BY <1>1 DEF AppendToMemory, grown
<1>5. \A r \in Procs, u \in Tables : r # p \/ u # tab => mem'[r][u] = mem[r][u]
  BY <1>1 DEF AppendToMemory
<1>6. QED  BY <1>2, <1>3, <1>4, <1>5 DEF MemoryOverflow, grown

LEMMA PushToMemoryKeeps ==
  ASSUME TypeOK, Kept, NEW t \in Pushers, NEW e \in Events, PushToMemory(t, e)
  PROVE  Kept'
<1> DEFINE tab == TableOf[e]
<1>1. t \in Threads /\ tab \in Tables
  BY PipelineAssumption DEF Threads
<1>2. /\ \A p \in Procs, u \in Tables : p # ProcOf[t] \/ u # tab => mem'[p][u] = mem[p][u]
      /\ ToSet(mem[ProcOf[t]][tab]) \cup {e}
           = ToSet(mem'[ProcOf[t]][tab]) \cup MemoryOverflow(ProcOf[t], tab, e)
  BY <1>1, AppendToMemoryKeeps DEF PushToMemory
<1>3. Touches(t, tab)
  BY <1>2 DEF Touches, PushToMemory, sinks, local
<1>4. Carried(t)' = Carried(t)
  BY DEF PushToMemory, Carried, local
<1>5. Here(t, tab) \cup {e} \subseteq Here(t, tab)' \cup mayLose'
  BY <1>2, <1>4 DEF Here, PushToMemory, sinks, local
<1>6. accepted' = accepted \cup {e} /\ mayLose \subseteq mayLose'
  BY DEF PushToMemory
<1>7. QED  BY <1>1, <1>3, <1>5, <1>6, Conserved

LEMMA PushDrainKeeps ==
  ASSUME TypeOK, Kept, HandsEmpty, NEW t \in Pushers, NEW e \in Events, PushDrain(t, e)
  PROVE  Kept'
<1> DEFINE tab == TableOf[e]
<1>1. t \in Threads /\ tab \in Tables
  BY PipelineAssumption DEF Threads
<1>2. ProcOf[t] \in Procs /\ mem \in [Procs -> [Tables -> Seq(Events)]]
  BY <1>1, ListTypes DEF TypeOK, BufferTypes
<1>3. pc \in [Threads -> Points] /\ hand \in [Threads -> Seq(Events)]
      /\ item \in [Threads -> Events \cup {NoEvent}]
  BY DEF TypeOK, LocalTypes
<1>4. Touches(t, tab)
  BY <1>1, <1>2, <1>3 DEF Touches, PushDrain, sinks, Holds, Goto
<1>5. hand[t] = <<>> /\ Carried(t) = {}
  BY <1>1 DEF HandsEmpty, PushDrain, Carried
<1>6. hand'[t] = mem[ProcOf[t]][tab] /\ Carried(t)' = {e}
  BY <1>1, <1>3 DEF PushDrain, Holds, Goto, Carried, Memory
<1>7. Here(t, tab) \cup {e} \subseteq Here(t, tab)' \cup mayLose'
  BY <1>5, <1>6, ToSetEmpty DEF Here, PushDrain, sinks
<1>8. accepted' = accepted \cup {e} /\ mayLose' = mayLose
  BY DEF PushDrain
<1>9. QED  BY <1>1, <1>4, <1>7, <1>8, Conserved

\* A thread that returns from a push has nothing left.
LEMMA PushReturnsHands ==
  ASSUME TypeOK, NEW t \in Threads, PushReturns(t)
  PROVE  /\ \A u \in Threads \ {t} : pc'[u] = pc[u] /\ item'[u] = item[u] /\ hand'[u] = hand[u]
         /\ pc'[t] = "idle" /\ hand'[t] = <<>> /\ Carried(t)' = {}
BY DEF TypeOK, LocalTypes, PushReturns, Goto, Holds, Carried

LEMMA PushPipelineKeeps ==
  ASSUME TypeOK, Kept, NEW t \in Pushers, PushPipeline(t)
  PROVE  Kept'
<1>0. t \in Threads /\ item[t] \in Events
  BY DEF TypeOK, LocalTypes, PushPipeline, Threads
<1>1. PICK tab \in Tables : tab = ItemTable(t)
  BY <1>0, ThreadFacts
<1>2. redis[tab] \in Seq(Events) /\ hand[t] \in Seq(Events)
  BY <1>0, ListTypes
<1>3. PICK rows \in Seq(Events) :
        rows = Append(hand[t], item[t]) /\ ToSet(rows) = ToSet(hand[t]) \cup {item[t]}
  <2>1. Append(hand[t], item[t]) \in Seq(Events)
    BY <1>0, <1>2
  <2>2. ToSet(Append(hand[t], item[t])) = ToSet(hand[t]) \cup {item[t]}
    BY <1>0, <1>2, ToSetAppend, SMTT(40)
  <2>3. QED  BY <2>1, <2>2
<1>4. ToSet(redis[tab] \o rows) = ToSet(redis[tab]) \cup ToSet(hand[t]) \cup {item[t]}
  <2>1. ToSet(redis[tab] \o rows) = ToSet(redis[tab]) \cup ToSet(rows)
    BY <1>2, ToSetConcat
  <2>2. QED  BY <1>3, <2>1
<1>5. /\ \A u \in Threads \ {t} : pc'[u] = pc[u] /\ item'[u] = item[u] /\ hand'[u] = hand[u]
      /\ hand'[t] = <<>> /\ Carried(t)' = {}
  <2>1. CASE Goto(t, "trim") /\ Holds(t, <<>>) /\ item' = item
    BY <1>0, <2>1 DEF TypeOK, LocalTypes, Goto, Holds, Carried
  <2>2. CASE PushReturns(t)
    BY <1>0, <2>2, PushReturnsHands
  <2>3. QED  BY <2>1, <2>2 DEF PushPipeline
<1>6. redis'[tab] = redis[tab] \o rows /\ \A u \in Tables \ {tab} : redis'[u] = redis[u]
  BY <1>1, <1>3 DEF PushPipeline, TypeOK, BufferTypes
<1>7. Touches(t, tab)
  BY <1>5, <1>6 DEF Touches, PushPipeline, sinks
<1>8. Carried(t) = {item[t]}
  BY DEF Carried, PushPipeline
<1>9. Here(t, tab) \subseteq Here(t, tab)' \cup mayLose'
  BY <1>4, <1>5, <1>6, <1>8 DEF Here, PushPipeline, sinks
<1>10. accepted' = accepted /\ mayLose' = mayLose
  BY DEF PushPipeline
<1>11. QED  BY <1>0, <1>7, <1>9, <1>10, Conserved

\* After a push that raised, the payload is in memory or was cut off there.
LEMMA FallBackKeeps ==
  ASSUME TypeOK, NEW t \in Threads, item[t] \in Events, FallBackToMemory(t)
  PROVE  /\ \A p \in Procs, u \in Tables :
              p # ProcOf[t] \/ u # ItemTable(t) => mem'[p][u] = mem[p][u]
         /\ ToSet(mem[ProcOf[t]][ItemTable(t)]) \cup {item[t]}
              = ToSet(mem'[ProcOf[t]][ItemTable(t)])
                \cup MemoryOverflow(ProcOf[t], ItemTable(t), item[t])
         /\ \A u \in Threads \ {t} : pc'[u] = pc[u] /\ item'[u] = item[u] /\ hand'[u] = hand[u]
         /\ hand'[t] = <<>> /\ Carried(t)' = {}
<1>1. ItemTable(t) \in Tables
  BY ThreadFacts
<1>2. QED  BY <1>1, AppendToMemoryKeeps, PushReturnsHands, SMTT(30) DEF FallBackToMemory

LEMMA PushPipelineFailsKeeps ==
  ASSUME TypeOK, Kept, NEW t \in Pushers, PushPipelineFails(t)
  PROVE  Kept'
<1>0. t \in Threads /\ item[t] \in Events
  BY DEF TypeOK, LocalTypes, PushPipelineFails, Threads
<1>1. PICK tab \in Tables : tab = ItemTable(t)
  BY <1>0, ThreadFacts
<1> DEFINE overflow == MemoryOverflow(ProcOf[t], tab, item[t])
<1>2. redis[tab] \in Seq(Events) /\ hand[t] \in Seq(Events)
  BY <1>0, ListTypes
<1>3. /\ \A p \in Procs, u \in Tables : p # ProcOf[t] \/ u # tab => mem'[p][u] = mem[p][u]
      /\ ToSet(mem[ProcOf[t]][tab]) \cup {item[t]} = ToSet(mem'[ProcOf[t]][tab]) \cup overflow
      /\ \A u \in Threads \ {t} : pc'[u] = pc[u] /\ item'[u] = item[u] /\ hand'[u] = hand[u]
      /\ hand'[t] = <<>> /\ Carried(t)' = {}
  BY <1>0, <1>1, FallBackKeeps DEF PushPipelineFails
<1>4. PICK pushed \in Seq(Events), gone \in SUBSET Events :
        /\ redis' = [redis EXCEPT ![tab] = @ \o pushed]
        /\ mayLose' = mayLose \cup gone \cup overflow
        /\ ToSet(hand[t]) \subseteq ToSet(pushed) \cup gone
  <2>1. <<>> \in Seq(Events) /\ Append(hand[t], item[t]) \in Seq(Events)
        /\ ToSet(Append(hand[t], item[t])) = ToSet(hand[t]) \cup {item[t]}
        /\ ToSet(hand[t]) \in SUBSET Events /\ {} \in SUBSET Events
    BY <1>0, <1>2, ToSetAppend, ToSetSubset
  <2>2. QED  BY <1>1, <1>2, <2>1 DEF PushPipelineFails
<1>5. /\ redis'[tab] = redis[tab] \o pushed
      /\ \A u \in Tables \ {tab} : redis'[u] = redis[u]
  BY <1>1, <1>4 DEF TypeOK, BufferTypes
<1>6. ToSet(redis'[tab]) = ToSet(redis[tab]) \cup ToSet(pushed)
  <2>1. ToSet(redis[tab] \o pushed) = ToSet(redis[tab]) \cup ToSet(pushed)
    BY <1>2, ToSetConcat
  <2>2. QED  BY <1>5, <2>1
<1>7. Touches(t, tab)
  BY <1>3, <1>5 DEF Touches, PushPipelineFails, sinks
<1>8. Carried(t) = {item[t]}
  BY DEF Carried, PushPipelineFails
<1>9. Here(t, tab) \subseteq Here(t, tab)' \cup mayLose'
  BY <1>3, <1>4, <1>6, <1>8 DEF Here, PushPipelineFails, sinks
<1>10. accepted' = accepted /\ mayLose \subseteq mayLose'
  BY <1>4 DEF PushPipelineFails, marks
<1>11. QED  BY <1>0, <1>7, <1>9, <1>10, Conserved

LEMMA PushTrimKeeps ==
  ASSUME TypeOK, Kept, HandsEmpty, NEW t \in Pushers, PushTrim(t)
  PROVE  Kept'
<1>0. t \in Threads /\ item[t] \in Events
  BY DEF TypeOK, LocalTypes, PushTrim, Threads
<1>1. PICK tab \in Tables : tab = ItemTable(t)
  BY <1>0, ThreadFacts
<1>2. ToSet(redis[tab]) = CutOff(redis[tab], MaxSize) \cup ToSet(KeepLast(redis[tab], MaxSize))
  <2>1. redis[tab] \in Seq(Events) /\ MaxSize \in Nat \ {0}
    BY <1>0, ListTypes
  <2>2. QED  BY <2>1, KeepLastSplits
<1>3. /\ \A u \in Threads \ {t} : pc'[u] = pc[u] /\ item'[u] = item[u] /\ hand'[u] = hand[u]
      /\ hand'[t] = <<>> /\ Carried(t)' = {}
  BY <1>0, PushReturnsHands DEF PushTrim
<1>4. redis'[tab] = KeepLast(redis[tab], MaxSize) /\ \A u \in Tables \ {tab} : redis'[u] = redis[u]
  BY <1>1 DEF PushTrim, TypeOK, BufferTypes
<1>5. Touches(t, tab)
  BY <1>3, <1>4 DEF Touches, PushTrim, sinks
<1>6. Carried(t) = {} /\ hand[t] = <<>>
  BY <1>0 DEF Carried, HandsEmpty, PushTrim
<1>7. accepted' = accepted /\ mayLose' = mayLose \cup CutOff(redis[tab], MaxSize)
  BY <1>1 DEF PushTrim, marks
<1>8. Here(t, tab) \subseteq Here(t, tab)' \cup mayLose'
  BY <1>2, <1>3, <1>4, <1>6, <1>7 DEF Here, PushTrim, sinks
<1>9. QED  BY <1>0, <1>5, <1>7, <1>8, Conserved

LEMMA PushTrimFailsKeeps ==
  ASSUME TypeOK, Kept, HandsEmpty, NEW t \in Pushers, PushTrimFails(t)
  PROVE  Kept'
<1>0. t \in Threads /\ item[t] \in Events
  BY DEF TypeOK, LocalTypes, PushTrimFails, Threads
<1>1. PICK tab \in Tables : tab = ItemTable(t)
  BY <1>0, ThreadFacts
<1> DEFINE overflow == MemoryOverflow(ProcOf[t], tab, item[t])
<1>2. ToSet(redis[tab]) = CutOff(redis[tab], MaxSize) \cup ToSet(KeepLast(redis[tab], MaxSize))
  <2>1. redis[tab] \in Seq(Events) /\ MaxSize \in Nat \ {0}
    BY <1>0, ListTypes
  <2>2. QED  BY <2>1, KeepLastSplits
<1>3. /\ \A p \in Procs, u \in Tables : p # ProcOf[t] \/ u # tab => mem'[p][u] = mem[p][u]
      /\ ToSet(mem[ProcOf[t]][tab]) \cup {item[t]} = ToSet(mem'[ProcOf[t]][tab]) \cup overflow
      /\ \A u \in Threads \ {t} : pc'[u] = pc[u] /\ item'[u] = item[u] /\ hand'[u] = hand[u]
      /\ hand'[t] = <<>> /\ Carried(t)' = {}
  BY <1>0, <1>1, FallBackKeeps DEF PushTrimFails
<1>4. /\ redis'[tab] = redis[tab] \/ redis'[tab] = KeepLast(redis[tab], MaxSize)
      /\ \A u \in Tables \ {tab} : redis'[u] = redis[u]
  BY <1>1 DEF PushTrimFails, TypeOK, BufferTypes
<1>5. Touches(t, tab)
  BY <1>3, <1>4 DEF Touches, PushTrimFails, sinks
<1>6. Carried(t) = {} /\ hand[t] = <<>>
  BY <1>0 DEF Carried, HandsEmpty, PushTrimFails
<1>7. /\ accepted' = accepted
      /\ mayLose' = mayLose \cup CutOff(redis[tab], MaxSize) \cup overflow
  BY <1>1 DEF PushTrimFails, marks
<1>8. Here(t, tab) \subseteq Here(t, tab)' \cup mayLose'
  BY <1>2, <1>3, <1>4, <1>6, <1>7 DEF Here, PushTrimFails, sinks
<1>9. QED  BY <1>0, <1>5, <1>7, <1>8, Conserved

-----------------------------------------------------------------------------
(* Flushing threads *)

\* A flusher that moves on carries no payload and leaves other threads alone.
LEMMA FlusherMoves ==
  ASSUME TypeOK, NEW t \in Threads, pc[t] # "pipe", item' = item,
         NextTable(t) \/ (\E point \in Points \ {"pipe"} : Goto(t, point)),
         NEW rows, Holds(t, rows) \/ (hand' = hand /\ rows = hand[t])
  PROVE  /\ \A u \in Threads \ {t} : pc'[u] = pc[u] /\ item'[u] = item[u] /\ hand'[u] = hand[u]
         /\ Carried(t) = {} /\ Carried(t)' = {} /\ hand'[t] = rows
<1>1. PICK point \in Points \ {"pipe"} : Goto(t, point)
  <2>1. NextTable(t) => Goto(t, "table") \/ Goto(t, "release")
    BY DEF NextTable
  <2>2. QED  BY <2>1 DEF Points
<1>2. (\A u \in Threads \ {t} : pc'[u] = pc[u]) /\ pc'[t] # "pipe"
  BY <1>1 DEF TypeOK, LocalTypes, Goto
<1>3. (\A u \in Threads \ {t} : hand'[u] = hand[u]) /\ hand'[t] = rows
  BY DEF TypeOK, LocalTypes, Holds
<1>4. QED  BY <1>2, <1>3 DEF Carried

\* Beginnings, ends and waits of a flush move no event.
LEMMA StillKeeps ==
  ASSUME TypeOK, Kept, NEW t \in Threads, pc[t] # "pipe", item' = item, hand' = hand,
         NextTable(t) \/ (\E point \in Points \ {"pipe"} : Goto(t, point)),
         UNCHANGED <<redis, mem, sinks, accepted, mayLose>>
  PROVE  Kept'
<1>1. PICK tab \in Tables : tab = Table(t)
  BY ThreadFacts
<1>2. /\ \A u \in Threads \ {t} : pc'[u] = pc[u] /\ item'[u] = item[u] /\ hand'[u] = hand[u]
      /\ Carried(t) = {} /\ Carried(t)' = {}
  BY FlusherMoves
<1>3. Touches(t, tab)
  BY <1>2 DEF Touches, sinks
<1>4. Here(t, tab) \subseteq Here(t, tab)' \cup mayLose'
  BY <1>2 DEF Here, sinks
<1>5. QED  BY <1>3, <1>4, Conserved

\* What a flusher takes and what it leaves are what was there.
LEMMA BatchSplits ==
  ASSUME NEW s \in Seq(Events)
  PROVE  /\ Taken(s, BatchSize) \in Seq(Events)
         /\ Rest(s, BatchSize) \in Seq(Events)
         /\ ToSet(s) = ToSet(Taken(s, BatchSize)) \cup ToSet(Rest(s, BatchSize))
<1>1. BatchSize \in Nat \ {0}
  BY PipelineAssumption
<1>2. QED  BY <1>1, TakenSplits, SMTT(30)

LEMMA PopMemoryKeeps ==
  ASSUME TypeOK, Kept, HandsEmpty, NEW t \in Flushers, PopMemory(t)
  PROVE  Kept'
<1>0. t \in Threads
  BY DEF Threads
<1>1. PICK tab \in Tables : tab = Table(t)
  BY <1>0, ThreadFacts
<1>2. PICK p \in Procs : p = ProcOf[t]
  BY <1>0, ListTypes
<1>3. PICK rows : rows = Taken(mem[p][tab], BatchSize)
  OBVIOUS
<1>4. ToSet(mem[p][tab]) = ToSet(rows) \cup ToSet(Rest(mem[p][tab], BatchSize))
  <2>1. mem[p][tab] \in Seq(Events)
    BY <1>0, <1>2, ListTypes
  <2>2. /\ Taken(mem[p][tab], BatchSize) \in Seq(Events)
        /\ Rest(mem[p][tab], BatchSize) \in Seq(Events)
        /\ ToSet(mem[p][tab]) = ToSet(Taken(mem[p][tab], BatchSize)) \cup ToSet(Rest(mem[p][tab], BatchSize))
    BY <2>1, BatchSplits
  <2>3. QED  BY <1>3, <2>2
<1>5. Holds(t, rows) /\ (NextTable(t) \/ Goto(t, "insert")) /\ pc[t] = "table" /\ item' = item
  BY <1>1, <1>2, <1>3 DEF PopMemory
<1>6. /\ \A u \in Threads \ {t} : pc'[u] = pc[u] /\ item'[u] = item[u] /\ hand'[u] = hand[u]
      /\ Carried(t) = {} /\ Carried(t)' = {} /\ hand'[t] = rows
  BY <1>0, <1>5, FlusherMoves DEF Points
<1>7. /\ mem'[p][tab] = Rest(mem[p][tab], BatchSize)
      /\ \A r \in Procs, u \in Tables : r # p \/ u # tab => mem'[r][u] = mem[r][u]
  BY <1>1, <1>2 DEF PopMemory, TypeOK, BufferTypes
<1>8. Touches(t, tab)
  BY <1>2, <1>6, <1>7 DEF Touches, PopMemory, sinks
<1>9. hand[t] = <<>>
  BY <1>0, <1>5 DEF HandsEmpty
<1>10. accepted' = accepted /\ mayLose' = mayLose
  BY DEF PopMemory, ghosts
<1>11. Here(t, tab) \subseteq Here(t, tab)' \cup mayLose'
  BY <1>2, <1>4, <1>6, <1>7, <1>9, ToSetEmpty DEF Here, PopMemory, sinks
<1>12. QED  BY <1>0, <1>8, <1>10, <1>11, Conserved

LEMMA PopDrainKeeps ==
  ASSUME TypeOK, Kept, HandsEmpty, NEW t \in Flushers, PopDrain(t)
  PROVE  Kept'
<1>0. t \in Threads
  BY DEF Threads
<1>1. PICK tab \in Tables : tab = Table(t)
  BY <1>0, ThreadFacts
<1>2. PICK p \in Procs : p = ProcOf[t]
  BY <1>0, ListTypes
<1>3. /\ Holds(t, mem[p][tab]) /\ pc[t] = "table" /\ item' = item
      /\ Goto(t, "lpop") \/ Goto(t, "residual")
  BY <1>1, <1>2 DEF PopDrain
<1>4. /\ \A u \in Threads \ {t} : pc'[u] = pc[u] /\ item'[u] = item[u] /\ hand'[u] = hand[u]
      /\ Carried(t) = {} /\ Carried(t)' = {} /\ hand'[t] = mem[p][tab]
  BY <1>0, <1>3, FlusherMoves DEF Points
<1>5. \A r \in Procs, u \in Tables : r # p \/ u # tab => mem'[r][u] = mem[r][u]
  BY <1>1, <1>2 DEF PopDrain, TypeOK, BufferTypes
<1>6. Touches(t, tab)
  BY <1>2, <1>4, <1>5 DEF Touches, PopDrain, sinks
<1>7. hand[t] = <<>>
  BY <1>0, <1>3 DEF HandsEmpty
<1>8. accepted' = accepted /\ mayLose' = mayLose
  BY DEF PopDrain, ghosts
<1>9. Here(t, tab) \subseteq Here(t, tab)' \cup mayLose'
  BY <1>2, <1>4, <1>7, ToSetEmpty DEF Here, PopDrain, sinks
<1>10. QED  BY <1>0, <1>6, <1>8, <1>9, Conserved

\* A step between the hands of a flusher and the lists of a table keeps every
\* event when each list and the hands pass on what they had.
LEMMA ListsKeep ==
  ASSUME TypeOK, Kept, NEW t \in Threads, NEW tab \in Tables, pc[t] # "pipe", item' = item,
         NextTable(t) \/ (\E point \in Points \ {"pipe"} : Goto(t, point)),
         NEW rows, Holds(t, rows) \/ (hand' = hand /\ rows = hand[t]),
         mem' = mem, accepted' = accepted, mayLose \subseteq mayLose',
         \A u \in Tables \ {tab} : redis'[u] = redis[u] /\ stored'[u] = stored[u] /\ dlq'[u] = dlq[u],
         ToSet(redis[tab]) \cup ToSet(stored[tab]) \cup ToSet(dlq[tab]) \cup ToSet(hand[t])
           \subseteq ToSet(redis'[tab]) \cup ToSet(stored'[tab]) \cup ToSet(dlq'[tab])
                       \cup ToSet(rows) \cup mayLose'
  PROVE  Kept'
<1>1. /\ \A u \in Threads \ {t} : pc'[u] = pc[u] /\ item'[u] = item[u] /\ hand'[u] = hand[u]
      /\ Carried(t) = {} /\ Carried(t)' = {} /\ hand'[t] = rows
  BY FlusherMoves
<1>2. Touches(t, tab)
  BY <1>1 DEF Touches
<1>3. Here(t, tab) \subseteq Here(t, tab)' \cup mayLose'
  BY <1>1 DEF Here
<1>4. QED  BY <1>2, <1>3, Conserved

LEMMA PopResidualKeeps ==
  ASSUME TypeOK, Kept, NEW t \in Flushers, PopResidual(t) \/ PopResidualFails(t)
  PROVE  Kept'
<1>0. t \in Threads
  BY DEF Threads
<1>1. PICK tab \in Tables : tab = Table(t)
  BY <1>0, ThreadFacts
<1>2. ToSet(redis[tab] \o hand[t]) = ToSet(redis[tab]) \cup ToSet(hand[t])
  BY <1>0, ListTypes, ToSetConcat
<1>3. /\ pc[t] = "residual" /\ item' = item /\ Goto(t, "lpop") /\ Holds(t, <<>>)
      /\ mem' = mem /\ accepted' = accepted /\ mayLose \subseteq mayLose'
      /\ stored' = stored /\ dlq' = dlq
  BY DEF PopResidual, PopResidualFails, sinks, marks
<1>4. /\ \A u \in Tables \ {tab} : redis'[u] = redis[u]
      /\ \/ redis'[tab] = redis[tab] \o hand[t]
         \/ redis'[tab] = redis[tab] /\ ToSet(hand[t]) \subseteq mayLose'
  BY <1>1 DEF PopResidual, PopResidualFails, TypeOK, BufferTypes
<1>5. "lpop" \in Points \ {"pipe"}
  BY DEF Points
<1>6. QED  BY <1>0, <1>2, <1>3, <1>4, <1>5, ListsKeep, ZenonT(30)

LEMMA PopBatchKeeps ==
  ASSUME TypeOK, Kept, HandsEmpty, NEW t \in Flushers, PopBatch(t) \/ PopBatchFails(t)
  PROVE  Kept'
<1>0. t \in Threads
  BY DEF Threads
<1>1. PICK tab \in Tables : tab = Table(t)
  BY <1>0, ThreadFacts
<1>2. PICK rows : rows = Taken(redis[tab], BatchSize)
  OBVIOUS
<1>3. ToSet(redis[tab]) = ToSet(rows) \cup ToSet(Rest(redis[tab], BatchSize))
  <2>1. redis[tab] \in Seq(Events)
    BY <1>0, ListTypes
  <2>2. /\ Taken(redis[tab], BatchSize) \in Seq(Events)
        /\ Rest(redis[tab], BatchSize) \in Seq(Events)
        /\ ToSet(redis[tab]) = ToSet(Taken(redis[tab], BatchSize)) \cup ToSet(Rest(redis[tab], BatchSize))
    BY <2>1, BatchSplits
  <2>3. QED  BY <1>2, <2>2
<1>4. /\ pc[t] = "lpop" /\ item' = item /\ (NextTable(t) \/ Goto(t, "insert"))
      /\ mem' = mem /\ accepted' = accepted /\ mayLose \subseteq mayLose'
      /\ stored' = stored /\ dlq' = dlq
  BY DEF PopBatch, PopBatchFails, sinks, marks, ghosts
<1>5. hand[t] = <<>> /\ ToSet(hand[t]) = {}
  BY <1>0, <1>4, ToSetEmpty DEF HandsEmpty
<1>6. \A u \in Tables \ {tab} : redis'[u] = redis[u]
  BY <1>1 DEF PopBatch, PopBatchFails, TypeOK, BufferTypes
<1>7. NextTable(t) \/ \E point \in Points \ {"pipe"} : Goto(t, point)
  BY <1>4 DEF Points
<1>8. CASE PopBatch(t)
  <2>1. redis'[tab] = Rest(redis[tab], BatchSize) /\ Holds(t, rows)
    BY <1>1, <1>2, <1>8 DEF PopBatch, TypeOK, BufferTypes
  <2>2. ToSet(redis[tab]) \cup ToSet(stored[tab]) \cup ToSet(dlq[tab]) \cup ToSet(hand[t])
           \subseteq ToSet(redis'[tab]) \cup ToSet(stored'[tab]) \cup ToSet(dlq'[tab])
                       \cup ToSet(rows) \cup mayLose'
    BY <1>3, <1>4, <1>5, <2>1
  <2>3. QED  BY <1>0, <1>4, <1>6, <1>7, <2>1, <2>2, ListsKeep
<1>9. CASE PopBatchFails(t)
  <2>1. /\ redis'[tab] = redis[tab] \/ redis'[tab] = Rest(redis[tab], BatchSize)
        /\ hand' = hand /\ ToSet(rows) \subseteq mayLose'
    BY <1>1, <1>2, <1>9 DEF PopBatchFails, TypeOK, BufferTypes
  <2>2. ToSet(redis[tab]) \cup ToSet(stored[tab]) \cup ToSet(dlq[tab]) \cup ToSet(hand[t])
           \subseteq ToSet(redis'[tab]) \cup ToSet(stored'[tab]) \cup ToSet(dlq'[tab])
                       \cup ToSet(hand[t]) \cup mayLose'
    BY <1>3, <1>4, <1>5, <2>1
  <2>3. QED  BY <1>0, <1>4, <1>6, <1>7, <2>1, <2>2, ListsKeep
<1>10. QED  BY <1>8, <1>9

LEMMA InsertKeeps ==
  ASSUME TypeOK, Kept, NEW t \in Flushers, InsertSucceeds(t) \/ InsertFails(t)
  PROVE  Kept'
<1>0. t \in Threads
  BY DEF Threads
<1>1. PICK tab \in Tables : tab = Table(t)
  BY <1>0, ThreadFacts
<1>2. ToSet(stored[tab] \o hand[t]) = ToSet(stored[tab]) \cup ToSet(hand[t])
  BY <1>0, ListTypes, ToSetConcat
<1>3. /\ pc[t] = "insert" /\ item' = item /\ (NextTable(t) \/ Goto(t, "requeue"))
      /\ mem' = mem /\ accepted' = accepted /\ mayLose \subseteq mayLose'
      /\ redis' = redis /\ dlq' = dlq
  BY DEF InsertSucceeds, InsertFails, buffers, marks, ghosts
<1>4. NextTable(t) \/ \E point \in Points \ {"pipe"} : Goto(t, point)
  BY <1>3 DEF Points
<1>5. /\ \A u \in Tables \ {tab} : stored'[u] = stored[u]
      /\ \/ stored'[tab] = stored[tab] \o hand[t] /\ Holds(t, <<>>)
         \/ stored'[tab] = stored[tab] \o hand[t] /\ hand' = hand
         \/ stored'[tab] = stored[tab] /\ hand' = hand
  BY <1>1 DEF InsertSucceeds, InsertFails, TypeOK, BufferTypes
<1>6. PICK rows : \/ Holds(t, rows) /\ stored'[tab] = stored[tab] \o hand[t]
                  \/ hand' = hand /\ rows = hand[t]
  BY <1>5
<1>7. ToSet(redis[tab]) \cup ToSet(stored[tab]) \cup ToSet(dlq[tab]) \cup ToSet(hand[t])
        \subseteq ToSet(redis'[tab]) \cup ToSet(stored'[tab]) \cup ToSet(dlq'[tab])
                    \cup ToSet(rows) \cup mayLose'
  BY <1>2, <1>3, <1>5, <1>6
<1>8. QED  BY <1>0, <1>3, <1>4, <1>5, <1>6, <1>7, ListsKeep, ZenonT(30)

LEMMA RequeueKeeps ==
  ASSUME TypeOK, Kept, NEW t \in Flushers, Requeue(t) \/ RequeueFails(t)
  PROVE  Kept'
<1>0. t \in Threads
  BY DEF Threads
<1>1. PICK tab \in Tables : tab = Table(t)
  BY <1>0, ThreadFacts
<1>2. ToSet(hand[t] \o redis[tab]) = ToSet(redis[tab]) \cup ToSet(hand[t])
  <2>1. redis[tab] \in Seq(Events) /\ hand[t] \in Seq(Events)
    BY <1>0, ListTypes
  <2>2. ToSet(hand[t] \o redis[tab]) = ToSet(hand[t]) \cup ToSet(redis[tab])
    BY <2>1, ToSetConcat
  <2>3. QED  BY <2>2
<1>3. /\ pc[t] = "requeue" /\ item' = item /\ NextTable(t) /\ Holds(t, <<>>)
      /\ mem' = mem /\ accepted' = accepted /\ mayLose \subseteq mayLose'
      /\ stored' = stored /\ dlq' = dlq
  BY DEF Requeue, RequeueFails, sinks, marks, ghosts
<1>4. /\ \A u \in Tables \ {tab} : redis'[u] = redis[u]
      /\ \/ redis'[tab] = hand[t] \o redis[tab]
         \/ redis'[tab] = redis[tab] /\ ToSet(hand[t]) \subseteq mayLose'
  BY <1>1 DEF Requeue, RequeueFails, PutBack, TypeOK, BufferTypes
<1>5. QED  BY <1>0, <1>2, <1>3, <1>4, ListsKeep, ZenonT(30)

LEMMA RequeueToMemoryKeeps ==
  ASSUME TypeOK, Kept, NEW t \in Flushers, RequeueToMemory(t)
  PROVE  Kept'
<1>0. t \in Threads
  BY DEF Threads
<1>1. PICK tab \in Tables : tab = Table(t)
  BY <1>0, ThreadFacts
<1>2. PICK p \in Procs : p = ProcOf[t]
  BY <1>0, ListTypes
<1>3. ToSet(hand[t] \o mem[p][tab]) = ToSet(hand[t]) \cup ToSet(mem[p][tab])
  <2>1. mem[p][tab] \in Seq(Events) /\ hand[t] \in Seq(Events)
    BY <1>0, <1>2, ListTypes
  <2>2. QED  BY <2>1, ToSetConcat
<1>4. pc[t] = "requeue" /\ item' = item /\ NextTable(t) /\ Holds(t, <<>>)
  BY DEF RequeueToMemory
<1>5. /\ \A u \in Threads \ {t} : pc'[u] = pc[u] /\ item'[u] = item[u] /\ hand'[u] = hand[u]
      /\ Carried(t) = {} /\ Carried(t)' = {} /\ hand'[t] = <<>>
  BY <1>0, <1>4, FlusherMoves
<1>6. /\ mem'[p][tab] = hand[t] \o mem[p][tab]
      /\ \A r \in Procs, u \in Tables : r # p \/ u # tab => mem'[r][u] = mem[r][u]
  BY <1>1, <1>2 DEF RequeueToMemory, PutBack, TypeOK, BufferTypes
<1>7. Touches(t, tab)
  BY <1>2, <1>5, <1>6 DEF Touches, RequeueToMemory, sinks
<1>8. accepted' = accepted /\ mayLose' = mayLose
  BY DEF RequeueToMemory, ghosts
<1>9. Here(t, tab) \subseteq Here(t, tab)' \cup mayLose'
  BY <1>2, <1>3, <1>5, <1>6, ZenonT(30) DEF Here, RequeueToMemory, sinks
<1>10. QED  BY <1>0, <1>7, <1>8, <1>9, Conserved

LEMMA DeadLetterKeeps ==
  ASSUME TypeOK, Kept, NEW t \in Flushers,
         DeadLetter(t) \/ DeadLetterDropped(t) \/ DeadLetterFails(t)
  PROVE  Kept'
<1>0. t \in Threads
  BY DEF Threads
<1>1. PICK tab \in Tables : tab = Table(t)
  BY <1>0, ThreadFacts
<1>2. PICK list \in Seq(Events) :
        list = dlq[tab] \o hand[t] /\ ToSet(list) = ToSet(dlq[tab]) \cup ToSet(hand[t])
  <2>1. dlq[tab] \in Seq(Events) /\ hand[t] \in Seq(Events)
    BY <1>0, ListTypes
  <2>2. ToSet(dlq[tab] \o hand[t]) = ToSet(dlq[tab]) \cup ToSet(hand[t])
    BY <2>1, ToSetConcat
  <2>3. dlq[tab] \o hand[t] \in Seq(Events)
    BY <2>1
  <2>4. QED  BY <2>2, <2>3
<1>3. ToSet(list) = CutOff(list, DlqMax) \cup ToSet(KeepLast(list, DlqMax))
  <2>1. DlqMax \in Nat \ {0}
    BY PipelineAssumption
  <2>2. QED  BY <2>1, KeepLastSplits
<1>4. /\ pc[t] = "deadletter" /\ item' = item /\ NextTable(t) /\ Holds(t, <<>>)
      /\ mem' = mem /\ accepted' = accepted /\ mayLose \subseteq mayLose'
      /\ redis' = redis /\ stored' = stored
  BY DEF DeadLetter, DeadLetterDropped, DeadLetterFails, buffers, sinks, marks
<1>5. /\ \A u \in Tables \ {tab} : dlq'[u] = dlq[u]
      /\ \/ dlq'[tab] = KeepLast(list, DlqMax) /\ CutOff(list, DlqMax) \subseteq mayLose'
         \/ dlq'[tab] \in {dlq[tab], list} /\ ToSet(hand[t]) \subseteq mayLose'
  BY <1>1, <1>2 DEF DeadLetter, DeadLetterDropped, DeadLetterFails, DeadLetters, sinks,
                    TypeOK, BufferTypes
<1>6. ToSet(redis[tab]) \cup ToSet(stored[tab]) \cup ToSet(dlq[tab]) \cup ToSet(hand[t])
        \subseteq ToSet(redis'[tab]) \cup ToSet(stored'[tab]) \cup ToSet(dlq'[tab])
                    \cup ToSet(<<>>) \cup mayLose'
  BY <1>2, <1>3, <1>4, <1>5
<1>7. QED  BY <1>0, <1>4, <1>5, <1>6, ListsKeep

LEMMA IdlingKeeps ==
  ASSUME TypeOK, Kept, NEW t \in Flushers,
         \/ FlushBegins(t) \/ FlushBeginsUnlocked(t) \/ SkipTable(t) \/ InsertRejected(t)
         \/ FlushEnds(t) \/ FlushEndsFails(t)
  PROVE  Kept'
<1>0. t \in Threads
  BY DEF Threads
<1>1. /\ pc[t] # "pipe" /\ item' = item /\ hand' = hand
      /\ UNCHANGED <<redis, mem, sinks, accepted, mayLose>>
  BY DEF FlushBegins, FlushBeginsUnlocked, SkipTable, InsertRejected, FlushEnds,
         FlushEndsFails, buffers, ghosts, marks
<1>2. NextTable(t) \/ \E point \in {"table", "deadletter", "idle"} : Goto(t, point)
  BY DEF FlushBegins, FlushBeginsUnlocked, SkipTable, InsertRejected, FlushEnds,
         FlushEndsFails, FlushReturns
<1>3. NextTable(t) \/ \E point \in Points \ {"pipe"} : Goto(t, point)
  BY <1>2 DEF Points
<1>4. QED  BY <1>0, <1>1, <1>3, StillKeeps

-----------------------------------------------------------------------------
(* Time and crashes *)

\* A crash costs what its process had in memory and in its threads' hands.
LEMMA CrashKeeps ==
  ASSUME TypeOK, Kept, NEW p \in Procs, Crash(p)
  PROVE  Kept'
<1> SUFFICES ASSUME NEW e \in accepted', e \notin mayLose' PROVE Lies(e)'
  BY DEF Kept
<1>1. e \in accepted /\ e \notin mayLose /\ e \notin HeldInMemory(p) /\ e \notin HeldByThreads(p)
  BY DEF Crash
<1>2. CASE \E tab \in Tables : e \in ToSet(redis[tab]) \cup ToSet(stored[tab]) \cup ToSet(dlq[tab])
  BY <1>2 DEF Lies, Crash, sinks
<1>3. CASE \E r \in Procs, tab \in Tables : e \in ToSet(mem[r][tab])
  <2>1. PICK r \in Procs, tab \in Tables : e \in ToSet(mem[r][tab])
    BY <1>3
  <2>2. r # p
    BY <1>1, <2>1 DEF HeldInMemory
  <2>3. mem'[r] = mem[r]
    BY <2>2 DEF Crash, TypeOK, BufferTypes
  <2>4. QED  BY <2>1, <2>3 DEF Lies
<1>4. CASE \E t \in Threads : e \in ToSet(hand[t]) \cup Carried(t)
  <2>1. PICK t \in Threads : e \in ToSet(hand[t]) \cup Carried(t)
    BY <1>4
  <2>2. t \notin ThreadsOf(p)
    BY <1>1, <2>1 DEF HeldByThreads, ThreadsOf
  <2>3. hand'[t] = hand[t] /\ pc'[t] = pc[t] /\ item'[t] = item[t]
    BY <2>1, <2>2 DEF Crash
  <2>4. e \in ToSet(hand'[t]) \cup Carried(t)'
    BY <2>1, <2>3 DEF Carried
  <2>5. QED  BY <2>4 DEF Lies
<1>5. Lies(e)
  BY <1>1 DEF Kept
<1>6. QED  BY <1>2, <1>3, <1>4, <1>5 DEF Lies

LEMMA TimeKeeps ==
  ASSUME Kept, UNCHANGED <<redis, mem, sinks, pc, item, hand, accepted, mayLose>>
  PROVE  Kept'
BY DEF Kept, Lies, Carried, sinks

-----------------------------------------------------------------------------
(* Empty hands *)

\* A thread that keeps its hands or empties them, or goes to a point where it
\* may hold rows, keeps HandsEmpty; other threads do not move.
LEMMA HandsStep ==
  ASSUME TypeOK, HandsEmpty, NEW t \in Threads,
         \A u \in Threads \ {t} : pc'[u] = pc[u] /\ hand'[u] = hand[u],
         hand'[t] = <<>> \/ pc'[t] \notin {"idle", "trim", "table", "lpop", "release"}
  PROVE  HandsEmpty'
BY DEF HandsEmpty

LEMMA PushHands ==
  ASSUME TypeOK, HandsEmpty, NEW t \in Pushers, Push(t)
  PROVE  HandsEmpty'
<1>0. t \in Threads /\ pc \in [Threads -> Points] /\ hand \in [Threads -> Seq(Events)]
  BY DEF Threads, TypeOK, LocalTypes
<1>1. ASSUME NEW e \in Events, PushToMemory(t, e) PROVE HandsEmpty'
  BY <1>1 DEF PushToMemory, HandsEmpty, local
<1>2. ASSUME NEW e \in Events, PushDrain(t, e) PROVE HandsEmpty'
  <2>1. Goto(t, "pipe") /\ \E rows : Holds(t, rows)
    BY <1>2 DEF PushDrain
  <2>2. (\A u \in Threads \ {t} : pc'[u] = pc[u] /\ hand'[u] = hand[u]) /\ pc'[t] = "pipe"
    BY <1>0, <2>1 DEF Goto, Holds
  <2>3. QED  BY <1>0, <2>2, HandsStep
<1>3. ASSUME Goto(t, "trim") /\ Holds(t, <<>>) PROVE HandsEmpty'
  <2>1. (\A u \in Threads \ {t} : pc'[u] = pc[u] /\ hand'[u] = hand[u]) /\ hand'[t] = <<>>
    BY <1>0, <1>3 DEF Goto, Holds
  <2>2. QED  BY <1>0, <2>1, HandsStep
<1>4. ASSUME PushReturns(t) PROVE HandsEmpty'
  BY <1>0, <1>4, PushReturnsHands, HandsStep
<1>5. CASE PushPipeline(t) \/ PushPipelineFails(t) \/ PushTrim(t) \/ PushTrimFails(t)
  BY <1>3, <1>4, <1>5 DEF PushPipeline, PushPipelineFails, PushTrim, PushTrimFails, FallBackToMemory
<1>6. QED  BY <1>1, <1>2, <1>5 DEF Push

LEMMA FlushHands ==
  ASSUME TypeOK, HandsEmpty, NEW t \in Flushers,
         FlushBegins(t) \/ FlushStep(t) \/ FlushFailure(t)
  PROVE  HandsEmpty'
<1>0. t \in Threads /\ pc \in [Threads -> Points] /\ hand \in [Threads -> Seq(Events)]
  BY DEF Threads, TypeOK, LocalTypes
<1>1. ASSUME NextTable(t) \/ (\E point : Goto(t, point)), hand' = hand, hand[t] = <<>>
      PROVE  HandsEmpty'
  <2>1. PICK point : Goto(t, point)
    BY <1>1 DEF NextTable
  <2>2. (\A u \in Threads \ {t} : pc'[u] = pc[u] /\ hand'[u] = hand[u]) /\ hand'[t] = <<>>
    BY <1>0, <1>1, <2>1 DEF Goto
  <2>3. QED  BY <1>0, <2>2, HandsStep
<1>2. ASSUME NextTable(t) \/ (\E point : Goto(t, point)), Holds(t, <<>>)
      PROVE  HandsEmpty'
  <2>1. PICK point : Goto(t, point)
    BY <1>2 DEF NextTable
  <2>2. (\A u \in Threads \ {t} : pc'[u] = pc[u] /\ hand'[u] = hand[u]) /\ hand'[t] = <<>>
    BY <1>0, <1>2, <2>1 DEF Goto, Holds
  <2>3. QED  BY <1>0, <2>2, HandsStep
<1>3. ASSUME NEW point \in {"insert", "residual", "requeue", "deadletter"}, Goto(t, point),
             NEW rows, Holds(t, rows) \/ hand' = hand
      PROVE  HandsEmpty'
  <2>1. (\A u \in Threads \ {t} : pc'[u] = pc[u] /\ hand'[u] = hand[u]) /\ pc'[t] = point
    BY <1>0, <1>3 DEF Goto, Holds
  <2>2. QED  BY <1>0, <2>1, HandsStep
<1>4. pc[t] \in {"idle", "table", "lpop", "release"} => hand[t] = <<>>
  BY <1>0 DEF HandsEmpty
<1>5. ASSUME FlushBegins(t) \/ FlushBeginsUnlocked(t) \/ SkipTable(t) PROVE HandsEmpty'
  BY <1>1, <1>4, <1>5 DEF FlushBegins, FlushBeginsUnlocked, SkipTable
<1>6. ASSUME PopMemory(t) PROVE HandsEmpty'
  BY <1>2, <1>3, <1>6 DEF PopMemory
<1>7. ASSUME PopDrain(t) PROVE HandsEmpty'
  BY <1>2, <1>3, <1>7 DEF PopDrain
<1>8. ASSUME PopResidual(t) \/ PopResidualFails(t) PROVE HandsEmpty'
  BY <1>2, <1>8 DEF PopResidual, PopResidualFails
<1>9. ASSUME PopBatch(t) PROVE HandsEmpty'
  BY <1>2, <1>3, <1>9 DEF PopBatch
<1>10. ASSUME PopBatchFails(t) \/ FlushEnds(t) \/ FlushEndsFails(t) PROVE HandsEmpty'
  BY <1>1, <1>4, <1>10 DEF PopBatchFails, FlushEnds, FlushEndsFails, FlushReturns
<1>11. ASSUME InsertSucceeds(t) \/ Requeue(t) \/ RequeueToMemory(t) \/ RequeueFails(t)
       PROVE  HandsEmpty'
  BY <1>2, <1>11 DEF InsertSucceeds, Requeue, RequeueToMemory, RequeueFails
<1>12. ASSUME DeadLetter(t) \/ DeadLetterDropped(t) \/ DeadLetterFails(t) PROVE HandsEmpty'
  BY <1>2, <1>12 DEF DeadLetter, DeadLetterDropped, DeadLetterFails
<1>13. ASSUME InsertFails(t) \/ InsertRejected(t) PROVE HandsEmpty'
  BY <1>3, <1>13 DEF InsertFails, InsertRejected
<1>14. QED
  BY <1>5, <1>6, <1>7, <1>8, <1>9, <1>10, <1>11, <1>12, <1>13 DEF FlushStep, FlushFailure

-----------------------------------------------------------------------------
(* Theorem *)

LossInv == TypeOK /\ Kept /\ HandsEmpty

LEMMA LossInit == Init => LossInv
<1> SUFFICES ASSUME Init PROVE LossInv
  OBVIOUS
<1>1. TypeOK
  BY InitTyped
<1>2. Kept
  BY DEF Init, Kept
<1>3. HandsEmpty
  BY DEF Init, HandsEmpty
<1>4. QED  BY <1>1, <1>2, <1>3 DEF LossInv

LEMMA LossStep == LossInv /\ [Next]_vars => LossInv'
<1> SUFFICES ASSUME LossInv, [Next]_vars PROVE LossInv'
  OBVIOUS
<1>0. TypeOK /\ Kept /\ HandsEmpty
  BY DEF LossInv
<1>1. TypeOK'
  BY <1>0, NextTyped
<1>2. ASSUME NEW t \in Pushers, Push(t) PROVE Kept' /\ HandsEmpty'
  <2>1. Kept'
    BY <1>0, <1>2, PushToMemoryKeeps, PushDrainKeeps, PushPipelineKeeps,
       PushPipelineFailsKeeps, PushTrimKeeps, PushTrimFailsKeeps DEF Push
  <2>2. QED  BY <1>0, <1>2, <2>1, PushHands
<1>3. ASSUME NEW t \in Flushers, FlushBegins(t) \/ FlushStep(t) \/ FlushFailure(t)
      PROVE  Kept' /\ HandsEmpty'
  <2>1. HandsEmpty'
    BY <1>0, <1>3, FlushHands
  <2>2. CASE FlushBegins(t)
    BY <1>0, <2>1, <2>2, IdlingKeeps
  <2>3. CASE FlushStep(t)
    BY <1>0, <2>1, <2>3, IdlingKeeps, PopMemoryKeeps, PopDrainKeeps, PopResidualKeeps,
       PopBatchKeeps, InsertKeeps, RequeueKeeps, RequeueToMemoryKeeps, DeadLetterKeeps
       DEF FlushStep
  <2>4. CASE FlushFailure(t)
    BY <1>0, <2>1, <2>4, IdlingKeeps, PopResidualKeeps, PopBatchKeeps, InsertKeeps,
       RequeueKeeps, DeadLetterKeeps DEF FlushFailure
  <2>5. QED  BY <1>3, <2>2, <2>3, <2>4
<1>4. ASSUME NEW p \in Procs, Crash(p) PROVE Kept' /\ HandsEmpty'
  <2>1. HandsEmpty'
    BY <1>0, <1>4 DEF Crash, HandsEmpty
  <2>2. QED  BY <1>0, <1>4, <2>1, CrashKeeps
<1>5. ASSUME (\E p \in Procs : RedisRetried(p)) \/ LockExpires \/ CircuitExpires \/ UNCHANGED vars
      PROVE  Kept' /\ HandsEmpty'
  <2>1. UNCHANGED <<redis, mem, sinks, pc, item, hand, accepted, mayLose>>
    BY <1>5 DEF RedisRetried, LockExpires, CircuitExpires, vars, buffers, local, ghosts
  <2>2. HandsEmpty'
    BY <1>0, <2>1 DEF HandsEmpty
  <2>3. QED  BY <1>0, <2>1, <2>2, TimeKeeps
<1>6. Kept' /\ HandsEmpty'
  BY <1>2, <1>3, <1>4, <1>5 DEF Next
<1>7. QED  BY <1>1, <1>6 DEF LossInv

\* An event that was handed to the buffer is lost only by a failing call to
\* Redis, a crash or an overflow that had it in hand: no interleaving of pushes
\* and flushes, no failing ClickHouse, open circuit or lost lock costs one
\* (push_event_to_buffer, pop_buffer_batch, flush_table_buffer).
THEOREM NothingLost == Spec => []NoLoss
<1>1. LossInv => NoLoss
  BY LiesHasPlace DEF LossInv, Kept, NoLoss
<1>2. QED  BY LossInit, LossStep, <1>1, PTL DEF Spec

-----------------------------------------------------------------------------
(* No event twice: the invariant *)

\* Event e stands in list s once at most.
Once(s, e) == \A i, j \in DOMAIN s : s[i] = e /\ s[j] = e => i = j

\* The payload of a thread as a list.
Load(t) == IF pc[t] = "pipe" THEN <<item[t]>> ELSE <<>>

\* All lists that hold events, by name.
Cells ==
  ({"redis", "stored", "dlq"} \X Tables \X {"all"})
  \cup ({"mem"} \X Procs \X Tables)
  \cup ({"hand", "load"} \X Threads \X {"all"})

Rows(c) ==
  IF c[1] = "redis" THEN redis[c[2]]
  ELSE IF c[1] = "stored" THEN stored[c[2]]
  ELSE IF c[1] = "dlq" THEN dlq[c[2]]
  ELSE IF c[1] = "mem" THEN mem[c[2]][c[3]]
  ELSE IF c[1] = "hand" THEN hand[c[2]]
  ELSE Load(c[2])

\* Event e is in one list at most, and there once.
Single(e) ==
  /\ \A c \in Cells : Once(Rows(c), e)
  /\ \A c, d \in Cells : e \in ToSet(Rows(c)) /\ e \in ToSet(Rows(d)) => c = d

\* No list knows an event that the buffer has not accepted.
Nowhere(e) == \A c \in Cells : e \notin ToSet(Rows(c))

CopyInv ==
  /\ TypeOK
  /\ \A t \in Threads : item[t] \in accepted \cup {NoEvent}
  /\ \A e \in Events \ accepted : Nowhere(e)
  /\ \A e \in Events \ mayDup : Single(e)

\* The same of the lists of a step, with the payload apart.
Alone(e, r, s, d, m, h) ==
  /\ Once(r, e) /\ Once(s, e) /\ Once(d, e) /\ Once(m, e) /\ Once(h, e)
  /\ e \in ToSet(r) => e \notin ToSet(s) \cup ToSet(d) \cup ToSet(m) \cup ToSet(h)
  /\ e \in ToSet(s) => e \notin ToSet(d) \cup ToSet(m) \cup ToSet(h)
  /\ e \in ToSet(d) => e \notin ToSet(m) \cup ToSet(h)
  /\ e \in ToSet(m) => e \notin ToSet(h)

Own(e, t, tab) ==
  /\ Alone(e, redis[tab], stored[tab], dlq[tab], mem[ProcOf[t]][tab], hand[t])
  /\ e \in Carried(t) =>
       e \notin ToSet(redis[tab]) \cup ToSet(stored[tab]) \cup ToSet(dlq[tab])
                  \cup ToSet(mem[ProcOf[t]][tab]) \cup ToSet(hand[t])

-----------------------------------------------------------------------------
(* No event twice: lists *)

LEMMA OnceShort ==
  ASSUME NEW x, NEW e
  PROVE  Once(<<>>, e) /\ Once(<<x>>, e) /\ ToSet(<<x>>) = {x}
<1>1. \A i, j \in DOMAIN <<x>> : i = j
  OBVIOUS
<1>2. ToSet(<<x>>) = {x}
  BY DEF ToSet
<1>3. QED  BY <1>1, <1>2 DEF Once

LEMMA OnceConcat ==
  ASSUME NEW s \in Seq(Events), NEW r \in Seq(Events), NEW e, Once(s, e), Once(r, e),
         ~(e \in ToSet(s) /\ e \in ToSet(r))
  PROVE  Once(s \o r, e)
<1> SUFFICES ASSUME NEW i \in DOMAIN (s \o r), NEW j \in DOMAIN (s \o r),
                    (s \o r)[i] = e, (s \o r)[j] = e
             PROVE  i = j
  BY DEF Once
<1>1. \A k \in DOMAIN (s \o r) : k \in 1..(Len(s) + Len(r))
  OBVIOUS
<1>2. \A k \in 1..(Len(s) + Len(r)) :
        /\ k <= Len(s) => k \in DOMAIN s /\ (s \o r)[k] = s[k]
        /\ k > Len(s) => k - Len(s) \in DOMAIN r /\ (s \o r)[k] = r[k - Len(s)]
  OBVIOUS
<1>3. \A k \in DOMAIN s : s[k] = e => e \in ToSet(s)
  BY DEF ToSet
<1>4. \A k \in DOMAIN r : r[k] = e => e \in ToSet(r)
  BY DEF ToSet
<1>5. CASE i <= Len(s) /\ j <= Len(s)
  BY <1>1, <1>2, <1>5 DEF Once
<1>6. CASE i > Len(s) /\ j > Len(s)
  <2>1. i - Len(s) = j - Len(s)
    BY <1>1, <1>2, <1>6 DEF Once
  <2>2. QED  BY <1>1, <2>1
<1>7. CASE i <= Len(s) /\ j > Len(s)
  BY <1>1, <1>2, <1>3, <1>4, <1>7
<1>8. CASE i > Len(s) /\ j <= Len(s)
  BY <1>1, <1>2, <1>3, <1>4, <1>8
<1>9. QED  BY <1>1, <1>5, <1>6, <1>7, <1>8

LEMMA OnceSplit ==
  ASSUME NEW s \in Seq(Events), NEW k \in 0..Len(s), NEW e, Once(s, e)
  PROVE  /\ Once(SubSeq(s, 1, k), e) /\ Once(SubSeq(s, k + 1, Len(s)), e)
         /\ ~(e \in ToSet(SubSeq(s, 1, k)) /\ e \in ToSet(SubSeq(s, k + 1, Len(s))))
<1> DEFINE l == SubSeq(s, 1, k)
           r == SubSeq(s, k + 1, Len(s))
<1>1. DOMAIN l = 1..k /\ \A i \in 1..k : l[i] = s[i]
  BY SMTT(30)
<1>2. DOMAIN r = 1..(Len(s) - k) /\ \A i \in 1..(Len(s) - k) : r[i] = s[k + i]
  BY SMTT(30)
<1>3. DOMAIN s = 1..Len(s) /\ Len(s) \in Nat /\ k \in Nat /\ k <= Len(s)
  OBVIOUS
<1> HIDE DEF l, r
<1>4. Once(l, e)
  BY <1>1, <1>3 DEF Once
<1>5. Once(r, e)
  <2> SUFFICES ASSUME NEW i \in 1..(Len(s) - k), NEW j \in 1..(Len(s) - k), r[i] = e, r[j] = e
               PROVE  i = j
    BY <1>2 DEF Once
  <2>1. k + i \in DOMAIN s /\ k + j \in DOMAIN s /\ s[k + i] = e /\ s[k + j] = e
    BY <1>2, <1>3
  <2>2. k + i = k + j
    BY <2>1 DEF Once
  <2>3. QED  BY <1>3, <2>2
<1>6. ASSUME e \in ToSet(l), e \in ToSet(r) PROVE FALSE
  <2>1. PICK i \in 1..k : l[i] = e
    BY <1>1, <1>6 DEF ToSet
  <2>2. PICK j \in 1..(Len(s) - k) : r[j] = e
    BY <1>2, <1>6 DEF ToSet
  <2>3. i \in DOMAIN s /\ k + j \in DOMAIN s /\ s[i] = e /\ s[k + j] = e
    BY <1>1, <1>2, <1>3, <2>1, <2>2
  <2>4. i = k + j
    BY <2>3 DEF Once
  <2>5. QED  BY <1>3, <2>4
<1>7. QED  BY <1>4, <1>5, <1>6 DEF l, r

LEMMA OnceTaken ==
  ASSUME NEW s \in Seq(Events), NEW n \in Nat \ {0}, NEW e, Once(s, e)
  PROVE  /\ Once(Taken(s, n), e) /\ Once(Rest(s, n), e)
         /\ ~(e \in ToSet(Taken(s, n)) /\ e \in ToSet(Rest(s, n)))
<1> DEFINE k == IF Len(s) < n THEN Len(s) ELSE n
<1>1. k \in 0..Len(s)
  OBVIOUS
<1>2. QED  BY <1>1, OnceSplit DEF Taken, Rest

LEMMA OnceKeepLast ==
  ASSUME NEW s \in Seq(Events), NEW n \in Nat \ {0}, NEW e, Once(s, e)
  PROVE  Once(KeepLast(s, n), e) /\ ToSet(KeepLast(s, n)) \subseteq ToSet(s)
<1>1. ToSet(KeepLast(s, n)) \subseteq ToSet(s)
  BY KeepLastSplits
<1>2. CASE Len(s) > n
  <2>1. Len(s) - n \in 0..Len(s)
    BY <1>2
  <2>2. Once(SubSeq(s, Len(s) - n + 1, Len(s)), e)
    BY <2>1, OnceSplit
  <2>3. QED  BY <1>1, <1>2, <2>2 DEF KeepLast
<1>3. CASE ~(Len(s) > n)
  BY <1>1, <1>3 DEF KeepLast
<1>4. QED  BY <1>2, <1>3

\* What is in hand goes to a list or is dropped.
LEMMA HandFlows ==
  ASSUME NEW r \in Seq(Events), NEW s \in Seq(Events), NEW d \in Seq(Events), NEW m \in Seq(Events),
         NEW h \in Seq(Events), NEW n \in Nat \ {0}, NEW e, Alone(e, r, s, d, m, h)
  PROVE  /\ Alone(e, r, s, d, m, <<>>)
         /\ Alone(e, r \o h, s, d, m, <<>>) /\ Alone(e, h \o r, s, d, m, <<>>)
         /\ Alone(e, r, s \o h, d, m, <<>>)
         /\ e \notin ToSet(h) => Alone(e, r, s \o h, d, m, h)
         /\ Alone(e, r, s, d \o h, m, <<>>) /\ Alone(e, r, s, KeepLast(d \o h, n), m, <<>>)
         /\ Alone(e, r, s, d, h \o m, <<>>)
<1>1. Once(<<>>, e) /\ ToSet(<<>>) = {}
  BY OnceShort, ToSetEmpty
<1>2. /\ ToSet(r \o h) = ToSet(r) \cup ToSet(h) /\ ToSet(h \o r) = ToSet(h) \cup ToSet(r)
      /\ ToSet(s \o h) = ToSet(s) \cup ToSet(h) /\ ToSet(d \o h) = ToSet(d) \cup ToSet(h)
      /\ ToSet(h \o m) = ToSet(h) \cup ToSet(m)
  BY ToSetConcat
<1>3. /\ Once(r \o h, e) /\ Once(h \o r, e) /\ Once(s \o h, e) /\ Once(d \o h, e) /\ Once(h \o m, e)
  BY OnceConcat DEF Alone
<1>4. Once(KeepLast(d \o h, n), e) /\ ToSet(KeepLast(d \o h, n)) \subseteq ToSet(d \o h)
  <2>1. d \o h \in Seq(Events)
    OBVIOUS
  <2>2. QED  BY <1>3, <2>1, OnceKeepLast
<1> HIDE DEF ToSet
<1>5. QED  BY <1>1, <1>2, <1>3, <1>4 DEF Alone

\* A batch is taken from a list, or a list is cut.
LEMMA ListFlows ==
  ASSUME NEW r \in Seq(Events), NEW s \in Seq(Events), NEW d \in Seq(Events), NEW m \in Seq(Events),
         NEW h \in Seq(Events), NEW n \in Nat \ {0}, NEW e, Alone(e, r, s, d, m, h)
  PROVE  /\ Alone(e, Rest(r, n), s, d, m, Taken(r, n)) /\ Alone(e, Rest(r, n), s, d, m, h)
         /\ Alone(e, r, s, d, Rest(m, n), Taken(m, n)) /\ Alone(e, r, s, d, <<>>, m)
         /\ Alone(e, KeepLast(r, n), s, d, m, h)
<1>1. Once(<<>>, e) /\ ToSet(<<>>) = {}
  BY OnceShort, ToSetEmpty
<1>2. /\ ToSet(r) = ToSet(Taken(r, n)) \cup ToSet(Rest(r, n))
      /\ ToSet(m) = ToSet(Taken(m, n)) \cup ToSet(Rest(m, n))
  BY TakenSplits
<1>3. /\ Once(Taken(r, n), e) /\ Once(Rest(r, n), e)
      /\ ~(e \in ToSet(Taken(r, n)) /\ e \in ToSet(Rest(r, n)))
      /\ Once(Taken(m, n), e) /\ Once(Rest(m, n), e)
      /\ ~(e \in ToSet(Taken(m, n)) /\ e \in ToSet(Rest(m, n)))
  BY OnceTaken DEF Alone
<1>4. Once(KeepLast(r, n), e) /\ ToSet(KeepLast(r, n)) \subseteq ToSet(r)
  BY OnceKeepLast DEF Alone
<1>5. QED  BY <1>1, <1>2, <1>3, <1>4 DEF Alone

\* An element is appended to a list that does not hold it.
LEMMA OnceAppend ==
  ASSUME NEW s \in Seq(Events), NEW x \in Events, NEW e, Once(s, e), e = x => e \notin ToSet(s)
  PROVE  Once(Append(s, x), e)
<1> SUFFICES ASSUME NEW i \in DOMAIN Append(s, x), NEW j \in DOMAIN Append(s, x),
                    Append(s, x)[i] = e, Append(s, x)[j] = e
             PROVE  i = j
  BY DEF Once
<1>1. \A k \in DOMAIN Append(s, x) :
        \/ k \in DOMAIN s /\ Append(s, x)[k] = s[k]
        \/ k = Len(s) + 1 /\ Append(s, x)[k] = x
  OBVIOUS
<1>2. \A k \in DOMAIN s : s[k] = e => e \in ToSet(s)
  BY DEF ToSet
<1>3. QED  BY <1>1, <1>2 DEF Once

\* A payload is appended to the memory of a process or to the rows in hand.
LEMMA PayloadFlows ==
  ASSUME NEW r \in Seq(Events), NEW s \in Seq(Events), NEW d \in Seq(Events), NEW m \in Seq(Events),
         NEW h \in Seq(Events), NEW n \in Nat \ {0}, NEW e, Alone(e, r, s, d, m, h), NEW x \in Events,
         e = x => e \notin ToSet(r) \cup ToSet(s) \cup ToSet(d) \cup ToSet(m) \cup ToSet(h)
  PROVE  /\ Alone(e, r, s, d, KeepLast(Append(m, x), n), h)
         /\ Alone(e, r, s, d, m, Append(h, x))
<1>1. /\ Append(m, x) \in Seq(Events) /\ ToSet(Append(m, x)) = ToSet(m) \cup {x}
      /\ Append(h, x) \in Seq(Events) /\ ToSet(Append(h, x)) = ToSet(h) \cup {x}
  BY ToSetAppend
<1>2. Once(Append(m, x), e) /\ Once(Append(h, x), e)
  BY OnceAppend DEF Alone
<1>3. /\ Once(KeepLast(Append(m, x), n), e)
      /\ ToSet(KeepLast(Append(m, x), n)) \subseteq ToSet(Append(m, x))
  BY <1>1, <1>2, OnceKeepLast
<1>4. QED  BY <1>1, <1>2, <1>3 DEF Alone

-----------------------------------------------------------------------------
(* No event twice: a step on one table *)

\* The lists that a step of t on table tab may change.
Near(t, tab) ==
  {<<"redis", tab, "all">>, <<"stored", tab, "all">>, <<"dlq", tab, "all">>,
   <<"mem", ProcOf[t], tab>>, <<"hand", t, "all">>, <<"load", t, "all">>}

LEMMA LoadIsCarried == ASSUME NEW t PROVE ToSet(Load(t)) = Carried(t)
<1>1. ToSet(<<>>) = {} /\ ToSet(<<item[t]>>) = {item[t]}
  BY ToSetEmpty, OnceShort
<1>2. QED  BY <1>1 DEF Load, Carried

\* They are those of Here, each by its name.
LEMMA NearRows ==
  ASSUME NEW t \in Threads, NEW tab \in Tables
  PROVE  /\ Rows(<<"redis", tab, "all">>) = redis[tab]
         /\ Rows(<<"stored", tab, "all">>) = stored[tab]
         /\ Rows(<<"dlq", tab, "all">>) = dlq[tab]
         /\ Rows(<<"mem", ProcOf[t], tab>>) = mem[ProcOf[t]][tab]
         /\ Rows(<<"hand", t, "all">>) = hand[t]
         /\ Rows(<<"load", t, "all">>) = Load(t)
         /\ ToSet(Load(t)) = Carried(t)
         /\ Near(t, tab) \subseteq Cells
<1>1. ProcOf[t] \in Procs
  BY PipelineAssumption
<1>2. Near(t, tab) \subseteq Cells
  BY <1>1 DEF Near, Cells
<1>3. QED  BY <1>2, LoadIsCarried DEF Rows

LEMMA HereIsNear ==
  ASSUME NEW t \in Threads, NEW tab \in Tables, NEW e
  PROVE  e \in Here(t, tab) <=> \E c \in Near(t, tab) : e \in ToSet(Rows(c))
BY NearRows DEF Here, Near

\* Every other list stays as it is.
LEMMA OthersSame ==
  ASSUME NEW t \in Threads, NEW tab \in Tables, Touches(t, tab), NEW c \in Cells \ Near(t, tab)
  PROVE  Rows(c)' = Rows(c)
<1>1. CASE c \in {"redis", "stored", "dlq"} \X Tables \X {"all"}
  <2>1. PICK u \in Tables : \/ c = <<"redis", u, "all">>
                            \/ c = <<"stored", u, "all">>
                            \/ c = <<"dlq", u, "all">>
    BY <1>1
  <2>2. u # tab
    BY <2>1 DEF Near
  <2>3. QED  BY <2>1, <2>2 DEF Rows, Touches
<1>2. CASE c \in {"mem"} \X Procs \X Tables
  <2>1. PICK p \in Procs, u \in Tables : c = <<"mem", p, u>>
    BY <1>2
  <2>2. p # ProcOf[t] \/ u # tab
    BY <2>1 DEF Near
  <2>3. mem'[p][u] = mem[p][u]
    BY <2>2 DEF Touches
  <2>4. QED  BY <2>1, <2>3 DEF Rows
<1>3. CASE c \in {"hand", "load"} \X Threads \X {"all"}
  <2>1. PICK u \in Threads : c = <<"hand", u, "all">> \/ c = <<"load", u, "all">>
    BY <1>3
  <2>2. u # t
    BY <2>1 DEF Near
  <2>3. hand'[u] = hand[u] /\ pc'[u] = pc[u] /\ item'[u] = item[u]
    BY <2>2 DEF Touches
  <2>4. QED  BY <2>1, <2>3 DEF Rows, Load
<1>4. QED  BY <1>1, <1>2, <1>3 DEF Cells

\* Own says of these lists what Single says of all.
LEMMA NearSingle ==
  ASSUME NEW t \in Threads, NEW tab \in Tables, NEW e
  PROVE  Own(e, t, tab) <=>
           /\ \A c \in Near(t, tab) : Once(Rows(c), e)
           /\ \A c, d \in Near(t, tab) : e \in ToSet(Rows(c)) /\ e \in ToSet(Rows(d)) => c = d
<1> USE NearRows
<1>1. Once(Load(t), e)
  BY OnceShort DEF Load
<1>2. ASSUME Own(e, t, tab)
      PROVE  /\ \A c \in Near(t, tab) : Once(Rows(c), e)
             /\ \A c, d \in Near(t, tab) : e \in ToSet(Rows(c)) /\ e \in ToSet(Rows(d)) => c = d
  <2>1. \A c \in Near(t, tab) : Once(Rows(c), e)
    BY <1>1, <1>2, ZenonT(30) DEF Own, Alone, Near
  <2>2. ASSUME NEW c \in Near(t, tab), NEW d \in Near(t, tab), e \in ToSet(Rows(c)), e \in ToSet(Rows(d))
        PROVE  c = d
    <3>1. CASE c = <<"redis", tab, "all">>
      <4>1. e \notin ToSet(stored[tab]) \cup ToSet(dlq[tab]) \cup ToSet(mem[ProcOf[t]][tab])
                       \cup ToSet(hand[t]) \cup ToSet(Load(t))
        BY <1>2, <2>2, <3>1 DEF Own, Alone
      <4>2. QED  BY <2>2, <3>1, <4>1 DEF Near
    <3>2. CASE c = <<"stored", tab, "all">>
      <4>1. e \notin ToSet(redis[tab]) \cup ToSet(dlq[tab]) \cup ToSet(mem[ProcOf[t]][tab])
                       \cup ToSet(hand[t]) \cup ToSet(Load(t))
        BY <1>2, <2>2, <3>2 DEF Own, Alone
      <4>2. QED  BY <2>2, <3>2, <4>1 DEF Near
    <3>3. CASE c = <<"dlq", tab, "all">>
      <4>1. e \notin ToSet(redis[tab]) \cup ToSet(stored[tab]) \cup ToSet(mem[ProcOf[t]][tab])
                       \cup ToSet(hand[t]) \cup ToSet(Load(t))
        BY <1>2, <2>2, <3>3 DEF Own, Alone
      <4>2. QED  BY <2>2, <3>3, <4>1 DEF Near
    <3>4. CASE c = <<"mem", ProcOf[t], tab>>
      <4>1. e \notin ToSet(redis[tab]) \cup ToSet(stored[tab]) \cup ToSet(dlq[tab])
                       \cup ToSet(hand[t]) \cup ToSet(Load(t))
        BY <1>2, <2>2, <3>4 DEF Own, Alone
      <4>2. QED  BY <2>2, <3>4, <4>1 DEF Near
    <3>5. CASE c = <<"hand", t, "all">>
      <4>1. e \notin ToSet(redis[tab]) \cup ToSet(stored[tab]) \cup ToSet(dlq[tab])
                       \cup ToSet(mem[ProcOf[t]][tab]) \cup ToSet(Load(t))
        BY <1>2, <2>2, <3>5 DEF Own, Alone
      <4>2. QED  BY <2>2, <3>5, <4>1 DEF Near
    <3>6. CASE c = <<"load", t, "all">>
      <4>1. e \notin ToSet(redis[tab]) \cup ToSet(stored[tab]) \cup ToSet(dlq[tab])
                       \cup ToSet(mem[ProcOf[t]][tab]) \cup ToSet(hand[t])
        BY <1>2, <2>2, <3>6 DEF Own, Alone
      <4>2. QED  BY <2>2, <3>6, <4>1 DEF Near
    <3>7. QED  BY <2>2, <3>1, <3>2, <3>3, <3>4, <3>5, <3>6 DEF Near
  <2>3. QED  BY <2>1, <2>2
<1>3. ASSUME \A c \in Near(t, tab) : Once(Rows(c), e),
             \A c, d \in Near(t, tab) : e \in ToSet(Rows(c)) /\ e \in ToSet(Rows(d)) => c = d
      PROVE  Own(e, t, tab)
  <2>1. /\ Once(redis[tab], e) /\ Once(stored[tab], e) /\ Once(dlq[tab], e)
        /\ Once(mem[ProcOf[t]][tab], e) /\ Once(hand[t], e)
    BY <1>3 DEF Near
  <2>2. /\ <<"redis", tab, "all">> \in Near(t, tab) /\ <<"stored", tab, "all">> \in Near(t, tab)
        /\ <<"dlq", tab, "all">> \in Near(t, tab) /\ <<"mem", ProcOf[t], tab>> \in Near(t, tab)
        /\ <<"hand", t, "all">> \in Near(t, tab) /\ <<"load", t, "all">> \in Near(t, tab)
    BY DEF Near
  <2>3. e \in ToSet(redis[tab]) => e \notin ToSet(stored[tab]) \cup ToSet(dlq[tab])
                                    \cup ToSet(mem[ProcOf[t]][tab]) \cup ToSet(hand[t]) \cup Carried(t)
    BY <1>3, <2>2
  <2>4. e \in ToSet(stored[tab]) => e \notin ToSet(dlq[tab])
                                    \cup ToSet(mem[ProcOf[t]][tab]) \cup ToSet(hand[t]) \cup Carried(t)
    BY <1>3, <2>2
  <2>5. e \in ToSet(dlq[tab]) => e \notin ToSet(mem[ProcOf[t]][tab]) \cup ToSet(hand[t]) \cup Carried(t)
    BY <1>3, <2>2
  <2>6. e \in ToSet(mem[ProcOf[t]][tab]) => e \notin ToSet(hand[t]) \cup Carried(t)
    BY <1>3, <2>2
  <2>7. e \in ToSet(hand[t]) => e \notin Carried(t)
    BY <1>3, <2>2
  <2>8. QED  BY <2>1, <2>3, <2>4, <2>5, <2>6, <2>7 DEF Own, Alone
<1>4. QED  BY <1>2, <1>3

\* The same in the state after a step.
LEMMA NearAfter ==
  /\ (\A t \in Threads, tab \in Tables : \A e :
        e \in Here(t, tab) <=> \E c \in Near(t, tab) : e \in ToSet(Rows(c)))'
  /\ (\A t \in Threads, tab \in Tables : \A e :
        Own(e, t, tab) <=>
          /\ \A c \in Near(t, tab) : Once(Rows(c), e)
          /\ \A c, d \in Near(t, tab) : e \in ToSet(Rows(c)) /\ e \in ToSet(Rows(d)) => c = d)'
<1>1. \A t \in Threads, tab \in Tables : \A e :
        e \in Here(t, tab) <=> \E c \in Near(t, tab) : e \in ToSet(Rows(c))
  BY HereIsNear
<1>2. \A t \in Threads, tab \in Tables : \A e :
        Own(e, t, tab) <=>
          /\ \A c \in Near(t, tab) : Once(Rows(c), e)
          /\ \A c, d \in Near(t, tab) : e \in ToSet(Rows(c)) /\ e \in ToSet(Rows(d)) => c = d
  BY NearSingle
<1>3. QED  BY <1>1, <1>2, PTL

\* What no list of the step says twice, no list says twice.
LEMMA SingleStep ==
  ASSUME NEW t \in Threads, NEW tab \in Tables, Touches(t, tab), NEW e, Single(e),
         Own(e, t, tab)', e \in Here(t, tab)' => e \in Here(t, tab) \/ Nowhere(e)
  PROVE  Single(e)'
<1> DEFINE new(c) == Rows(c)'
<1>1. /\ \A c \in Near(t, tab) : Once(new(c), e)
      /\ \A c, d \in Near(t, tab) : e \in ToSet(new(c)) /\ e \in ToSet(new(d)) => c = d
  BY NearAfter
<1>2. \A c \in Cells \ Near(t, tab) : new(c) = Rows(c)
  BY OthersSame
<1>3. \A c \in Near(t, tab) : e \in ToSet(new(c)) => e \in Here(t, tab)'
  BY NearAfter
<1>4. ASSUME NEW c \in Near(t, tab), e \in ToSet(new(c)), NEW d \in Cells \ Near(t, tab)
      PROVE  e \notin ToSet(new(d))
  <2>1. CASE Nowhere(e)
    BY <1>2, <2>1 DEF Nowhere
  <2>2. CASE e \in Here(t, tab)
    <3>1. PICK b \in Near(t, tab) : e \in ToSet(Rows(b))
      BY <2>2, HereIsNear
    <3>2. b \in Cells /\ b # d
      BY NearRows
    <3>3. e \notin ToSet(Rows(d))
      BY <3>1, <3>2 DEF Single
    <3>4. QED  BY <1>2, <3>3
  <2>3. QED  BY <1>3, <1>4, <2>1, <2>2
<1>5. \A c \in Cells : Once(new(c), e)
  BY <1>1, <1>2 DEF Single
<1>6. \A c, d \in Cells : e \in ToSet(new(c)) /\ e \in ToSet(new(d)) => c = d
  BY <1>1, <1>2, <1>4 DEF Single
<1>7. QED  BY <1>5, <1>6 DEF Single

\* An event that comes to no list of the step comes to no list.
LEMMA NowhereStep ==
  ASSUME NEW t \in Threads, NEW tab \in Tables, Touches(t, tab), NEW e, Nowhere(e),
         e \notin Here(t, tab)'
  PROVE  Nowhere(e)'
<1>1. \A c \in Near(t, tab) : e \notin ToSet(Rows(c)')
  BY NearAfter
<1>2. \A c \in Cells \ Near(t, tab) : Rows(c)' = Rows(c)
  BY OthersSame
<1>3. QED  BY <1>1, <1>2 DEF Nowhere

\* A step that neither copies an event in the lists it touches nor brings one
\* there, but for the event it accepts and those it may double, copies none.
LEMMA CopyStep ==
  ASSUME CopyInv, TypeOK', NEW t \in Threads, NEW tab \in Tables, Touches(t, tab),
         accepted \subseteq accepted', mayDup \subseteq mayDup',
         item'[t] \in accepted' \cup {NoEvent},
         \A e \in Here(t, tab)' : e \in Here(t, tab) \/ (e \in accepted' /\ (e \notin accepted \/ e \in mayDup')),
         \A e \in Events \ mayDup' :
           Own(e, t, tab) /\ (e \notin accepted => e \notin Here(t, tab)) => Own(e, t, tab)'
  PROVE  CopyInv'
<1>1. \A u \in Threads : item'[u] \in accepted' \cup {NoEvent}
  BY DEF Touches, CopyInv
<1>2. ASSUME NEW e \in Events \ accepted' PROVE Nowhere(e)'
  <2>1. Nowhere(e)
    BY DEF CopyInv
  <2>2. e \notin Here(t, tab)
    BY <2>1, HereIsNear, NearRows DEF Nowhere
  <2>3. e \notin Here(t, tab)'
    BY <2>2
  <2>4. QED  BY <2>1, <2>3, NowhereStep
<1>3. ASSUME NEW e \in Events \ mayDup' PROVE Single(e)'
  <2>1. Single(e) /\ (e \notin accepted => Nowhere(e))
    BY DEF CopyInv
  <2>2. e \notin accepted => e \notin Here(t, tab)
    BY <2>1, HereIsNear, NearRows DEF Nowhere
  <2>3. Own(e, t, tab)
    BY <2>1, NearSingle, NearRows DEF Single
  <2>4. Own(e, t, tab)'
    BY <2>2, <2>3
  <2>5. e \in Here(t, tab)' => e \in Here(t, tab) \/ Nowhere(e)
    BY <2>1
  <2>6. QED  BY <2>1, <2>4, <2>5, SingleStep
<1>4. QED  BY <1>1, <1>2, <1>3 DEF CopyInv

\* A step that at most empties lists copies nothing.
LEMMA CopyShrinks ==
  ASSUME CopyInv, TypeOK', accepted' = accepted, mayDup \subseteq mayDup',
         \A t \in Threads : item'[t] \in {item[t], NoEvent},
         \A c \in Cells : Rows(c)' = Rows(c) \/ Rows(c)' = <<>>
  PROVE  CopyInv'
<1>1. \A e : Once(<<>>, e) /\ e \notin ToSet(<<>>)
  BY OnceShort, ToSetEmpty
<1>2. ASSUME NEW e \in Events \ accepted' PROVE Nowhere(e)'
  BY <1>1 DEF CopyInv, Nowhere
<1>3. ASSUME NEW e \in Events \ mayDup' PROVE Single(e)'
  <2>1. Single(e)
    BY DEF CopyInv
  <2>2. /\ \A c \in Cells : Once(Rows(c)', e)
        /\ \A c \in Cells : e \in ToSet(Rows(c)') => e \in ToSet(Rows(c))
    BY <1>1, <2>1 DEF Single
  <2>3. QED  BY <2>1, <2>2 DEF Single
<1>4. QED  BY <1>2, <1>3 DEF CopyInv

-----------------------------------------------------------------------------
(* No event twice: flushing threads *)

\* A flusher moves to where it carries no payload, with the given rows in hand.
Moves(t, rows) ==
  /\ pc[t] # "pipe" /\ item' = item /\ accepted' = accepted /\ mayDup \subseteq mayDup'
  /\ NextTable(t) \/ \E point \in Points \ {"pipe"} : Goto(t, point)
  /\ Holds(t, rows) \/ (hand' = hand /\ rows = hand[t])

\* The lists of other tables and processes stay.
StaysElsewhere(t, tab) ==
  /\ \A u \in Tables \ {tab} : redis'[u] = redis[u] /\ stored'[u] = stored[u] /\ dlq'[u] = dlq[u]
  /\ \A p \in Procs, u \in Tables : p # ProcOf[t] \/ u # tab => mem'[p][u] = mem[p][u]

\* The lists of the table, the memory of the process and the hands pass on what
\* they had, once.
PassesOn(t, tab, rows) ==
  /\ ToSet(redis'[tab]) \cup ToSet(stored'[tab]) \cup ToSet(dlq'[tab])
       \cup ToSet(mem'[ProcOf[t]][tab]) \cup ToSet(rows)
     \subseteq ToSet(redis[tab]) \cup ToSet(stored[tab]) \cup ToSet(dlq[tab])
                 \cup ToSet(mem[ProcOf[t]][tab]) \cup ToSet(hand[t])
  /\ \A e \in Events \ mayDup' :
       Alone(e, redis[tab], stored[tab], dlq[tab], mem[ProcOf[t]][tab], hand[t])
         => Alone(e, redis'[tab], stored'[tab], dlq'[tab], mem'[ProcOf[t]][tab], rows)

LEMMA ListsCopy ==
  ASSUME CopyInv, TypeOK', NEW t \in Threads, NEW tab \in Tables, NEW rows,
         Moves(t, rows), StaysElsewhere(t, tab), PassesOn(t, tab, rows)
  PROVE  CopyInv'
<1>1. /\ \A u \in Threads \ {t} : pc'[u] = pc[u] /\ item'[u] = item[u] /\ hand'[u] = hand[u]
      /\ Carried(t) = {} /\ Carried(t)' = {} /\ hand'[t] = rows
  <2>1. pc[t] # "pipe" /\ item' = item /\ (Holds(t, rows) \/ (hand' = hand /\ rows = hand[t]))
    BY DEF Moves
  <2>2. NextTable(t) \/ \E point \in Points \ {"pipe"} : Goto(t, point)
    BY DEF Moves
  <2>3. QED  BY <2>1, <2>2, FlusherMoves DEF CopyInv
<1>2. Touches(t, tab)
  BY <1>1 DEF Touches, StaysElsewhere
<1>3. Here(t, tab)' \subseteq Here(t, tab)
  BY <1>1 DEF Here, PassesOn
<1>4. \A e \in Events \ mayDup' : Own(e, t, tab) => Own(e, t, tab)'
  BY <1>1 DEF Own, PassesOn
<1>5. item'[t] \in accepted' \cup {NoEvent} /\ accepted' = accepted /\ mayDup \subseteq mayDup'
  BY DEF CopyInv, Moves
<1>6. QED  BY <1>2, <1>3, <1>4, <1>5, CopyStep

\* What HandFlows and ListFlows say of the sets of rows.
LEMMA FlowSets ==
  ASSUME NEW r \in Seq(Events), NEW h \in Seq(Events), NEW n \in Nat \ {0}
  PROVE  /\ ToSet(r \o h) = ToSet(r) \cup ToSet(h) /\ ToSet(h \o r) = ToSet(r) \cup ToSet(h)
         /\ ToSet(KeepLast(r \o h, n)) \subseteq ToSet(r) \cup ToSet(h)
         /\ ToSet(r) = ToSet(Taken(r, n)) \cup ToSet(Rest(r, n))
         /\ ToSet(<<>>) = {}
<1>1. ToSet(r \o h) = ToSet(r) \cup ToSet(h) /\ ToSet(h \o r) = ToSet(h) \cup ToSet(r)
  BY ToSetConcat
<1>2. ToSet(KeepLast(r \o h, n)) \subseteq ToSet(r \o h)
  <2>0. r \o h \in Seq(Events)
    OBVIOUS
  <2>1. PICK l \in Seq(Events) : l = r \o h
    BY <2>0
  <2>2. ToSet(l) = CutOff(l, n) \cup ToSet(KeepLast(l, n))
    BY KeepLastSplits
  <2>3. QED  BY <2>1, <2>2
<1>3. /\ Taken(r, n) \in Seq(Events) /\ Rest(r, n) \in Seq(Events)
      /\ ToSet(r) = ToSet(Taken(r, n)) \cup ToSet(Rest(r, n))
  BY TakenSplits
<1>4. QED  BY <1>1, <1>2, <1>3, ToSetEmpty

LEMMA PopMemoryCopies ==
  ASSUME CopyInv, TypeOK', NEW t \in Flushers, PopMemory(t) \/ PopDrain(t)
  PROVE  CopyInv'
<1>0. t \in Threads /\ TypeOK
  BY DEF Threads, CopyInv
<1>1. PICK tab \in Tables : tab = Table(t)
  BY <1>0, ThreadFacts
<1>2. PICK p \in Procs : p = ProcOf[t]
  BY <1>0, ListTypes
<1>3. PICK r \in Seq(Events), s \in Seq(Events), d \in Seq(Events), m \in Seq(Events),
           h \in Seq(Events), n \in Nat \ {0} :
        /\ r = redis[tab] /\ s = stored[tab] /\ d = dlq[tab] /\ m = mem[p][tab] /\ h = hand[t]
        /\ n = BatchSize
  BY <1>0, <1>2, ListTypes
<1>4. /\ pc[t] = "table" /\ item' = item /\ accepted' = accepted /\ mayDup' = mayDup
      /\ redis' = redis /\ stored' = stored /\ dlq' = dlq
      /\ NextTable(t) \/ Goto(t, "insert") \/ Goto(t, "lpop") \/ Goto(t, "residual")
  BY DEF PopMemory, PopDrain, ghosts, sinks
<1>5. NextTable(t) \/ \E point \in Points \ {"pipe"} : Goto(t, point)
  BY <1>4 DEF Points
<1>6. \A q \in Procs, u \in Tables : q # p \/ u # tab => mem'[q][u] = mem[q][u]
  <2>1. mem \in [Procs -> [Tables -> Seq(Events)]]
    BY <1>0 DEF TypeOK, BufferTypes
  <2>2. PICK rest : mem' = [mem EXCEPT ![p][tab] = rest]
    BY <1>1, <1>2 DEF PopMemory, PopDrain
  <2>3. QED  BY <2>1, <2>2
<1>7. PICK rows :
        /\ Holds(t, rows)
        /\ \/ mem'[p][tab] = Rest(m, n) /\ rows = Taken(m, n)
           \/ mem'[p][tab] = <<>> /\ rows = m
  <2>1. mem \in [Procs -> [Tables -> Seq(Events)]]
    BY <1>0 DEF TypeOK, BufferTypes
  <2>2. CASE PopMemory(t)
    BY <1>1, <1>2, <1>3, <2>1, <2>2 DEF PopMemory
  <2>3. CASE PopDrain(t)
    BY <1>1, <1>2, <1>3, <2>1, <2>3 DEF PopDrain
  <2>4. QED  BY <2>2, <2>3
<1>8. ToSet(m) = ToSet(mem'[p][tab]) \cup ToSet(rows)
  <2>1. ToSet(m) = ToSet(Taken(m, n)) \cup ToSet(Rest(m, n)) /\ ToSet(<<>>) = {}
    BY FlowSets
  <2>2. QED  BY <1>7, <2>1
<1>9. ASSUME NEW e, Alone(e, r, s, d, m, h)
      PROVE  Alone(e, redis'[tab], stored'[tab], dlq'[tab], mem'[p][tab], rows)
  <2>1. Alone(e, r, s, d, Rest(m, n), Taken(m, n)) /\ Alone(e, r, s, d, <<>>, m)
    BY <1>9, ListFlows
  <2>2. redis'[tab] = r /\ stored'[tab] = s /\ dlq'[tab] = d
    BY <1>3, <1>4
  <2>3. QED  BY <1>7, <2>1, <2>2
<1>10. Moves(t, rows)
  BY <1>4, <1>5, <1>7 DEF Moves
<1>11. StaysElsewhere(t, tab)
  BY <1>2, <1>4, <1>6 DEF StaysElsewhere
<1>12. PassesOn(t, tab, rows)
  BY <1>2, <1>3, <1>4, <1>8, <1>9 DEF PassesOn
<1>13. QED  BY <1>0, <1>10, <1>11, <1>12, ListsCopy

LEMMA RedisCopies ==
  ASSUME CopyInv, TypeOK', NEW t \in Flushers,
         PopResidual(t) \/ PopResidualFails(t) \/ Requeue(t) \/ RequeueFails(t)
  PROVE  CopyInv'
<1>0. t \in Threads /\ TypeOK
  BY DEF Threads, CopyInv
<1>1. PICK tab \in Tables : tab = Table(t)
  BY <1>0, ThreadFacts
<1>2. PICK p \in Procs : p = ProcOf[t]
  BY <1>0, ListTypes
<1>3. PICK r \in Seq(Events), s \in Seq(Events), d \in Seq(Events), m \in Seq(Events),
           h \in Seq(Events), n \in Nat \ {0} :
        /\ r = redis[tab] /\ s = stored[tab] /\ d = dlq[tab] /\ m = mem[p][tab] /\ h = hand[t]
        /\ n = BatchSize
  BY <1>0, <1>2, ListTypes
<1>4. /\ pc[t] # "pipe" /\ item' = item /\ accepted' = accepted /\ mayDup' = mayDup
      /\ mem' = mem /\ stored' = stored /\ dlq' = dlq /\ Holds(t, <<>>)
      /\ NextTable(t) \/ Goto(t, "lpop")
  BY DEF PopResidual, PopResidualFails, Requeue, RequeueFails, ghosts, sinks, marks
<1>5. NextTable(t) \/ \E point \in Points \ {"pipe"} : Goto(t, point)
  BY <1>4 DEF Points
<1>6. /\ \A u \in Tables \ {tab} : redis'[u] = redis[u]
      /\ \/ redis'[tab] = r
         \/ redis'[tab] = r \o h
         \/ redis'[tab] = h \o r
  BY <1>0, <1>1, <1>2, <1>3 DEF PopResidual, PopResidualFails, Requeue, RequeueFails, PutBack, TypeOK, BufferTypes
<1>7. ToSet(redis'[tab]) \cup ToSet(<<>>) \subseteq ToSet(r) \cup ToSet(h)
  <2>1. ToSet(r \o h) = ToSet(r) \cup ToSet(h) /\ ToSet(h \o r) = ToSet(r) \cup ToSet(h) /\ ToSet(<<>>) = {}
    BY FlowSets
  <2>2. QED  BY <1>6, <2>1
<1>8. ASSUME NEW e, Alone(e, r, s, d, m, h)
      PROVE  Alone(e, redis'[tab], stored'[tab], dlq'[tab], mem'[p][tab], <<>>)
  <2>1. /\ Alone(e, r, s, d, m, <<>>)
        /\ Alone(e, r \o h, s, d, m, <<>>) /\ Alone(e, h \o r, s, d, m, <<>>)
    BY <1>8, HandFlows
  <2>2. QED  BY <1>3, <1>4, <1>6, <1>8, <2>1
<1>9. Moves(t, <<>>)
  BY <1>4, <1>5 DEF Moves
<1>10. StaysElsewhere(t, tab)
  BY <1>4, <1>6 DEF StaysElsewhere
<1>11. PassesOn(t, tab, <<>>)
  BY <1>2, <1>3, <1>4, <1>7, <1>8 DEF PassesOn
<1>12. QED  BY <1>0, <1>9, <1>10, <1>11, ListsCopy

LEMMA PopBatchCopies ==
  ASSUME CopyInv, TypeOK', NEW t \in Flushers, PopBatch(t) \/ PopBatchFails(t)
  PROVE  CopyInv'
<1>0. t \in Threads /\ TypeOK
  BY DEF Threads, CopyInv
<1>1. PICK tab \in Tables : tab = Table(t)
  BY <1>0, ThreadFacts
<1>2. PICK p \in Procs : p = ProcOf[t]
  BY <1>0, ListTypes
<1>3. PICK r \in Seq(Events), s \in Seq(Events), d \in Seq(Events), m \in Seq(Events),
           h \in Seq(Events), n \in Nat \ {0} :
        /\ r = redis[tab] /\ s = stored[tab] /\ d = dlq[tab] /\ m = mem[p][tab] /\ h = hand[t]
        /\ n = BatchSize
  BY <1>0, <1>2, ListTypes
<1>4. /\ pc[t] = "lpop" /\ item' = item /\ accepted' = accepted /\ mayDup' = mayDup
      /\ mem' = mem /\ stored' = stored /\ dlq' = dlq /\ (NextTable(t) \/ Goto(t, "insert"))
  BY DEF PopBatch, PopBatchFails, ghosts, sinks, marks
<1>5. NextTable(t) \/ \E point \in Points \ {"pipe"} : Goto(t, point)
  BY <1>4 DEF Points
<1>6. \A u \in Tables \ {tab} : redis'[u] = redis[u]
  BY <1>0, <1>1, <1>2, <1>3 DEF PopBatch, PopBatchFails, TypeOK, BufferTypes
<1>7. PICK rows :
        \/ /\ redis'[tab] = Rest(r, n)
           /\ Holds(t, rows) /\ rows = Taken(r, n)
        \/ /\ redis'[tab] = Rest(r, n) \/ redis'[tab] = r
           /\ hand' = hand /\ rows = h
  BY <1>0, <1>1, <1>2, <1>3 DEF PopBatch, PopBatchFails, TypeOK, BufferTypes
<1>8. ToSet(redis'[tab]) \cup ToSet(rows) \subseteq ToSet(r) \cup ToSet(h)
  <2>1. ToSet(r) = ToSet(Taken(r, n)) \cup ToSet(Rest(r, n))
    BY FlowSets
  <2>2. QED  BY <1>7, <2>1
<1>9. ASSUME NEW e, Alone(e, r, s, d, m, h)
      PROVE  Alone(e, redis'[tab], stored'[tab], dlq'[tab], mem'[p][tab], rows)
  <2>1. Alone(e, Rest(r, n), s, d, m, Taken(r, n)) /\ Alone(e, Rest(r, n), s, d, m, h)
    BY <1>9, ListFlows
  <2>2. QED  BY <1>3, <1>4, <1>7, <1>9, <2>1
<1>10. Moves(t, rows)
  BY <1>3, <1>4, <1>5, <1>7 DEF Moves
<1>11. StaysElsewhere(t, tab)
  BY <1>4, <1>6 DEF StaysElsewhere
<1>12. PassesOn(t, tab, rows)
  BY <1>2, <1>3, <1>4, <1>8, <1>9 DEF PassesOn
<1>13. QED  BY <1>0, <1>10, <1>11, <1>12, ListsCopy

LEMMA InsertCopies ==
  ASSUME CopyInv, TypeOK', NEW t \in Flushers, InsertSucceeds(t) \/ InsertFails(t)
  PROVE  CopyInv'
<1>0. t \in Threads /\ TypeOK
  BY DEF Threads, CopyInv
<1>1. PICK tab \in Tables : tab = Table(t)
  BY <1>0, ThreadFacts
<1>2. PICK p \in Procs : p = ProcOf[t]
  BY <1>0, ListTypes
<1>3. PICK r \in Seq(Events), s \in Seq(Events), d \in Seq(Events), m \in Seq(Events),
           h \in Seq(Events), n \in Nat \ {0} :
        /\ r = redis[tab] /\ s = stored[tab] /\ d = dlq[tab] /\ m = mem[p][tab] /\ h = hand[t]
        /\ n = BatchSize
  BY <1>0, <1>2, ListTypes
<1>4. /\ pc[t] = "insert" /\ item' = item /\ accepted' = accepted /\ mayDup \subseteq mayDup'
      /\ mem' = mem /\ redis' = redis /\ dlq' = dlq /\ (NextTable(t) \/ Goto(t, "requeue"))
  BY DEF InsertSucceeds, InsertFails, ghosts, buffers, marks
<1>5. NextTable(t) \/ \E point \in Points \ {"pipe"} : Goto(t, point)
  BY <1>4 DEF Points
<1>6. \A u \in Tables \ {tab} : stored'[u] = stored[u]
  BY <1>0, <1>1, <1>2, <1>3 DEF InsertSucceeds, InsertFails, TypeOK, BufferTypes
<1>7. PICK rows :
        \/ stored'[tab] = s \o h /\ Holds(t, rows) /\ rows = <<>>
        \/ /\ hand' = hand /\ rows = h
           /\ \/ stored'[tab] = s
              \/ stored'[tab] = s \o h /\ ToSet(h) \subseteq mayDup'
  BY <1>0, <1>1, <1>2, <1>3 DEF InsertSucceeds, InsertFails, TypeOK, BufferTypes
<1>8. ToSet(stored'[tab]) \cup ToSet(rows) \subseteq ToSet(s) \cup ToSet(h)
  <2>1. ToSet(s \o h) = ToSet(s) \cup ToSet(h) /\ ToSet(<<>>) = {}
    BY FlowSets
  <2>2. QED  BY <1>7, <2>1
<1>9. ASSUME NEW e \in Events \ mayDup',
             Alone(e, r, s, d, m, h)
      PROVE  Alone(e, redis'[tab], stored'[tab], dlq'[tab], mem'[p][tab], rows)
  <2>1. /\ Alone(e, r, s \o h, d, m, <<>>)
        /\ e \notin ToSet(h) => Alone(e, r, s \o h, d, m, h)
    BY <1>9, HandFlows
  <2>2. QED  BY <1>3, <1>4, <1>7, <1>9, <2>1
<1>10. Moves(t, rows)
  BY <1>3, <1>4, <1>5, <1>7 DEF Moves
<1>11. StaysElsewhere(t, tab)
  BY <1>4, <1>6 DEF StaysElsewhere
<1>12. PassesOn(t, tab, rows)
  BY <1>2, <1>3, <1>4, <1>8, <1>9 DEF PassesOn
<1>13. QED  BY <1>0, <1>10, <1>11, <1>12, ListsCopy

LEMMA RequeueToMemoryCopies ==
  ASSUME CopyInv, TypeOK', NEW t \in Flushers, RequeueToMemory(t)
  PROVE  CopyInv'
<1>0. t \in Threads /\ TypeOK
  BY DEF Threads, CopyInv
<1>1. PICK tab \in Tables : tab = Table(t)
  BY <1>0, ThreadFacts
<1>2. PICK p \in Procs : p = ProcOf[t]
  BY <1>0, ListTypes
<1>3. PICK r \in Seq(Events), s \in Seq(Events), d \in Seq(Events), m \in Seq(Events),
           h \in Seq(Events), n \in Nat \ {0} :
        /\ r = redis[tab] /\ s = stored[tab] /\ d = dlq[tab] /\ m = mem[p][tab] /\ h = hand[t]
        /\ n = BatchSize
  BY <1>0, <1>2, ListTypes
<1>4. /\ pc[t] = "requeue" /\ item' = item /\ accepted' = accepted /\ mayDup' = mayDup
      /\ redis' = redis /\ stored' = stored /\ dlq' = dlq /\ NextTable(t) /\ Holds(t, <<>>)
  BY DEF RequeueToMemory, ghosts, sinks
<1>5. /\ mem'[p][tab] = h \o m
      /\ \A q \in Procs, u \in Tables : q # p \/ u # tab => mem'[q][u] = mem[q][u]
  BY <1>0, <1>1, <1>2, <1>3 DEF RequeueToMemory, PutBack, TypeOK, BufferTypes
<1>6. ToSet(mem'[p][tab]) \cup ToSet(<<>>) \subseteq ToSet(m) \cup ToSet(h)
  <2>1. ToSet(h \o m) = ToSet(m) \cup ToSet(h) /\ ToSet(<<>>) = {}
    BY FlowSets
  <2>2. QED  BY <1>5, <2>1
<1>7. ASSUME NEW e, Alone(e, r, s, d, m, h)
      PROVE  Alone(e, redis'[tab], stored'[tab], dlq'[tab], mem'[p][tab], <<>>)
  <2>1. Alone(e, r, s, d, h \o m, <<>>)
    BY <1>7, HandFlows
  <2>2. QED  BY <1>3, <1>4, <1>5, <1>7, <2>1
<1>8. Moves(t, <<>>)
  BY <1>4 DEF Moves
<1>9. StaysElsewhere(t, tab)
  BY <1>2, <1>4, <1>5 DEF StaysElsewhere
<1>10. PassesOn(t, tab, <<>>)
  BY <1>2, <1>3, <1>4, <1>6, <1>7 DEF PassesOn
<1>11. QED  BY <1>0, <1>8, <1>9, <1>10, ListsCopy

LEMMA DeadLetterCopies ==
  ASSUME CopyInv, TypeOK', NEW t \in Flushers,
         DeadLetter(t) \/ DeadLetterDropped(t) \/ DeadLetterFails(t)
  PROVE  CopyInv'
<1>0. t \in Threads /\ TypeOK
  BY DEF Threads, CopyInv
<1>1. PICK tab \in Tables : tab = Table(t)
  BY <1>0, ThreadFacts
<1>2. PICK p \in Procs : p = ProcOf[t]
  BY <1>0, ListTypes
<1>3. PICK r \in Seq(Events), s \in Seq(Events), d \in Seq(Events), m \in Seq(Events),
           h \in Seq(Events), n \in Nat \ {0} :
        /\ r = redis[tab] /\ s = stored[tab] /\ d = dlq[tab] /\ m = mem[p][tab] /\ h = hand[t]
        /\ n = DlqMax
  BY <1>0, <1>2, ListTypes
<1>4. /\ pc[t] = "deadletter" /\ item' = item /\ accepted' = accepted /\ mayDup' = mayDup
      /\ mem' = mem /\ redis' = redis /\ stored' = stored /\ NextTable(t) /\ Holds(t, <<>>)
  BY DEF DeadLetter, DeadLetterDropped, DeadLetterFails, buffers, sinks, marks
<1>5. /\ \A u \in Tables \ {tab} : dlq'[u] = dlq[u]
      /\ \/ dlq'[tab] = d
         \/ dlq'[tab] = d \o h
         \/ dlq'[tab] = KeepLast(d \o h, n)
  BY <1>0, <1>1, <1>2, <1>3 DEF DeadLetter, DeadLetterDropped, DeadLetterFails, DeadLetters, sinks,
                    TypeOK, BufferTypes
<1>6. ToSet(dlq'[tab]) \cup ToSet(<<>>) \subseteq ToSet(d) \cup ToSet(h)
  <2>1. /\ ToSet(d \o h) = ToSet(d) \cup ToSet(h) /\ ToSet(<<>>) = {}
        /\ ToSet(KeepLast(d \o h, n)) \subseteq ToSet(d) \cup ToSet(h)
    BY FlowSets
  <2>2. QED  BY <1>5, <2>1
<1>7. ASSUME NEW e, Alone(e, r, s, d, m, h)
      PROVE  Alone(e, redis'[tab], stored'[tab], dlq'[tab], mem'[p][tab], <<>>)
  <2>1. /\ Alone(e, r, s, d, m, <<>>)
        /\ Alone(e, r, s, d \o h, m, <<>>) /\ Alone(e, r, s, KeepLast(d \o h, n), m, <<>>)
    BY <1>7, HandFlows
  <2>2. redis'[tab] = r /\ stored'[tab] = s /\ mem'[p][tab] = m
    BY <1>3, <1>4
  <2>3. QED  BY <1>5, <2>1, <2>2
<1>8. Moves(t, <<>>)
  BY <1>4 DEF Moves
<1>9. StaysElsewhere(t, tab)
  BY <1>4, <1>5 DEF StaysElsewhere
<1>10. PassesOn(t, tab, <<>>)
  BY <1>2, <1>3, <1>4, <1>6, <1>7 DEF PassesOn
<1>11. QED  BY <1>0, <1>8, <1>9, <1>10, ListsCopy

-----------------------------------------------------------------------------
(* No event twice: pushing threads *)

\* What appending to the memory of a process leaves alone and what it puts there.
LEMMA AppendsThere ==
  ASSUME TypeOK, NEW p \in Procs, NEW tab \in Tables, NEW e, AppendToMemory(p, tab, e)
  PROVE  /\ mem'[p][tab] = KeepLast(Append(mem[p][tab], e), MaxSize)
         /\ \A q \in Procs, u \in Tables : q # p \/ u # tab => mem'[q][u] = mem[q][u]
BY DEF TypeOK, BufferTypes, AppendToMemory

LEMMA PushToMemoryCopies ==
  ASSUME CopyInv, TypeOK', NEW t \in Pushers, NEW x \in Events, PushToMemory(t, x)
  PROVE  CopyInv'
<1>0. t \in Threads /\ TypeOK
  BY DEF Threads, CopyInv
<1>1. PICK tab \in Tables : tab = TableOf[x]
  BY PipelineAssumption
<1>2. MaxSize \in Nat \ {0}
  BY PipelineAssumption
<1>3. PICK p \in Procs, n \in Nat \ {0}, r \in Seq(Events), s \in Seq(Events), d \in Seq(Events),
           m \in Seq(Events), h \in Seq(Events) :
        /\ p = ProcOf[t] /\ n = MaxSize
        /\ r = redis[tab] /\ s = stored[tab] /\ d = dlq[tab] /\ m = mem[p][tab] /\ h = hand[t]
  BY <1>0, <1>2, ListTypes
<1>4. /\ redis' = redis /\ stored' = stored /\ dlq' = dlq /\ hand' = hand /\ pc' = pc /\ item' = item
      /\ accepted' = accepted \cup {x} /\ x \notin accepted /\ mayDup' = mayDup
  BY DEF PushToMemory, sinks, local
<1>5. /\ mem'[p][tab] = KeepLast(Append(m, x), n)
      /\ \A q \in Procs, u \in Tables : q # p \/ u # tab => mem'[q][u] = mem[q][u]
  BY <1>0, <1>1, <1>3, AppendsThere DEF PushToMemory
<1>6. Touches(t, tab)
  BY <1>3, <1>4, <1>5 DEF Touches
<1>7. Carried(t)' = Carried(t)
  BY <1>4 DEF Carried
<1>8. ToSet(mem'[p][tab]) \subseteq ToSet(m) \cup {x}
  <2>1. PICK l \in Seq(Events) : l = Append(m, x) /\ ToSet(l) = ToSet(m) \cup {x}
    BY ToSetAppend, ZenonT(30)
  <2>2. ToSet(l) = CutOff(l, n) \cup ToSet(KeepLast(l, n))
    BY KeepLastSplits
  <2>3. QED  BY <1>5, <2>1, <2>2
<1>9. Here(t, tab)' \subseteq Here(t, tab) \cup {x}
  BY <1>3, <1>4, <1>7, <1>8 DEF Here
<1>10. ASSUME NEW e \in Events, Own(e, t, tab), e \notin accepted => e \notin Here(t, tab)
       PROVE  Own(e, t, tab)'
  <2>1. Alone(e, r, s, d, m, h)
    BY <1>3, <1>10 DEF Own
  <2>2. e = x => e \notin ToSet(r) \cup ToSet(s) \cup ToSet(d) \cup ToSet(m) \cup ToSet(h) \cup Carried(t)
    BY <1>3, <1>4, <1>10 DEF Here
  <2>3. Alone(e, r, s, d, KeepLast(Append(m, x), n), h)
    BY <2>1, <2>2, PayloadFlows
  <2>4. e \in Carried(t) => e \notin ToSet(r) \cup ToSet(s) \cup ToSet(d) \cup ToSet(mem'[p][tab]) \cup ToSet(h)
    BY <1>3, <1>8, <1>10, <2>2 DEF Own
  <2>5. QED  BY <1>3, <1>4, <1>5, <1>7, <2>3, <2>4 DEF Own
<1>11. item'[t] \in accepted' \cup {NoEvent}
  BY <1>0, <1>4 DEF CopyInv
<1>12. \A e \in Here(t, tab)' : e \in Here(t, tab) \/ (e \in accepted' /\ e \notin accepted)
  BY <1>4, <1>9
<1>13. QED  BY <1>0, <1>4, <1>6, <1>10, <1>11, <1>12, CopyStep

LEMMA PushDrainCopies ==
  ASSUME CopyInv, TypeOK', NEW t \in Pushers, NEW x \in Events, PushDrain(t, x)
  PROVE  CopyInv'
<1>0. t \in Threads /\ TypeOK
  BY DEF Threads, CopyInv
<1>1. PICK tab \in Tables : tab = TableOf[x]
  BY PipelineAssumption
<1>2. MaxSize \in Nat \ {0}
  BY PipelineAssumption
<1>3. PICK p \in Procs, n \in Nat \ {0}, r \in Seq(Events), s \in Seq(Events), d \in Seq(Events),
           m \in Seq(Events), h \in Seq(Events) :
        /\ p = ProcOf[t] /\ n = MaxSize
        /\ r = redis[tab] /\ s = stored[tab] /\ d = dlq[tab] /\ m = mem[p][tab] /\ h = hand[t]
  BY <1>0, <1>2, ListTypes
<1>4. /\ redis' = redis /\ stored' = stored /\ dlq' = dlq
      /\ accepted' = accepted \cup {x} /\ x \notin accepted /\ mayDup' = mayDup
  BY DEF PushDrain, sinks
<1>5. /\ mem'[p][tab] = <<>>
      /\ \A q \in Procs, u \in Tables : q # p \/ u # tab => mem'[q][u] = mem[q][u]
  BY <1>0, <1>1, <1>3 DEF PushDrain, TypeOK, BufferTypes
<1>6. /\ \A u \in Threads \ {t} : pc'[u] = pc[u] /\ item'[u] = item[u] /\ hand'[u] = hand[u]
      /\ hand'[t] = m /\ item'[t] = x /\ Carried(t)' = {x}
  BY <1>0, <1>1, <1>3 DEF PushDrain, TypeOK, LocalTypes, Holds, Goto, Carried, Memory
<1>7. Touches(t, tab)
  BY <1>3, <1>4, <1>5, <1>6 DEF Touches
<1>8. Here(t, tab)' \subseteq Here(t, tab) \cup {x}
  BY <1>3, <1>4, <1>5, <1>6, ToSetEmpty DEF Here
<1>9. ASSUME NEW e \in Events, Own(e, t, tab), e \notin accepted => e \notin Here(t, tab)
      PROVE  Own(e, t, tab)'
  <2>1. Alone(e, r, s, d, m, h)
    BY <1>3, <1>9 DEF Own
  <2>2. Alone(e, r, s, d, <<>>, m)
    BY <2>1, ListFlows
  <2>3. e = x => e \notin ToSet(r) \cup ToSet(s) \cup ToSet(d) \cup ToSet(<<>>) \cup ToSet(m)
    BY <1>3, <1>4, <1>9, ToSetEmpty DEF Here
  <2>4. QED  BY <1>3, <1>4, <1>5, <1>6, <2>2, <2>3 DEF Own
<1>10. \A e \in Here(t, tab)' : e \in Here(t, tab) \/ (e \in accepted' /\ e \notin accepted)
  BY <1>4, <1>8
<1>11. QED  BY <1>0, <1>4, <1>6, <1>7, <1>9, <1>10, CopyStep

\* A push that returns: its lists hold what they had, its payload, and the
\* payload twice only when it may be doubled.
Settles(t, tab) ==
  /\ ToSet(redis'[tab]) \cup ToSet(mem'[ProcOf[t]][tab])
       \subseteq ToSet(redis[tab]) \cup ToSet(mem[ProcOf[t]][tab]) \cup ToSet(hand[t]) \cup {item[t]}
  /\ item[t] \in Carried(t) \cup mayDup'
  /\ \A e \in Events \ mayDup' : Own(e, t, tab) =>
       Alone(e, redis'[tab], stored[tab], dlq[tab], mem'[ProcOf[t]][tab], <<>>)

LEMMA SettlesCopy ==
  ASSUME CopyInv, TypeOK', NEW t \in Threads, NEW tab \in Tables, item[t] \in Events,
         Touches(t, tab), Settles(t, tab),
         hand'[t] = <<>> /\ Carried(t)' = {}, item'[t] \in {item[t], NoEvent},
         stored' = stored /\ dlq' = dlq /\ accepted' = accepted, mayDup \subseteq mayDup'
  PROVE  CopyInv'
<1>1. item[t] \in accepted
  BY PipelineAssumption DEF CopyInv
<1>2. \A e \in Here(t, tab)' : e \in Here(t, tab) \/ (e \in accepted' /\ e \in mayDup')
  BY <1>1, ToSetEmpty DEF Here, Settles
<1>3. \A e \in Events \ mayDup' : Own(e, t, tab) => Own(e, t, tab)'
  BY DEF Settles, Own
<1>4. item'[t] \in accepted' \cup {NoEvent}
  BY <1>1
<1>5. QED  BY <1>2, <1>3, <1>4, CopyStep

LEMMA PushPipelineCopies ==
  ASSUME CopyInv, TypeOK', NEW t \in Pushers, PushPipeline(t)
  PROVE  CopyInv'
<1>0. t \in Threads /\ TypeOK /\ item[t] \in Events
  BY DEF Threads, CopyInv, TypeOK, LocalTypes, PushPipeline
<1>1. PICK tab \in Tables : tab = ItemTable(t)
  BY <1>0, ThreadFacts
<1>2. MaxSize \in Nat \ {0}
  BY PipelineAssumption
<1>3. PICK p \in Procs, n \in Nat \ {0}, r \in Seq(Events), s \in Seq(Events), d \in Seq(Events),
           m \in Seq(Events), h \in Seq(Events), x \in Events :
        /\ p = ProcOf[t] /\ n = MaxSize /\ x = item[t]
        /\ r = redis[tab] /\ s = stored[tab] /\ d = dlq[tab] /\ m = mem[p][tab] /\ h = hand[t]
  BY <1>0, <1>2, ListTypes
<1>4. /\ mem' = mem /\ stored' = stored /\ dlq' = dlq /\ accepted' = accepted /\ mayDup' = mayDup
      /\ Carried(t) = {x}
  BY <1>3 DEF PushPipeline, sinks, Carried
<1>5. redis'[tab] = r \o Append(h, x) /\ \A u \in Tables \ {tab} : redis'[u] = redis[u]
  BY <1>0, <1>1, <1>3 DEF PushPipeline, TypeOK, BufferTypes
<1>6. /\ \A u \in Threads \ {t} : pc'[u] = pc[u] /\ item'[u] = item[u] /\ hand'[u] = hand[u]
      /\ hand'[t] = <<>> /\ Carried(t)' = {} /\ item'[t] \in {item[t], NoEvent}
  <2>1. CASE Goto(t, "trim") /\ Holds(t, <<>>) /\ item' = item
    BY <1>0, <2>1 DEF TypeOK, LocalTypes, Goto, Holds, Carried
  <2>2. CASE PushReturns(t)
    BY <1>0, <2>2 DEF TypeOK, LocalTypes, PushReturns, Goto, Holds, Carried
  <2>3. QED  BY <2>1, <2>2 DEF PushPipeline
<1>7. Touches(t, tab)
  BY <1>4, <1>5, <1>6 DEF Touches
<1>8. PICK l \in Seq(Events) : l = Append(h, x) /\ ToSet(l) = ToSet(h) \cup {x}
  BY ToSetAppend, ZenonT(30)
<1>9. ToSet(redis'[tab]) = ToSet(r) \cup ToSet(l)
  <2>1. ToSet(r \o l) = ToSet(r) \cup ToSet(l)
    BY ToSetConcat
  <2>2. QED  BY <1>5, <1>8, <2>1
<1>10. ASSUME NEW e, Own(e, t, tab) PROVE Alone(e, redis'[tab], s, d, m, <<>>)
  <2>1. /\ Alone(e, r, s, d, m, h)
        /\ e = x => e \notin ToSet(r) \cup ToSet(s) \cup ToSet(d) \cup ToSet(m) \cup ToSet(h)
    BY <1>3, <1>4, <1>10 DEF Own
  <2>2. Alone(e, r, s, d, m, l)
    BY <1>8, <2>1, PayloadFlows
  <2>3. Alone(e, r \o l, s, d, m, <<>>)
    BY <2>2, HandFlows
  <2>4. QED  BY <1>5, <1>8, <2>3
<1>11. Settles(t, tab)
  BY <1>3, <1>4, <1>8, <1>9, <1>10 DEF Settles
<1>12. QED  BY <1>0, <1>4, <1>6, <1>7, <1>11, SettlesCopy

\* A push whose Redis call raised keeps its payload in memory.
LEMMA FallBackCopies ==
  ASSUME CopyInv, TypeOK', NEW t \in Threads, item[t] \in Events, FallBackToMemory(t),
         NEW p \in Procs, p = ProcOf[t], NEW tab \in Tables, tab = ItemTable(t),
         stored' = stored /\ dlq' = dlq /\ accepted' = accepted, mayDup \subseteq mayDup',
         NEW r \in Seq(Events), redis' = [redis EXCEPT ![tab] = r],
         item[t] \in Carried(t) \cup mayDup',
         ToSet(r) \subseteq ToSet(redis[tab]) \cup ToSet(hand[t]) \cup {item[t]},
         \A e \in Events \ mayDup' : Own(e, t, tab) =>
           /\ Alone(e, r, stored[tab], dlq[tab], mem[p][tab], <<>>)
           /\ e = item[t] => e \notin ToSet(r)
  PROVE  CopyInv'
<1>0. TypeOK
  BY DEF CopyInv
<1>1. MaxSize \in Nat \ {0}
  BY PipelineAssumption
<1>2. PICK n \in Nat \ {0}, s \in Seq(Events), d \in Seq(Events), m \in Seq(Events), x \in Events :
        n = MaxSize /\ s = stored[tab] /\ d = dlq[tab] /\ m = mem[p][tab] /\ x = item[t]
  BY <1>0, <1>1, ListTypes
<1>3. redis'[tab] = r /\ \A u \in Tables \ {tab} : redis'[u] = redis[u]
  BY <1>0 DEF TypeOK, BufferTypes
<1>4. /\ mem'[p][tab] = KeepLast(Append(m, x), n)
      /\ \A q \in Procs, u \in Tables : q # p \/ u # tab => mem'[q][u] = mem[q][u]
  BY <1>0, <1>2, AppendsThere DEF FallBackToMemory
<1>5. /\ \A u \in Threads \ {t} : pc'[u] = pc[u] /\ item'[u] = item[u] /\ hand'[u] = hand[u]
      /\ hand'[t] = <<>> /\ Carried(t)' = {} /\ item'[t] \in {item[t], NoEvent}
  BY <1>0 DEF TypeOK, LocalTypes, FallBackToMemory, PushReturns, Goto, Holds, Carried
<1>6. Touches(t, tab)
  BY <1>3, <1>4, <1>5 DEF Touches
<1>7. ToSet(mem'[p][tab]) \subseteq ToSet(m) \cup {x}
  <2>0. Append(m, x) \in Seq(Events) /\ ToSet(Append(m, x)) = ToSet(m) \cup {x}
    BY ToSetAppend
  <2>1. PICK l \in Seq(Events) : l = Append(m, x) /\ ToSet(l) = ToSet(m) \cup {x}
    BY <2>0
  <2>2. ToSet(l) = CutOff(l, n) \cup ToSet(KeepLast(l, n))
    BY KeepLastSplits
  <2>3. QED  BY <1>4, <2>1, <2>2
<1>8. ASSUME NEW e \in Events \ mayDup', Own(e, t, tab)
      PROVE  Alone(e, r, s, d, mem'[p][tab], <<>>)
  <2>1. Alone(e, r, s, d, m, <<>>) /\ (e = x => e \notin ToSet(r))
    BY <1>2, <1>8
  <2>2. e = x => e \notin ToSet(r) \cup ToSet(s) \cup ToSet(d) \cup ToSet(m) \cup ToSet(<<>>)
    BY <1>2, <1>8, <2>1, ToSetEmpty DEF Own
  <2>3. <<>> \in Seq(Events)
    OBVIOUS
  <2>4. Alone(e, r, s, d, KeepLast(Append(m, x), n), <<>>)
    BY <2>1, <2>2, <2>3, PayloadFlows
  <2>5. QED  BY <1>4, <2>4
<1>9. Settles(t, tab)
  BY <1>2, <1>3, <1>7, <1>8 DEF Settles
<1>10. QED  BY <1>5, <1>6, <1>9, SettlesCopy

LEMMA PushPipelineFailsCopies ==
  ASSUME CopyInv, TypeOK', NEW t \in Pushers, PushPipelineFails(t)
  PROVE  CopyInv'
<1>0. t \in Threads /\ TypeOK /\ item[t] \in Events
  BY DEF Threads, CopyInv, TypeOK, LocalTypes, PushPipelineFails
<1>1. PICK tab \in Tables : tab = ItemTable(t)
  BY <1>0, ThreadFacts
<1>2. MaxSize \in Nat \ {0}
  BY PipelineAssumption
<1>3. PICK p \in Procs, n \in Nat \ {0}, r \in Seq(Events), s \in Seq(Events), d \in Seq(Events),
           m \in Seq(Events), h \in Seq(Events), x \in Events :
        /\ p = ProcOf[t] /\ n = MaxSize /\ x = item[t]
        /\ r = redis[tab] /\ s = stored[tab] /\ d = dlq[tab] /\ m = mem[p][tab] /\ h = hand[t]
  BY <1>0, <1>2, ListTypes
<1>4. /\ stored' = stored /\ dlq' = dlq /\ accepted' = accepted /\ mayDup \subseteq mayDup'
      /\ Carried(t) = {x} /\ FallBackToMemory(t)
  BY <1>3 DEF PushPipelineFails, sinks, marks, Carried
<1>5. PICK l \in Seq(Events) : l = Append(h, x) /\ ToSet(l) = ToSet(h) \cup {x}
  BY ToSetAppend, ZenonT(30)
<1>6. PICK pushed \in Seq(Events) :
        /\ redis' = [redis EXCEPT ![tab] = r \o pushed]
        /\ pushed = <<>> \/ pushed = h \/ (pushed = l /\ x \in mayDup')
  <2>1. <<>> \in Seq(Events)
    OBVIOUS
  <2>2. QED  BY <1>1, <1>3, <1>5, <2>1 DEF PushPipelineFails
<1>7. PICK r1 \in Seq(Events) : r1 = r \o pushed /\ ToSet(r1) = ToSet(r) \cup ToSet(pushed)
  <2>1. r \o pushed \in Seq(Events)
    OBVIOUS
  <2>2. ToSet(r \o pushed) = ToSet(r) \cup ToSet(pushed)
    BY ToSetConcat
  <2>3. QED  BY <2>1, <2>2
<1>8. ToSet(pushed) \subseteq ToSet(h) \cup {x}
  BY <1>5, <1>6, ToSetEmpty
<1>9. ASSUME NEW e \in Events \ mayDup', Own(e, t, tab)
      PROVE  Alone(e, r1, s, d, m, <<>>) /\ (e = x => e \notin ToSet(r1))
  <2>1. /\ Alone(e, r, s, d, m, h)
        /\ e = x => e \notin ToSet(r) \cup ToSet(s) \cup ToSet(d) \cup ToSet(m) \cup ToSet(h)
    BY <1>3, <1>4, <1>9 DEF Own
  <2>2. Alone(e, r, s, d, m, l)
    BY <1>5, <2>1, PayloadFlows
  <2>3. Alone(e, r, s, d, m, <<>>)
    BY <2>1, HandFlows
  <2>4. <<>> \in Seq(Events)
    OBVIOUS
  <2>5. Alone(e, r \o l, s, d, m, <<>>) /\ Alone(e, r \o h, s, d, m, <<>>)
        /\ Alone(e, r \o <<>>, s, d, m, <<>>)
    BY <2>1, <2>2, <2>3, <2>4, HandFlows
  <2>6. Alone(e, r1, s, d, m, <<>>)
    BY <1>6, <1>7, <2>5
  <2>7. e = x => e \notin ToSet(r1)
    BY <1>6, <1>7, <1>9, <2>1, ToSetEmpty
  <2>8. QED  BY <2>6, <2>7
<1>10. redis' = [redis EXCEPT ![tab] = r1]
  BY <1>6, <1>7
<1>11. item[t] \in Carried(t) \cup mayDup' /\ ToSet(r1) \subseteq ToSet(redis[tab]) \cup ToSet(hand[t]) \cup {item[t]}
  BY <1>3, <1>4, <1>7, <1>8
<1>12. \A e \in Events \ mayDup' : Own(e, t, tab) =>
         /\ Alone(e, r1, stored[tab], dlq[tab], mem[p][tab], <<>>)
         /\ e = item[t] => e \notin ToSet(r1)
  BY <1>3, <1>9
<1>13. p = ProcOf[t]
  BY <1>3
<1>14. QED  BY <1>0, <1>1, <1>4, <1>10, <1>11, <1>12, <1>13, FallBackCopies

LEMMA PushTrimCopies ==
  ASSUME CopyInv, TypeOK', NEW t \in Pushers, PushTrim(t)
  PROVE  CopyInv'
<1>0. t \in Threads /\ TypeOK /\ item[t] \in Events
  BY DEF Threads, CopyInv, TypeOK, LocalTypes, PushTrim
<1>1. PICK tab \in Tables : tab = ItemTable(t)
  BY <1>0, ThreadFacts
<1>2. MaxSize \in Nat \ {0}
  BY PipelineAssumption
<1>3. PICK p \in Procs, n \in Nat \ {0}, r \in Seq(Events), s \in Seq(Events), d \in Seq(Events),
           m \in Seq(Events), h \in Seq(Events) :
        /\ p = ProcOf[t] /\ n = MaxSize
        /\ r = redis[tab] /\ s = stored[tab] /\ d = dlq[tab] /\ m = mem[p][tab] /\ h = hand[t]
  BY <1>0, <1>2, ListTypes
<1>4. /\ mem' = mem /\ stored' = stored /\ dlq' = dlq /\ accepted' = accepted /\ mayDup' = mayDup
      /\ Carried(t) = {}
  BY DEF PushTrim, sinks, marks, Carried
<1>5. redis'[tab] = KeepLast(r, n) /\ \A u \in Tables \ {tab} : redis'[u] = redis[u]
  BY <1>0, <1>1, <1>3 DEF PushTrim, TypeOK, BufferTypes
<1>6. /\ \A u \in Threads \ {t} : pc'[u] = pc[u] /\ item'[u] = item[u] /\ hand'[u] = hand[u]
      /\ hand'[t] = <<>> /\ Carried(t)' = {} /\ item'[t] \in {item[t], NoEvent}
  BY <1>0 DEF PushTrim, TypeOK, LocalTypes, PushReturns, Goto, Holds, Carried
<1>7. Touches(t, tab)
  BY <1>4, <1>5, <1>6 DEF Touches
<1>8. ToSet(redis'[tab]) \subseteq ToSet(r)
  <2>1. ToSet(r) = CutOff(r, n) \cup ToSet(KeepLast(r, n))
    BY KeepLastSplits
  <2>2. QED  BY <1>5, <2>1
<1>9. Here(t, tab)' \subseteq Here(t, tab)
  BY <1>3, <1>4, <1>6, <1>8, ToSetEmpty DEF Here
<1>10. ASSUME NEW e, Own(e, t, tab) PROVE Own(e, t, tab)'
  <2>1. Alone(e, r, s, d, m, h)
    BY <1>3, <1>10 DEF Own
  <2>2. Alone(e, r, s, d, m, <<>>)
    BY <2>1, HandFlows
  <2>3. <<>> \in Seq(Events)
    OBVIOUS
  <2>4. Alone(e, KeepLast(r, n), s, d, m, <<>>)
    BY <2>2, <2>3, ListFlows
  <2>5. QED  BY <1>3, <1>4, <1>5, <1>6, <2>4 DEF Own
<1>11. item'[t] \in accepted' \cup {NoEvent}
  BY <1>0, <1>4, <1>6 DEF CopyInv
<1>12. QED  BY <1>0, <1>4, <1>7, <1>9, <1>10, <1>11, CopyStep

LEMMA PushTrimFailsCopies ==
  ASSUME CopyInv, TypeOK', NEW t \in Pushers, PushTrimFails(t)
  PROVE  CopyInv'
<1>0. t \in Threads /\ TypeOK /\ item[t] \in Events
  BY DEF Threads, CopyInv, TypeOK, LocalTypes, PushTrimFails
<1>1. PICK tab \in Tables : tab = ItemTable(t)
  BY <1>0, ThreadFacts
<1>2. MaxSize \in Nat \ {0}
  BY PipelineAssumption
<1>3. PICK p \in Procs, n \in Nat \ {0}, r \in Seq(Events), s \in Seq(Events), d \in Seq(Events),
           m \in Seq(Events), h \in Seq(Events) :
        /\ p = ProcOf[t] /\ n = MaxSize
        /\ r = redis[tab] /\ s = stored[tab] /\ d = dlq[tab] /\ m = mem[p][tab] /\ h = hand[t]
  BY <1>0, <1>2, ListTypes
<1>4. /\ stored' = stored /\ dlq' = dlq /\ accepted' = accepted /\ mayDup \subseteq mayDup'
      /\ item[t] \in mayDup' /\ FallBackToMemory(t)
  BY DEF PushTrimFails, sinks, marks
<1>5. PICK r1 \in Seq(Events) :
        redis' = [redis EXCEPT ![tab] = r1] /\ (r1 = r \/ r1 = KeepLast(r, n))
  <2>1. KeepLast(r, n) \in Seq(Events)
    BY KeepLastSplits
  <2>2. redis = [redis EXCEPT ![tab] = r]
    BY <1>0, <1>3 DEF TypeOK, BufferTypes
  <2>3. QED  BY <1>1, <1>3, <2>1, <2>2 DEF PushTrimFails
<1>6. ToSet(r1) \subseteq ToSet(r)
  <2>1. ToSet(r) = CutOff(r, n) \cup ToSet(KeepLast(r, n))
    BY KeepLastSplits
  <2>2. QED  BY <1>5, <2>1
<1>7. ASSUME NEW e, Own(e, t, tab) PROVE Alone(e, r1, s, d, m, <<>>)
  <2>1. Alone(e, r, s, d, m, h)
    BY <1>3, <1>7 DEF Own
  <2>2. Alone(e, r, s, d, m, <<>>)
    BY <2>1, HandFlows
  <2>3. <<>> \in Seq(Events)
    OBVIOUS
  <2>4. Alone(e, KeepLast(r, n), s, d, m, <<>>)
    BY <2>2, <2>3, ListFlows
  <2>5. QED  BY <1>5, <2>2, <2>4
<1>8. /\ item[t] \in Carried(t) \cup mayDup'
      /\ ToSet(r1) \subseteq ToSet(redis[tab]) \cup ToSet(hand[t]) \cup {item[t]}
  BY <1>3, <1>4, <1>6
<1>9. \A e \in Events \ mayDup' : Own(e, t, tab) =>
        /\ Alone(e, r1, stored[tab], dlq[tab], mem[p][tab], <<>>)
        /\ e = item[t] => e \notin ToSet(r1)
  BY <1>3, <1>4, <1>7
<1>10. p = ProcOf[t]
  BY <1>3
<1>11. redis' = [redis EXCEPT ![tab] = r1]
  BY <1>5
<1>12. QED  BY <1>0, <1>1, <1>4, <1>8, <1>9, <1>10, <1>11, FallBackCopies

-----------------------------------------------------------------------------
(* No event twice: time, crashes, and the theorem *)

\* Beginnings, ends and waits of a flush, and time, change no list.
LEMMA StillCopies ==
  ASSUME CopyInv, TypeOK', UNCHANGED <<redis, mem, sinks, item, hand, accepted, mayDup>>,
         \A t \in Threads : Load(t)' = Load(t)
  PROVE  CopyInv'
<1>1. \A c \in Cells : Rows(c)' = Rows(c)
  BY DEF Rows, Cells, sinks
<1>2. QED  BY <1>1, CopyShrinks

LEMMA IdlingCopies ==
  ASSUME CopyInv, TypeOK', NEW t \in Flushers,
         \/ FlushBegins(t) \/ FlushBeginsUnlocked(t) \/ SkipTable(t) \/ InsertRejected(t)
         \/ FlushEnds(t) \/ FlushEndsFails(t)
  PROVE  CopyInv'
<1>0. t \in Threads /\ TypeOK
  BY DEF Threads, CopyInv
<1>1. /\ pc[t] # "pipe" /\ item' = item /\ hand' = hand
      /\ UNCHANGED <<redis, mem, sinks, accepted, mayDup>>
  BY DEF FlushBegins, FlushBeginsUnlocked, SkipTable, InsertRejected, FlushEnds,
         FlushEndsFails, buffers, ghosts, marks
<1>2. PICK point \in {"table", "deadletter", "idle", "release"} : Goto(t, point)
  BY DEF FlushBegins, FlushBeginsUnlocked, SkipTable, InsertRejected, FlushEnds,
         FlushEndsFails, FlushReturns, NextTable
<1>3. (\A u \in Threads \ {t} : pc'[u] = pc[u]) /\ pc'[t] # "pipe"
  BY <1>0, <1>2 DEF TypeOK, LocalTypes, Goto
<1>4. \A u \in Threads : Load(u)' = Load(u)
  BY <1>1, <1>3 DEF Load
<1>5. QED  BY <1>1, <1>4, StillCopies

LEMMA CrashCopies ==
  ASSUME CopyInv, TypeOK', NEW p \in Procs, Crash(p)
  PROVE  CopyInv'
<1>1. /\ redis' = redis /\ stored' = stored /\ dlq' = dlq /\ accepted' = accepted /\ mayDup' = mayDup
  BY DEF Crash, sinks
<1>2. \A q \in Procs, tab \in Tables : mem'[q][tab] = mem[q][tab] \/ mem'[q][tab] = <<>>
  BY DEF Crash, CopyInv, TypeOK, BufferTypes
<1>3. \A t \in Threads :
        \/ hand'[t] = hand[t] /\ pc'[t] = pc[t] /\ item'[t] = item[t]
        \/ hand'[t] = <<>> /\ pc'[t] = "idle" /\ item'[t] = NoEvent
  BY DEF Crash
<1>4. \A t \in Threads : Load(t)' = Load(t) \/ Load(t)' = <<>>
  BY <1>3 DEF Load
<1>5. ASSUME NEW c \in Cells PROVE Rows(c)' = Rows(c) \/ Rows(c)' = <<>>
  <2>1. CASE c \in {"redis", "stored", "dlq"} \X Tables \X {"all"}
    BY <1>1, <2>1 DEF Rows
  <2>2. CASE c \in {"mem"} \X Procs \X Tables
    BY <1>2, <2>2 DEF Rows
  <2>3. CASE c \in {"hand", "load"} \X Threads \X {"all"}
    BY <1>3, <1>4, <2>3 DEF Rows
  <2>4. QED  BY <1>5, <2>1, <2>2, <2>3 DEF Cells
<1>6. \A t \in Threads : item'[t] \in {item[t], NoEvent}
  BY <1>3
<1>7. QED  BY <1>1, <1>5, <1>6, CopyShrinks

LEMMA CopyInit == Init => CopyInv
<1> SUFFICES ASSUME Init PROVE CopyInv
  OBVIOUS
<1>1. TypeOK
  BY InitTyped
<1>2. \A c \in Cells : Rows(c) = <<>>
  BY PipelineAssumption DEF Init, Rows, Cells, Load
<1>3. \A e : Once(<<>>, e) /\ e \notin ToSet(<<>>)
  BY OnceShort, ToSetEmpty
<1>4. \A t \in Threads : item[t] = NoEvent
  BY DEF Init
<1>5. QED  BY <1>1, <1>2, <1>3, <1>4 DEF CopyInv, Nowhere, Single

LEMMA CopyNext == CopyInv /\ [Next]_vars => CopyInv'
<1> SUFFICES ASSUME CopyInv, [Next]_vars PROVE CopyInv'
  OBVIOUS
<1>1. TypeOK'
  BY NextTyped DEF CopyInv
<1>2. ASSUME NEW t \in Pushers, Push(t) PROVE CopyInv'
  BY <1>1, <1>2, PushToMemoryCopies, PushDrainCopies, PushPipelineCopies,
     PushPipelineFailsCopies, PushTrimCopies, PushTrimFailsCopies DEF Push
<1>3. ASSUME NEW t \in Flushers, FlushBegins(t) \/ FlushStep(t) \/ FlushFailure(t)
      PROVE  CopyInv'
  BY <1>1, <1>3, IdlingCopies, PopMemoryCopies, RedisCopies, PopBatchCopies, InsertCopies,
     RequeueToMemoryCopies, DeadLetterCopies DEF FlushStep, FlushFailure
<1>4. ASSUME NEW p \in Procs, Crash(p) PROVE CopyInv'
  BY <1>1, <1>4, CrashCopies
<1>5. ASSUME (\E p \in Procs : RedisRetried(p)) \/ LockExpires \/ CircuitExpires \/ UNCHANGED vars
      PROVE  CopyInv'
  <2>1. UNCHANGED <<redis, mem, sinks, pc, item, hand, accepted, mayDup>>
    BY <1>5 DEF RedisRetried, LockExpires, CircuitExpires, vars, buffers, local, ghosts
  <2>2. QED  BY <1>1, <2>1, StillCopies DEF Load
<1>6. QED  BY <1>2, <1>3, <1>4, <1>5 DEF Next

\* Every place of an event is a position in one of the lists.
PlaceAt(c, i) ==
  IF c[1] = "mem" THEN <<"mem", c[2], <<"list", c[3], i>>>>
  ELSE IF c[1] = "load" THEN <<"item", c[2]>>
  ELSE <<c[1], c[2], i>>

LEMMA PlaceInCell ==
  ASSUME TypeOK, NEW e, NEW x \in Places(e)
  PROVE  \E c \in Cells : \E i \in DOMAIN Rows(c) : Rows(c)[i] = e /\ x = PlaceAt(c, i)
<1>0. /\ DOMAIN redis = Tables /\ DOMAIN stored = Tables /\ DOMAIN dlq = Tables
      /\ DOMAIN hand = Threads /\ \A p \in Procs : DOMAIN mem[p] = Tables
  BY DEF TypeOK, BufferTypes, LocalTypes
<1>1. ASSUME x \in PlacesIn("redis", redis, e) \cup PlacesIn("stored", stored, e) \cup PlacesIn("dlq", dlq, e)
      PROVE  \E c \in Cells : \E i \in DOMAIN Rows(c) : Rows(c)[i] = e /\ x = PlaceAt(c, i)
  <2>1. PICK tab \in Tables :
          \/ \E i \in DOMAIN redis[tab] : redis[tab][i] = e /\ x = <<"redis", tab, i>>
          \/ \E i \in DOMAIN stored[tab] : stored[tab][i] = e /\ x = <<"stored", tab, i>>
          \/ \E i \in DOMAIN dlq[tab] : dlq[tab][i] = e /\ x = <<"dlq", tab, i>>
    BY <1>0, <1>1 DEF PlacesIn
  <2>2. /\ <<"redis", tab, "all">> \in Cells /\ Rows(<<"redis", tab, "all">>) = redis[tab]
        /\ <<"stored", tab, "all">> \in Cells /\ Rows(<<"stored", tab, "all">>) = stored[tab]
        /\ <<"dlq", tab, "all">> \in Cells /\ Rows(<<"dlq", tab, "all">>) = dlq[tab]
    BY DEF Cells, Rows
  <2>3. \A i : /\ PlaceAt(<<"redis", tab, "all">>, i) = <<"redis", tab, i>>
               /\ PlaceAt(<<"stored", tab, "all">>, i) = <<"stored", tab, i>>
               /\ PlaceAt(<<"dlq", tab, "all">>, i) = <<"dlq", tab, i>>
    BY DEF PlaceAt
  <2>4. QED  BY <2>1, <2>2, <2>3
<1>2. ASSUME x \in PlacesInMemory(e)
      PROVE  \E c \in Cells : \E i \in DOMAIN Rows(c) : Rows(c)[i] = e /\ x = PlaceAt(c, i)
  <2>1. PICK p \in Procs : \E y \in PlacesIn("list", mem[p], e) : x = <<"mem", p, y>>
    BY <1>2 DEF PlacesInMemory
  <2>2. PICK tab \in Tables : \E i \in DOMAIN mem[p][tab] : mem[p][tab][i] = e /\ x = <<"mem", p, <<"list", tab, i>>>>
    BY <1>0, <2>1 DEF PlacesIn
  <2>3. <<"mem", p, tab>> \in Cells /\ Rows(<<"mem", p, tab>>) = mem[p][tab]
    BY DEF Cells, Rows
  <2>4. \A i : PlaceAt(<<"mem", p, tab>>, i) = <<"mem", p, <<"list", tab, i>>>>
    BY DEF PlaceAt
  <2>5. QED  BY <2>2, <2>3, <2>4
<1>3. ASSUME x \in PlacesIn("hand", hand, e)
      PROVE  \E c \in Cells : \E i \in DOMAIN Rows(c) : Rows(c)[i] = e /\ x = PlaceAt(c, i)
  <2>1. PICK t \in Threads : \E i \in DOMAIN hand[t] : hand[t][i] = e /\ x = <<"hand", t, i>>
    BY <1>0, <1>3 DEF PlacesIn
  <2>2. <<"hand", t, "all">> \in Cells /\ Rows(<<"hand", t, "all">>) = hand[t]
    BY DEF Cells, Rows
  <2>3. \A i : PlaceAt(<<"hand", t, "all">>, i) = <<"hand", t, i>>
    BY DEF PlaceAt
  <2>4. QED  BY <2>1, <2>2, <2>3
<1>4. ASSUME x \in PlacesAsPayload(e)
      PROVE  \E c \in Cells : \E i \in DOMAIN Rows(c) : Rows(c)[i] = e /\ x = PlaceAt(c, i)
  <2>1. PICK t \in Threads : e \in Carried(t) /\ x = <<"item", t>>
    BY <1>4 DEF PlacesAsPayload
  <2>2. Load(t) = <<e>>
    BY <2>1 DEF Carried, Load
  <2>3. <<"load", t, "all">> \in Cells /\ Rows(<<"load", t, "all">>) = <<e>>
    BY <2>2 DEF Cells, Rows
  <2>4. PlaceAt(<<"load", t, "all">>, 1) = x
    BY <2>1 DEF PlaceAt
  <2>5. 1 \in DOMAIN <<e>> /\ <<e>>[1] = e
    OBVIOUS
  <2>6. QED  BY <2>3, <2>4, <2>5
<1>5. QED  BY <1>1, <1>2, <1>3, <1>4 DEF Places

LEMMA SingleHasOnePlace ==
  ASSUME TypeOK, NEW e, Single(e)
  PROVE  Cardinality(Places(e)) <= 1
<1>1. ASSUME NEW x \in Places(e), NEW y \in Places(e) PROVE x = y
  <2>1. PICK c \in Cells : \E i \in DOMAIN Rows(c) : Rows(c)[i] = e /\ x = PlaceAt(c, i)
    BY PlaceInCell
  <2>2. PICK d \in Cells : \E i \in DOMAIN Rows(d) : Rows(d)[i] = e /\ y = PlaceAt(d, i)
    BY PlaceInCell
  <2>3. PICK i \in DOMAIN Rows(c) : Rows(c)[i] = e /\ x = PlaceAt(c, i)
    BY <2>1
  <2>4. PICK j \in DOMAIN Rows(d) : Rows(d)[j] = e /\ y = PlaceAt(d, j)
    BY <2>2
  <2>5. c = d
    BY <2>3, <2>4 DEF Single, ToSet
  <2>6. i = j
    BY <2>3, <2>4, <2>5 DEF Single, Once
  <2>7. QED  BY <2>3, <2>4, <2>5, <2>6
<1>2. CASE Places(e) = {}
  <2>1. Cardinality(Places(e)) = 0
    BY <1>2, FS_EmptySet
  <2>2. QED  BY <2>1
<1>3. CASE Places(e) # {}
  <2>1. PICK x : x \in Places(e)
    BY <1>3
  <2>2. Places(e) = {x}
    BY <1>1, <2>1
  <2>3. Cardinality({x}) = 1
    BY FS_Singleton
  <2>4. QED  BY <2>2, <2>3
<1>4. QED  BY <1>2, <1>3

\* Whatever pushes, flushes, expired locks and crashes do to each other, an
\* event is in one place at most, but for an insert that failed after
\* ClickHouse stored the rows and a push that failed after Redis took the
\* payload (push_event_to_buffer, flush_table_buffer, _requeue_unwritten_rows).
THEOREM NothingTwice == Spec => []NoDuplicate
<1>1. CopyInv => NoDuplicate
  BY SingleHasOnePlace DEF CopyInv, NoDuplicate
<1>2. QED  BY CopyInit, CopyNext, <1>1, PTL DEF Spec

-----------------------------------------------------------------------------
(* The abstract pipeline is implemented: a step of it *)

\* Nothing comes under way that was not, but for what the step accepts.
Flows == \A e \in Events : UnderWay(e)' => UnderWay(e) \/ e \in accepted' \ accepted

\* The sinks take only from what is under way, and ClickHouse forgets nothing.
SinksTake ==
  \A e \in Events :
    /\ In(stored, e) => In(stored', e)
    /\ In(stored', e) => In(stored, e) \/ UnderWay(e)
    /\ In(dlq', e) => In(dlq, e) \/ UnderWay(e)

Accepts ==
  /\ accepted \subseteq accepted' /\ mayLose \subseteq mayLose'
  /\ \A e \in accepted' \ accepted : UnderWay(e)'

LEMMA UnacceptedNowhere ==
  ASSUME CopyInv, NEW e \in Events \ accepted
  PROVE  ~UnderWay(e) /\ ~In(stored, e)
<1>1. Nowhere(e) /\ e # NoEvent
  BY PipelineAssumption DEF CopyInv
<1>2. \A tab \in Tables : e \notin ToSet(redis[tab]) /\ e \notin ToSet(stored[tab])
  <2> SUFFICES ASSUME NEW tab \in Tables
               PROVE  e \notin ToSet(redis[tab]) /\ e \notin ToSet(stored[tab])
    OBVIOUS
  <2>1. <<"redis", tab, "all">> \in Cells /\ <<"stored", tab, "all">> \in Cells
    BY DEF Cells
  <2>2. Rows(<<"redis", tab, "all">>) = redis[tab] /\ Rows(<<"stored", tab, "all">>) = stored[tab]
    BY DEF Rows
  <2>3. QED  BY <1>1, <2>1, <2>2 DEF Nowhere
<1>3. \A p \in Procs, tab \in Tables : e \notin ToSet(mem[p][tab])
  <2> SUFFICES ASSUME NEW p \in Procs, NEW tab \in Tables PROVE e \notin ToSet(mem[p][tab])
    OBVIOUS
  <2>1. <<"mem", p, tab>> \in Cells /\ Rows(<<"mem", p, tab>>) = mem[p][tab]
    BY DEF Cells, Rows
  <2>2. QED  BY <1>1, <2>1 DEF Nowhere
<1>4. \A t \in Threads : e \notin ToSet(hand[t]) /\ e # item[t]
  <2> SUFFICES ASSUME NEW t \in Threads PROVE e \notin ToSet(hand[t]) /\ e # item[t]
    OBVIOUS
  <2>1. <<"hand", t, "all">> \in Cells /\ Rows(<<"hand", t, "all">>) = hand[t]
    BY DEF Cells, Rows
  <2>2. e \notin ToSet(hand[t])
    BY <1>1, <2>1 DEF Nowhere
  <2>3. QED  BY <1>1, <2>2 DEF CopyInv
<1>5. QED  BY <1>2, <1>3, <1>4 DEF UnderWay, In

LEMMA StepSimulated ==
  ASSUME CopyInv, Kept', Flows, SinksTake, Accepts
  PROVE  Delivery!Next
<1>1. ASSUME NEW e \in Events
      PROVE  Delivery!Accept(e) \/ Delivery!Deliver(e) \/ Delivery!Bury(e) \/ Delivery!Lose(e)
               \/ Delivery!Stay(e)
  <2>1. /\ e \in accepted => e \in accepted'
        /\ UnderWay(e)' => UnderWay(e) \/ e \notin accepted
        /\ e \in accepted' /\ e \notin accepted => UnderWay(e)'
    BY DEF Flows, Accepts
  <2>2. /\ In(stored, e) => In(stored', e)
        /\ In(stored', e) => In(stored, e) \/ UnderWay(e)
        /\ In(dlq', e) => In(dlq, e) \/ UnderWay(e)
    BY DEF SinksTake
  <2>3. e \notin accepted => ~UnderWay(e) /\ ~In(stored, e)
    BY UnacceptedNowhere
  <2>4. e \in accepted' => UnderWay(e)' \/ In(stored', e) \/ In(dlq', e) \/ e \in mayLose'
    <3>1. Lies(e)' => UnderWay(e)' \/ In(stored', e) \/ In(dlq', e)
      BY DEF Lies, UnderWay, In, Carried
    <3>2. QED  BY <3>1 DEF Kept
  <2>5. /\ StatusOf(e) =
             IF e \notin accepted THEN "new" ELSE IF In(stored, e) THEN "stored"
             ELSE IF UnderWay(e) THEN "pending" ELSE IF In(dlq, e) THEN "dead" ELSE "lost"
        /\ StatusOf(e)' =
             IF e \notin accepted' THEN "new" ELSE IF In(stored', e) THEN "stored"
             ELSE IF UnderWay(e)' THEN "pending" ELSE IF In(dlq', e) THEN "dead" ELSE "lost"
    BY DEF StatusOf, In
  <2>6. QED  BY <2>1, <2>2, <2>3, <2>4, <2>5
             DEF Delivery!Accept, Delivery!Deliver, Delivery!Bury, Delivery!Lose, Delivery!Stay,
                 Delivery!Becomes
<1>2. [e \in Events |-> StatusOf(e)]' \in [Events -> Delivery!Statuses]
  BY DEF StatusOf, Delivery!Statuses
<1>3. QED  BY <1>1, <1>2 DEF Delivery!Next, Accepts

\* A step of a thread t on table tab changes one list of each kind.
Around(t, tab) ==
  ToSet(redis[tab]) \cup ToSet(mem[ProcOf[t]][tab]) \cup ToSet(hand[t]) \cup {item[t]}

\* The lists r and m and the hands h, i of the thread come from what was around it.
Rearranges(t, tab, r, m, h, i) ==
  /\ \A u \in Tables : redis'[u] = IF u = tab THEN r ELSE redis[u]
  /\ \A q \in Procs, u \in Tables : mem'[q][u] = IF q = ProcOf[t] /\ u = tab THEN m ELSE mem[q][u]
  /\ \A u \in Threads : /\ hand'[u] = IF u = t THEN h ELSE hand[u]
                        /\ item'[u] = IF u = t THEN i ELSE item[u]
  /\ ToSet(r) \cup ToSet(m) \cup ToSet(h) \cup {i}
       \subseteq Around(t, tab) \cup {NoEvent} \cup (accepted' \ accepted)

LEMMA RearrangesFlows ==
  ASSUME NEW t \in Threads, NEW tab \in Tables, NEW r, NEW m, NEW h, NEW i,
         Rearranges(t, tab, r, m, h, i)
  PROVE  Flows
<1> SUFFICES ASSUME NEW e \in Events, UnderWay(e)'
             PROVE  UnderWay(e) \/ e \in accepted' \ accepted
  BY DEF Flows
<1>1. e # NoEvent /\ ProcOf[t] \in Procs
  BY PipelineAssumption
<1>2. e \in Around(t, tab) => UnderWay(e)
  BY <1>1 DEF Around, UnderWay, In
<1>3. e \in ToSet(r) \cup ToSet(m) \cup ToSet(h) \cup {i} => UnderWay(e) \/ e \in accepted' \ accepted
  BY <1>1, <1>2 DEF Rearranges
<1>4. CASE \E u \in Tables : e \in ToSet(redis'[u])
  BY <1>3, <1>4 DEF Rearranges, UnderWay, In
<1>5. CASE \E q \in Procs, u \in Tables : e \in ToSet(mem'[q][u])
  BY <1>3, <1>5 DEF Rearranges, UnderWay, In
<1>6. CASE \E u \in Threads : e \in ToSet(hand'[u]) \/ e = item'[u]
  BY <1>3, <1>6 DEF Rearranges, UnderWay, In
<1>7. QED  BY <1>4, <1>5, <1>6 DEF UnderWay, In

\* What a list becomes, and what else it may take.
LEMMA RedisList ==
  ASSUME TypeOK, NEW t \in Threads, NEW tab \in Tables, NEW h \in Seq(Events),
         \/ redis' = redis
         \/ redis' = [redis EXCEPT ![tab] = redis[tab] \o h]
         \/ redis' = [redis EXCEPT ![tab] = h \o redis[tab]]
         \/ redis' = [redis EXCEPT ![tab] = Rest(redis[tab], BatchSize)]
         \/ redis' = [redis EXCEPT ![tab] = KeepLast(redis[tab], MaxSize)]
  PROVE  \E r : /\ \A u \in Tables : redis'[u] = IF u = tab THEN r ELSE redis[u]
                /\ ToSet(r) \subseteq ToSet(redis[tab]) \cup ToSet(h)
<1>0. redis \in [Tables -> Seq(Events)]
  BY DEF TypeOK, BufferTypes
<1>1. PICK s \in Seq(Events), n \in Nat \ {0}, b \in Nat \ {0} :
        s = redis[tab] /\ n = MaxSize /\ b = BatchSize
  BY ListTypes
<1>2. /\ ToSet(s \o h) = ToSet(s) \cup ToSet(h) /\ ToSet(h \o s) = ToSet(s) \cup ToSet(h)
      /\ ToSet(Rest(s, b)) \subseteq ToSet(s)
  BY FlowSets
<1>3. ToSet(KeepLast(s, n)) \subseteq ToSet(s)
  BY KeepLastSplits
<1>4. PICK r : /\ r \in {s, s \o h, h \o s, Rest(s, b), KeepLast(s, n)}
               /\ \A u \in Tables : redis'[u] = IF u = tab THEN r ELSE redis[u]
  BY <1>0, <1>1
<1>5. QED  BY <1>1, <1>2, <1>3, <1>4

\* The list of table tab in memory p, and no other, becomes m.
MemoryTurns(p, tab, m) ==
  \A q \in Procs, u \in Tables : mem'[q][u] = IF q = p /\ u = tab THEN m ELSE mem[q][u]

MemoryBecomes(p, tab, h, x) ==
  \/ mem' = mem
  \/ mem' = [mem EXCEPT ![p][tab] = <<>>]
  \/ mem' = [mem EXCEPT ![p][tab] = h \o mem[p][tab]]
  \/ mem' = [mem EXCEPT ![p][tab] = Rest(mem[p][tab], BatchSize)]
  \/ x \in Events /\ mem' = [mem EXCEPT ![p][tab] = KeepLast(Append(mem[p][tab], x), MaxSize)]

LEMMA MemoryList ==
  ASSUME TypeOK, NEW p \in Procs, NEW tab \in Tables, NEW h \in Seq(Events), NEW x,
         MemoryBecomes(p, tab, h, x)
  PROVE  \E m : MemoryTurns(p, tab, m) /\ ToSet(m) \subseteq ToSet(mem[p][tab]) \cup ToSet(h) \cup {x}
<1>0. mem \in [Procs -> [Tables -> Seq(Events)]]
  BY DEF TypeOK, BufferTypes
<1>1. PICK s \in Seq(Events), n \in Nat \ {0}, b \in Nat \ {0} :
        s = mem[p][tab] /\ n = MaxSize /\ b = BatchSize
  BY <1>0, PipelineAssumption
<1>2. /\ ToSet(h \o s) = ToSet(s) \cup ToSet(h) /\ ToSet(<<>>) = {}
      /\ ToSet(Rest(s, b)) \subseteq ToSet(s)
  BY FlowSets
<1>3. x \in Events => ToSet(KeepLast(Append(s, x), n)) \subseteq ToSet(s) \cup {x}
  <2> SUFFICES ASSUME x \in Events PROVE ToSet(KeepLast(Append(s, x), n)) \subseteq ToSet(s) \cup {x}
    OBVIOUS
  <2>0. Append(s, x) \in Seq(Events) /\ ToSet(Append(s, x)) = ToSet(s) \cup {x}
    BY ToSetAppend
  <2>1. PICK l \in Seq(Events) : l = Append(s, x) /\ ToSet(l) = ToSet(s) \cup {x}
    BY <2>0
  <2>2. ToSet(l) = CutOff(l, n) \cup ToSet(KeepLast(l, n))
    BY KeepLastSplits
  <2>3. QED  BY <2>1, <2>2
<1>4. PICK m : /\ \/ m \in {s, <<>>, h \o s, Rest(s, b)}
                  \/ x \in Events /\ m = KeepLast(Append(s, x), n)
               /\ \/ mem' = mem /\ m = s
                  \/ mem' = [mem EXCEPT ![p][tab] = m]
  BY <1>1 DEF MemoryBecomes
<1>5. MemoryTurns(p, tab, m)
  <2>1. CASE mem' = mem /\ m = s
    BY <1>1, <2>1 DEF MemoryTurns
  <2>2. CASE mem' = [mem EXCEPT ![p][tab] = m]
    BY <1>0, <2>2 DEF MemoryTurns
  <2>3. QED  BY <1>4, <2>1, <2>2
<1>6. QED  BY <1>1, <1>2, <1>3, <1>4, <1>5

-----------------------------------------------------------------------------
(* The abstract pipeline is implemented: the steps *)

\* A flusher moves rows between its hands and the lists of its table.
LEMMA FlushRearranges ==
  ASSUME TypeOK, NEW t \in Flushers, FlushBegins(t) \/ FlushStep(t) \/ FlushFailure(t)
  PROVE  Flows /\ accepted' = accepted
<1>0. t \in Threads /\ hand \in [Threads -> Seq(Events)]
  BY DEF Threads, TypeOK, LocalTypes
<1>1. PICK tab \in Tables : tab = Table(t)
  BY <1>0, ThreadFacts
<1>2. PICK p \in Procs, m \in Seq(Events), s \in Seq(Events), h \in Seq(Events), b \in Nat \ {0} :
        p = ProcOf[t] /\ m = mem[p][tab] /\ s = redis[tab] /\ h = hand[t] /\ b = BatchSize
  BY <1>0, ListTypes
<1>3. item' = item /\ accepted' = accepted
  BY DEF FlushBegins, FlushStep, FlushFailure, SkipTable, PopMemory, PopDrain, PopResidual,
         PopBatch, InsertSucceeds, Requeue, RequeueToMemory, DeadLetter, DeadLetterDropped,
         FlushEnds, FlushBeginsUnlocked, PopResidualFails, PopBatchFails, InsertFails,
         InsertRejected, RequeueFails, DeadLetterFails, FlushEndsFails, ghosts, marks
<1>4. \/ redis' = redis
      \/ redis' = [redis EXCEPT ![tab] = redis[tab] \o h]
      \/ redis' = [redis EXCEPT ![tab] = h \o redis[tab]]
      \/ redis' = [redis EXCEPT ![tab] = Rest(redis[tab], BatchSize)]
  BY <1>1, <1>2 DEF FlushBegins, FlushStep, FlushFailure, SkipTable, PopMemory, PopDrain,
         PopResidual, PopBatch, InsertSucceeds, Requeue, RequeueToMemory, DeadLetter,
         DeadLetterDropped, FlushEnds, FlushBeginsUnlocked, PopResidualFails, PopBatchFails,
         InsertFails, InsertRejected, RequeueFails, DeadLetterFails, FlushEndsFails, buffers, PutBack
<1>5. \/ mem' = mem
      \/ mem' = [mem EXCEPT ![p][tab] = <<>>]
      \/ mem' = [mem EXCEPT ![p][tab] = h \o mem[p][tab]]
      \/ mem' = [mem EXCEPT ![p][tab] = Rest(mem[p][tab], BatchSize)]
  BY <1>1, <1>2 DEF FlushBegins, FlushStep, FlushFailure, SkipTable, PopMemory, PopDrain,
         PopResidual, PopBatch, InsertSucceeds, Requeue, RequeueToMemory, DeadLetter,
         DeadLetterDropped, FlushEnds, FlushBeginsUnlocked, PopResidualFails, PopBatchFails,
         InsertFails, InsertRejected, RequeueFails, DeadLetterFails, FlushEndsFails, buffers, PutBack
<1>6. PICK g : /\ g \in {h, <<>>, m, Taken(m, b), Taken(s, b)}
               /\ \/ hand' = hand /\ g = h
                  \/ Holds(t, g)
  BY <1>1, <1>2 DEF FlushBegins, FlushStep, FlushFailure, SkipTable, PopMemory, PopDrain,
         PopResidual, PopBatch, InsertSucceeds, Requeue, RequeueToMemory, DeadLetter,
         DeadLetterDropped, FlushEnds, FlushBeginsUnlocked, PopResidualFails, PopBatchFails,
         InsertFails, InsertRejected, RequeueFails, DeadLetterFails, FlushEndsFails, Holds
<1>7. PICK r : /\ \A u \in Tables : redis'[u] = IF u = tab THEN r ELSE redis[u]
               /\ ToSet(r) \subseteq ToSet(redis[tab]) \cup ToSet(h)
  BY <1>0, <1>4, RedisList
<1>8. PICK l : /\ MemoryTurns(p, tab, l)
               /\ ToSet(l) \subseteq ToSet(mem[p][tab]) \cup ToSet(h) \cup {NoEvent}
  <2>1. MemoryBecomes(p, tab, h, NoEvent)
    BY <1>5 DEF MemoryBecomes
  <2>2. QED  BY <2>1, MemoryList
<1>9. ToSet(g) \subseteq ToSet(m) \cup ToSet(s) \cup ToSet(h)
  BY <1>2, <1>6, FlowSets
<1>10. \A u \in Threads : hand'[u] = (IF u = t THEN g ELSE hand[u]) /\ item'[u] = IF u = t THEN item[t] ELSE item[u]
  BY <1>0, <1>2, <1>3, <1>6 DEF Holds
<1>11. Rearranges(t, tab, r, l, g, item[t])
  BY <1>2, <1>7, <1>8, <1>9, <1>10 DEF Rearranges, Around, MemoryTurns
<1>12. QED  BY <1>0, <1>3, <1>11, RearrangesFlows

\* The newest element survives the cut.
LEMMA NewestKept ==
  ASSUME NEW S, NEW s \in Seq(S), NEW x \in S, NEW n \in Nat \ {0}
  PROVE  x \in ToSet(KeepLast(Append(s, x), n))
<1>0. Append(s, x) \in Seq(S) /\ Len(Append(s, x)) = Len(s) + 1 /\ Append(s, x)[Len(s) + 1] = x
  OBVIOUS
<1>1. PICK l \in Seq(S) : l = Append(s, x) /\ Len(l) = Len(s) + 1 /\ l[Len(s) + 1] = x
  BY <1>0
<1>2. CASE Len(l) > n
  <2>1. /\ SubSeq(l, Len(l) - n + 1, Len(l)) \in Seq(S)
        /\ Len(SubSeq(l, Len(l) - n + 1, Len(l))) = n
        /\ SubSeq(l, Len(l) - n + 1, Len(l))[n] = l[Len(l)]
    BY <1>1, <1>2
  <2>2. PICK k \in Seq(S) : k = SubSeq(l, Len(l) - n + 1, Len(l)) /\ Len(k) = n /\ k[n] = l[Len(l)]
    BY <2>1
  <2>3. n \in DOMAIN k /\ k[n] = x
    BY <1>1, <2>2
  <2>4. k = KeepLast(l, n)
    BY <1>2, <2>2 DEF KeepLast
  <2>5. QED  BY <1>1, <2>3, <2>4 DEF ToSet
<1>3. CASE ~(Len(l) > n)
  <2>1. Len(s) + 1 \in DOMAIN l
    BY <1>1
  <2>2. QED  BY <1>1, <1>3, <2>1 DEF KeepLast, ToSet
<1>4. QED  BY <1>2, <1>3

\* A push without a client puts the event it accepts into memory.
LEMMA PushToMemoryFlows ==
  ASSUME TypeOK, NEW t \in Pushers, NEW e \in Events, PushToMemory(t, e)
  PROVE  Flows /\ Accepts
<1>0. t \in Threads /\ TableOf[e] \in Tables /\ <<>> \in Seq(Events) /\ ProcOf[t] \in Procs
  BY PipelineAssumption DEF Threads
<1>1. PICK tab \in Tables, p \in Procs : tab = TableOf[e] /\ p = ProcOf[t]
  BY <1>0
<1>2. /\ redis' = redis /\ hand' = hand /\ item' = item
      /\ accepted' = accepted \cup {e} /\ e \notin accepted /\ mayLose \subseteq mayLose'
      /\ mem' = [mem EXCEPT ![p][tab] = KeepLast(Append(mem[p][tab], e), MaxSize)]
  BY <1>1 DEF PushToMemory, AppendToMemory, local
<1>3. PICK m : MemoryTurns(p, tab, m) /\ ToSet(m) \subseteq ToSet(mem[p][tab]) \cup ToSet(<<>>) \cup {e}
  <2>1. <<>> \in Seq(Events)
    OBVIOUS
  <2>2. PICK z \in Seq(Events) : z = <<>>
    BY <2>1
  <2>3. MemoryBecomes(p, tab, z, e)
    BY <1>2 DEF MemoryBecomes
  <2>4. \E m : MemoryTurns(p, tab, m) /\ ToSet(m) \subseteq ToSet(mem[p][tab]) \cup ToSet(z) \cup {e}
    BY <2>3, MemoryList
  <2>5. QED  BY <2>2, <2>4
<1>4. Rearranges(t, tab, redis[tab], m, hand[t], item[t])
  BY <1>1, <1>2, <1>3, ToSetEmpty DEF Rearranges, Around, MemoryTurns
<1>5. UnderWay(e)'
  <2>1. mem \in [Procs -> [Tables -> Seq(Events)]]
    BY DEF TypeOK, BufferTypes
  <2>2. mem'[p][tab] = KeepLast(Append(mem[p][tab], e), MaxSize)
    BY <1>2, <2>1
  <2>3. PICK s \in Seq(Events), n \in Nat \ {0} : s = mem[p][tab] /\ n = MaxSize
    BY <2>1, PipelineAssumption
  <2>4. e \in ToSet(KeepLast(Append(s, e), n))
    BY NewestKept
  <2>5. QED  BY <2>2, <2>3, <2>4 DEF UnderWay, In
<1>6. QED  BY <1>0, <1>2, <1>4, <1>5, RearrangesFlows DEF Accepts

\* With a client the thread takes the event and what the memory held.
LEMMA PushDrainFlows ==
  ASSUME TypeOK, NEW t \in Pushers, NEW e \in Events, PushDrain(t, e)
  PROVE  Flows /\ Accepts
<1>0. t \in Threads /\ TableOf[e] \in Tables /\ <<>> \in Seq(Events) /\ ProcOf[t] \in Procs
  BY PipelineAssumption DEF Threads
<1>1. PICK tab \in Tables, p \in Procs : tab = TableOf[e] /\ p = ProcOf[t]
  BY <1>0
<1>2. /\ redis' = redis
      /\ accepted' = accepted \cup {e} /\ e \notin accepted /\ mayLose' = mayLose
      /\ mem' = [mem EXCEPT ![p][tab] = <<>>]
      /\ hand' = [hand EXCEPT ![t] = mem[p][tab]] /\ item' = [item EXCEPT ![t] = e]
  BY <1>1 DEF PushDrain, Holds, Memory
<1>3. /\ mem \in [Procs -> [Tables -> Seq(Events)]]
      /\ hand \in [Threads -> Seq(Events)] /\ item \in [Threads -> Events \cup {NoEvent}]
  BY DEF TypeOK, BufferTypes, LocalTypes
<1>4. MemoryTurns(p, tab, <<>>)
  BY <1>2, <1>3 DEF MemoryTurns
<1>5. \A u \in Threads : /\ hand'[u] = IF u = t THEN mem[p][tab] ELSE hand[u]
                         /\ item'[u] = IF u = t THEN e ELSE item[u]
  BY <1>2, <1>3
<1>6. Rearranges(t, tab, redis[tab], <<>>, mem[p][tab], e)
  BY <1>1, <1>2, <1>4, <1>5, ToSetEmpty DEF Rearranges, Around, MemoryTurns
<1>7. UnderWay(e)'
  BY <1>0, <1>5 DEF UnderWay
<1>8. QED  BY <1>0, <1>2, <1>6, <1>7, RearrangesFlows DEF Accepts

\* The rest of a push leaves its payload in Redis or, having failed, in memory.
LEMMA PushedFlows ==
  ASSUME TypeOK, NEW t \in Pushers,
         PushPipeline(t) \/ PushPipelineFails(t) \/ PushTrim(t) \/ PushTrimFails(t)
  PROVE  Flows /\ accepted' = accepted
<1>0. t \in Threads /\ item[t] \in Events
  BY DEF TypeOK, LocalTypes, PushPipeline, PushPipelineFails, PushTrim, PushTrimFails, Threads
<1>1. PICK tab \in Tables : tab = ItemTable(t)
  BY <1>0, ThreadFacts
<1>2. PICK p \in Procs, h \in Seq(Events), x \in Events : p = ProcOf[t] /\ h = hand[t] /\ x = item[t]
  BY <1>0, ListTypes
<1>3. PICK k \in Seq(Events) : k = Append(h, x) /\ ToSet(k) = ToSet(h) \cup {x}
  <2>1. Append(h, x) \in Seq(Events)
    OBVIOUS
  <2>2. ToSet(Append(h, x)) = ToSet(h) \cup {x}
    BY ToSetAppend, SMTT(40)
  <2>3. QED  BY <2>1, <2>2
<1>4. accepted' = accepted
  BY DEF PushPipeline, PushPipelineFails, PushTrim, PushTrimFails, marks
<1>5. PICK rows \in {<<>>, h, k} :
        \/ redis' = redis
        \/ redis' = [redis EXCEPT ![tab] = redis[tab] \o rows]
        \/ redis' = [redis EXCEPT ![tab] = KeepLast(redis[tab], MaxSize)]
  BY <1>1, <1>2, <1>3 DEF PushPipeline, PushPipelineFails, PushTrim, PushTrimFails
<1>6. mem' = mem \/ mem' = [mem EXCEPT ![p][tab] = KeepLast(Append(mem[p][tab], x), MaxSize)]
  BY <1>1, <1>2 DEF PushPipeline, PushPipelineFails, PushTrim, PushTrimFails, FallBackToMemory,
                    AppendToMemory
<1>7. /\ hand' = [hand EXCEPT ![t] = <<>>]
      /\ item' = item \/ item' = [item EXCEPT ![t] = NoEvent]
  BY DEF PushPipeline, PushPipelineFails, PushTrim, PushTrimFails, FallBackToMemory, PushReturns, Holds
<1>8. PICK i \in {x, NoEvent} :
        \A u \in Threads : /\ hand'[u] = IF u = t THEN <<>> ELSE hand[u]
                           /\ item'[u] = IF u = t THEN i ELSE item[u]
  BY <1>0, <1>2, <1>7 DEF TypeOK, LocalTypes
<1>9. rows \in Seq(Events) /\ <<>> \in Seq(Events) /\ ToSet(rows) \subseteq ToSet(h) \cup {x}
  <2>0. <<>> \in Seq(Events)
    OBVIOUS
  <2>1. rows \in Seq(Events)
    BY <1>5, <2>0, Zenon
  <2>2. ToSet(rows) \subseteq ToSet(h) \cup {x}
    BY <1>3, <1>5, ToSetEmpty, Zenon
  <2>3. QED  BY <2>0, <2>1, <2>2
<1>10. PICK r : /\ \A u \in Tables : redis'[u] = IF u = tab THEN r ELSE redis[u]
                /\ ToSet(r) \subseteq ToSet(redis[tab]) \cup ToSet(rows)
  BY <1>0, <1>5, <1>9, RedisList
<1>11. PICK m : MemoryTurns(p, tab, m) /\ ToSet(m) \subseteq ToSet(mem[p][tab]) \cup ToSet(<<>>) \cup {x}
  <2>1. MemoryBecomes(p, tab, <<>>, x)
    BY <1>6 DEF MemoryBecomes
  <2>2. QED  BY <1>9, <2>1, MemoryList
<1>12. Rearranges(t, tab, r, m, <<>>, i)
  BY <1>2, <1>8, <1>9, <1>10, <1>11, ToSetEmpty DEF Rearranges, Around, MemoryTurns
<1>13. QED  BY <1>0, <1>4, <1>12, RearrangesFlows

-----------------------------------------------------------------------------
(* The abstract pipeline is implemented: the theorem *)

\* Only a flusher hands rows to a sink.
LEMMA FlushSinks ==
  ASSUME TypeOK, NEW t \in Flushers, FlushBegins(t) \/ FlushStep(t) \/ FlushFailure(t)
  PROVE  SinksTake /\ mayLose \subseteq mayLose'
<1>0. t \in Threads
  BY DEF Threads
<1>1. PICK tab \in Tables : tab = Table(t)
  BY <1>0, ThreadFacts
<1>2. PICK s \in Seq(Events), d \in Seq(Events), h \in Seq(Events), n \in Nat \ {0} :
        s = stored[tab] /\ d = dlq[tab] /\ h = hand[t] /\ n = DlqMax
  BY <1>0, ListTypes
<1>3. mayLose \subseteq mayLose'
  BY DEF FlushBegins, FlushStep, FlushFailure, SkipTable, PopMemory, PopDrain, PopResidual,
         PopBatch, InsertSucceeds, Requeue, RequeueToMemory, DeadLetter, DeadLetterDropped,
         FlushEnds, FlushBeginsUnlocked, PopResidualFails, PopBatchFails, InsertFails,
         InsertRejected, RequeueFails, DeadLetterFails, FlushEndsFails, ghosts
<1>4. PICK s1 \in {s, s \o h} :
        \/ stored' = stored /\ s1 = s
        \/ stored' = [stored EXCEPT ![tab] = s1]
  BY <1>1, <1>2
     DEF FlushBegins, FlushStep, FlushFailure, SkipTable, PopMemory, PopDrain, PopResidual,
         PopBatch, InsertSucceeds, Requeue, RequeueToMemory, DeadLetter, DeadLetterDropped,
         FlushEnds, FlushBeginsUnlocked, PopResidualFails, PopBatchFails, InsertFails,
         InsertRejected, RequeueFails, DeadLetterFails, FlushEndsFails, sinks
<1>5. PICK d1 \in {d, d \o h, KeepLast(d \o h, n)} :
        \/ dlq' = dlq /\ d1 = d
        \/ dlq' = [dlq EXCEPT ![tab] = d1]
  BY <1>1, <1>2
     DEF FlushBegins, FlushStep, FlushFailure, SkipTable, PopMemory, PopDrain, PopResidual,
         PopBatch, InsertSucceeds, Requeue, RequeueToMemory, DeadLetter, DeadLetterDropped,
         FlushEnds, FlushBeginsUnlocked, PopResidualFails, PopBatchFails, InsertFails,
         InsertRejected, RequeueFails, DeadLetterFails, FlushEndsFails, sinks, DeadLetters
<1>6. /\ \A u \in Tables : stored'[u] = IF u = tab THEN s1 ELSE stored[u]
      /\ \A u \in Tables : dlq'[u] = IF u = tab THEN d1 ELSE dlq[u]
  BY <1>2, <1>4, <1>5 DEF TypeOK, BufferTypes
<1>7. ToSet(s) \subseteq ToSet(s1) /\ ToSet(s1) \subseteq ToSet(s) \cup ToSet(h)
  <2>1. ToSet(s \o h) = ToSet(s) \cup ToSet(h)
    BY FlowSets
  <2>2. QED  BY <1>4, <2>1
<1>8. ToSet(d1) \subseteq ToSet(d) \cup ToSet(h)
  <2>1. ToSet(d \o h) = ToSet(d) \cup ToSet(h) /\ ToSet(KeepLast(d \o h, n)) \subseteq ToSet(d) \cup ToSet(h)
    BY FlowSets
  <2>2. QED  BY <1>5, <2>1
<1>9. \A e \in Events : e \in ToSet(h) => UnderWay(e)
  BY <1>0, <1>2 DEF UnderWay
<1>10. ASSUME NEW e \in Events
       PROVE  /\ In(stored, e) => In(stored', e)
              /\ In(stored', e) => In(stored, e) \/ UnderWay(e)
              /\ In(dlq', e) => In(dlq, e) \/ UnderWay(e)
  <2>1. In(stored, e) => In(stored', e)
    BY <1>2, <1>6, <1>7 DEF In
  <2>2. In(stored', e) => In(stored, e) \/ UnderWay(e)
    <3> SUFFICES ASSUME In(stored', e) PROVE In(stored, e) \/ UnderWay(e)
      OBVIOUS
    <3>1. PICK u \in Tables : e \in ToSet(stored'[u])
      BY DEF In
    <3>2. e \in ToSet(stored[u]) \/ e \in ToSet(h)
      BY <1>2, <1>6, <1>7, <3>1
    <3>3. QED  BY <1>9, <3>2 DEF In
  <2>3. In(dlq', e) => In(dlq, e) \/ UnderWay(e)
    <3> SUFFICES ASSUME In(dlq', e) PROVE In(dlq, e) \/ UnderWay(e)
      OBVIOUS
    <3>1. PICK u \in Tables : e \in ToSet(dlq'[u])
      BY DEF In
    <3>2. e \in ToSet(dlq[u]) \/ e \in ToSet(h)
      BY <1>2, <1>6, <1>8, <3>1
    <3>3. QED  BY <1>9, <3>2 DEF In
  <2>4. QED  BY <2>1, <2>2, <2>3
<1>11. QED  BY <1>3, <1>10 DEF SinksTake

\* Everybody else leaves the sinks alone.
LEMMA SinksStill == ASSUME stored' = stored, dlq' = dlq PROVE SinksTake
BY DEF SinksTake

\* A crash only empties the memory and the hands of a process.
LEMMA CrashFlows ==
  ASSUME TypeOK, NEW p \in Procs, Crash(p)
  PROVE  Flows /\ SinksTake /\ Accepts
<1>1. /\ redis' = redis /\ stored' = stored /\ dlq' = dlq /\ accepted' = accepted
      /\ mayLose \subseteq mayLose'
  BY DEF Crash, sinks
<1>2. \A q \in Procs, u \in Tables : mem'[q][u] = mem[q][u] \/ mem'[q][u] = <<>>
  BY DEF Crash, TypeOK, BufferTypes
<1>3. \A t \in Threads : /\ hand'[t] = hand[t] \/ hand'[t] = <<>>
                         /\ item'[t] = item[t] \/ item'[t] = NoEvent
  BY DEF Crash
<1>4. ASSUME NEW e \in Events, UnderWay(e)' PROVE UnderWay(e)
  <2>1. e # NoEvent /\ e \notin ToSet(<<>>)
    BY PipelineAssumption, ToSetEmpty
  <2>2. CASE \E u \in Tables : e \in ToSet(redis'[u])
    BY <1>1, <2>2 DEF UnderWay, In
  <2>3. CASE \E q \in Procs, u \in Tables : e \in ToSet(mem'[q][u])
    BY <1>2, <2>1, <2>3 DEF UnderWay, In
  <2>4. CASE \E u \in Threads : e \in ToSet(hand'[u]) \/ e = item'[u]
    BY <1>3, <2>1, <2>4 DEF UnderWay
  <2>5. QED  BY <1>4, <2>2, <2>3, <2>4 DEF UnderWay, In
<1>5. QED  BY <1>1, <1>4, SinksStill DEF Flows, Accepts

\* Every step of the pipeline is one of the abstract pipeline.
LEMMA DeliveryStep ==
  CopyInv /\ LossInv /\ CopyInv' /\ LossInv' /\ Next => Delivery!Next
<1> SUFFICES ASSUME CopyInv, LossInv, LossInv', Next PROVE Delivery!Next
  OBVIOUS
<1>0. TypeOK /\ Kept'
  BY DEF LossInv
<1>1. ASSUME NEW t \in Pushers, Push(t) PROVE Flows /\ SinksTake /\ Accepts
  <2>1. stored' = stored /\ dlq' = dlq
    BY <1>1 DEF Push, PushToMemory, PushDrain, PushPipeline, PushPipelineFails, PushTrim,
                PushTrimFails, sinks
  <2>2. ASSUME NEW e \in Events, PushToMemory(t, e) \/ PushDrain(t, e) PROVE Flows /\ Accepts
    BY <1>0, <2>2, PushToMemoryFlows, PushDrainFlows
  <2>3. ASSUME PushPipeline(t) \/ PushPipelineFails(t) \/ PushTrim(t) \/ PushTrimFails(t)
        PROVE  Flows /\ Accepts
    <3>1. Flows /\ accepted' = accepted
      BY <1>0, <2>3, PushedFlows
    <3>2. mayLose \subseteq mayLose'
      BY <2>3 DEF PushPipeline, PushPipelineFails, PushTrim, PushTrimFails
    <3>3. QED  BY <3>1, <3>2 DEF Accepts
  <2>4. QED  BY <1>1, <2>1, <2>2, <2>3, SinksStill DEF Push
<1>2. ASSUME NEW t \in Flushers, FlushBegins(t) \/ FlushStep(t) \/ FlushFailure(t)
      PROVE  Flows /\ SinksTake /\ Accepts
  <2>1. Flows /\ accepted' = accepted
    BY <1>0, <1>2, FlushRearranges
  <2>2. SinksTake /\ mayLose \subseteq mayLose'
    BY <1>0, <1>2, FlushSinks
  <2>3. QED  BY <2>1, <2>2 DEF Accepts
<1>3. ASSUME NEW p \in Procs, Crash(p) PROVE Flows /\ SinksTake /\ Accepts
  BY <1>0, <1>3, CrashFlows
<1>4. ASSUME (\E p \in Procs : RedisRetried(p)) \/ LockExpires \/ CircuitExpires
      PROVE  Flows /\ SinksTake /\ Accepts
  <2>1. /\ redis' = redis /\ mem' = mem /\ stored' = stored /\ dlq' = dlq /\ item' = item
        /\ hand' = hand /\ accepted' = accepted /\ mayLose' = mayLose
    BY <1>4 DEF RedisRetried, LockExpires, CircuitExpires, buffers, sinks, local, ghosts
  <2>2. Flows /\ Accepts
    BY <2>1 DEF Flows, Accepts, UnderWay, In
  <2>3. QED  BY <2>1, <2>2, SinksStill
<1>5. Flows /\ SinksTake /\ Accepts
  BY <1>1, <1>2, <1>3, <1>4 DEF Next
<1>6. QED  BY <1>0, <1>5, StepSimulated

\* Through the fallback to memory, the requeue, the dead-letter queue and every
\* fault, each event goes forward only: accepted it is pending, then stored or
\* dead; stored it is for good, also when a failed insert sends it again; and it
\* is lost only to a fault or an overflow that had it in hand
\* (push_event_to_buffer, flush_table_buffer, _requeue_unwritten_rows).
THEOREM PipelineDelivers == Spec => DeliveryRefined
<1>1. Init => Delivery!Init
  BY DEF Init, Delivery!Init, StatusOf
<1>2. UNCHANGED vars => UNCHANGED Delivery!vars
  <2> SUFFICES ASSUME UNCHANGED vars PROVE UNCHANGED Delivery!vars
    OBVIOUS
  <2>1. /\ redis' = redis /\ mem' = mem /\ stored' = stored /\ dlq' = dlq /\ item' = item
        /\ hand' = hand /\ accepted' = accepted /\ mayLose' = mayLose
    BY DEF vars, buffers, sinks, local, ghosts
  <2>2. \A e \in Events : StatusOf(e)' = StatusOf(e)
    BY <2>1 DEF StatusOf, UnderWay, In
  <2>3. QED  BY <2>1, <2>2 DEF Delivery!vars
<1>3. CopyInv /\ LossInv /\ CopyInv' /\ LossInv' /\ [Next]_vars => [Delivery!Next]_(Delivery!vars)
  BY <1>2, DeliveryStep
<1>4. QED
  BY CopyInit, CopyNext, LossInit, LossStep, <1>1, <1>3, PTL
     DEF Spec, DeliveryRefined, Delivery!Spec

-----------------------------------------------------------------------------
(* Order and size of the list in Redis, while Redis works *)

\* Memory is not used, and only a flusher has rows in hand: one batch, between its LPOP
\* and what becomes of it.
AtHand == {"insert", "requeue", "deadletter"}
Calm ==
  /\ \A p \in Procs : ~down[p] /\ \A tab \in Tables : mem[p][tab] = <<>>
  /\ \A t \in Threads :
       /\ pc[t] # "residual" /\ Len(hand[t]) <= BatchSize
       /\ hand[t] # <<>> => t \in Flushers /\ pc[t] \in AtHand

\* The threads about to trim, those about to trim one table, and the flushers that have
\* nothing of it in hand.
Trimmers      == {t \in Pushers : pc[t] = "trim"}
Trimming(tab) == {t \in Trimmers : ItemTable(t) = tab}
Free(tab)     == {t \in Flushers : ~(pc[t] \in AtHand /\ Table(t) = tab)}

\* BufferBounded, with the room that a batch in hand has left.
Sized ==
  /\ IsFiniteSet(Trimmers)
  /\ \A tab \in Tables :
       Len(redis[tab]) <= MaxSize + Cardinality(Trimming(tab)) + BatchSize * Cardinality(Free(tab))

\* An event is pushed once: until then it is one thread's payload.
PushedOnce ==
  /\ \A tab \in Tables : ToSet(entered[tab]) \subseteq accepted /\ IsInjective(entered[tab])
  /\ \A t \in Threads : pc[t] = "pipe" =>
       /\ item[t] \in accepted
       /\ \A tab \in Tables : item[t] \notin ToSet(entered[tab])
       /\ \A u \in Threads \ {t} : pc[u] = "pipe" => item[u] # item[t]

\* Rows come from the list, those in a flusher's hands from the one of its table.
Entered ==
  /\ \A tab \in Tables : ToSet(stored[tab]) \cup ToSet(redis[tab]) \subseteq ToSet(entered[tab])
  /\ \A t \in Flushers : ToSet(hand[t]) \subseteq ToSet(entered[Table(t)])

\* x has entered before y.
Precedes(s, x, y) == \A i, j \in DOMAIN s : s[i] = x /\ s[j] = y => i < j

\* The rows of a line that are no copies of others stand as they have entered.
InOrder(s, line, dup) ==
  \A i, j \in DOMAIN line :
    i < j /\ line[i] \notin dup /\ line[j] \notin dup => Precedes(s, line[i], line[j])

\* What is stored, what a flusher has in hand and what waits.
Line(tab, rows) == stored[tab] \o rows \o redis[tab]

Lines ==
  breaks = 0 =>
    \A tab \in Tables :
      /\ InOrder(entered[tab], Line(tab, <<>>), mayDup)
      /\ \A t \in Active :
           Table(t) = tab => InOrder(entered[tab], Line(tab, hand[t]), mayDup)

OrderInv == ~shaken => Calm /\ Sized /\ PushedOnce /\ Entered /\ Lines

-----------------------------------------------------------------------------
(* Lines in order *)

\* The rows of one line have all entered before those of another.
AllBefore(s, line, next, dup) ==
  \A x \in ToSet(line) \ dup, y \in ToSet(next) \ dup : Precedes(s, x, y)

LEMMA ConcatInOrder ==
  ASSUME NEW s, NEW dup, NEW l \in Seq(Events), NEW r \in Seq(Events)
  PROVE  InOrder(s, l \o r, dup) <=>
           InOrder(s, l, dup) /\ InOrder(s, r, dup) /\ AllBefore(s, l, r, dup)
<1>1. /\ Len(l \o r) = Len(l) + Len(r) /\ DOMAIN (l \o r) = 1..(Len(l) + Len(r))
      /\ DOMAIN l = 1..Len(l) /\ DOMAIN r = 1..Len(r) /\ Len(l) \in Nat /\ Len(r) \in Nat
      /\ \A i \in 1..Len(l) : (l \o r)[i] = l[i]
      /\ \A i \in 1..Len(r) : (l \o r)[Len(l) + i] = r[i]
      /\ \A i \in DOMAIN (l \o r) : i \in 1..Len(l) \/ (i - Len(l) \in 1..Len(r)
                                                         /\ i = Len(l) + (i - Len(l)))
  OBVIOUS
<1>2. PICK q : q = l \o r
  OBVIOUS
<1>3. PICK n \in Nat : n = Len(l)
  BY <1>1
<1>4. ASSUME InOrder(s, q, dup)
      PROVE  InOrder(s, l, dup) /\ InOrder(s, r, dup) /\ AllBefore(s, l, r, dup)
  <2>1. InOrder(s, l, dup)
    BY <1>1, <1>2, <1>4 DEF InOrder
  <2>2. ASSUME NEW i \in DOMAIN r, NEW j \in DOMAIN r, i < j, r[i] \notin dup, r[j] \notin dup
        PROVE  Precedes(s, r[i], r[j])
    <3>1. n + i \in DOMAIN q /\ n + j \in DOMAIN q /\ n + i < n + j
          /\ q[n + i] = r[i] /\ q[n + j] = r[j]
      BY <1>1, <1>2, <1>3, <2>2
    <3>2. QED  BY <1>4, <2>2, <3>1 DEF InOrder
  <2>3. ASSUME NEW x \in ToSet(l) \ dup, NEW y \in ToSet(r) \ dup PROVE Precedes(s, x, y)
    <3>1. PICK i \in DOMAIN l : l[i] = x
      BY DEF ToSet
    <3>2. PICK j \in DOMAIN r : r[j] = y
      BY DEF ToSet
    <3>3. i \in DOMAIN q /\ n + j \in DOMAIN q /\ i < n + j /\ q[i] = x /\ q[n + j] = y
      BY <1>1, <1>2, <1>3, <3>1, <3>2
    <3>4. QED  BY <1>4, <2>3, <3>3 DEF InOrder
  <2>4. QED  BY <2>1, <2>2, <2>3 DEF InOrder, AllBefore
<1>5. ASSUME InOrder(s, l, dup), InOrder(s, r, dup), AllBefore(s, l, r, dup)
      PROVE  InOrder(s, q, dup)
  <2> SUFFICES ASSUME NEW i \in DOMAIN q, NEW j \in DOMAIN q, i < j, q[i] \notin dup, q[j] \notin dup
               PROVE  Precedes(s, q[i], q[j])
    BY DEF InOrder
  <2>1. CASE i \in DOMAIN l /\ j \in DOMAIN l
    BY <1>1, <1>2, <1>5, <2>1 DEF InOrder
  <2>2. CASE i \in DOMAIN l /\ j \notin DOMAIN l
    <3>1. j - n \in DOMAIN r /\ q[j] = r[j - n] /\ q[i] = l[i]
      BY <1>1, <1>2, <1>3, <2>2
    <3>2. q[i] \in ToSet(l) /\ q[j] \in ToSet(r)
      BY <2>2, <3>1 DEF ToSet
    <3>3. QED  BY <1>5, <3>2 DEF AllBefore
  <2>3. CASE i \notin DOMAIN l
    <3>1. /\ i - n \in DOMAIN r /\ j - n \in DOMAIN r /\ i - n < j - n
          /\ q[i] = r[i - n] /\ q[j] = r[j - n]
      <4>1. i - n \in DOMAIN r /\ q[i] = r[i - n]
        BY <1>1, <1>2, <1>3, <2>3, SMTT(30)
      <4>2. j \notin DOMAIN l
        BY <1>1, <1>2, <2>3, SMTT(30)
      <4>3. j - n \in DOMAIN r /\ q[j] = r[j - n]
        BY <1>1, <1>2, <1>3, <4>2, SMTT(30)
      <4>4. QED  BY <1>1, <1>2, <4>1, <4>3, SMTT(30)
    <3>2. QED  BY <1>5, <2>3, <3>1, SMTT(30) DEF InOrder
  <2>4. QED  BY <2>1, <2>2, <2>3
<1>6. QED  BY <1>2, <1>4, <1>5

\* The three parts of a line.
LEMMA LineInOrder ==
  ASSUME NEW s, NEW dup, NEW a \in Seq(Events), NEW b \in Seq(Events), NEW c \in Seq(Events)
  PROVE  InOrder(s, a \o b \o c, dup) <=>
           /\ InOrder(s, a, dup) /\ InOrder(s, b, dup) /\ InOrder(s, c, dup)
           /\ AllBefore(s, a, b, dup) /\ AllBefore(s, a, c, dup) /\ AllBefore(s, b, c, dup)
<1>1. PICK l \in Seq(Events) : l = a \o b
  BY ConcatProperties
<1>2. ToSet(l) = ToSet(a) \cup ToSet(b)
  BY <1>1, ToSetConcat
<1>3. InOrder(s, l \o c, dup) <=>
        InOrder(s, l, dup) /\ InOrder(s, c, dup) /\ AllBefore(s, l, c, dup)
  BY ConcatInOrder
<1>4. InOrder(s, l, dup) <=>
        InOrder(s, a, dup) /\ InOrder(s, b, dup) /\ AllBefore(s, a, b, dup)
  BY <1>1, ConcatInOrder
<1>5. AllBefore(s, l, c, dup) <=> AllBefore(s, a, c, dup) /\ AllBefore(s, b, c, dup)
  BY <1>2 DEF AllBefore
<1>6. QED  BY <1>1, <1>3, <1>4, <1>5

LEMMA EmptyInOrder ==
  ASSUME NEW s, NEW dup
  PROVE  /\ <<>> \in Seq(Events) /\ ToSet(<<>>) = {} /\ InOrder(s, <<>>, dup)
         /\ \A x \in Seq(Events) : AllBefore(s, x, <<>>, dup) /\ AllBefore(s, <<>>, x, dup)
<1>1. <<>> \in Seq(Events) /\ DOMAIN <<>> = {}
  OBVIOUS
<1>2. QED  BY <1>1, ToSetEmpty DEF InOrder, AllBefore

\* What is known of more copies says no more of the order.
LEMMA MoreCopies ==
  ASSUME NEW s, NEW line, NEW dup, NEW more, dup \subseteq more, InOrder(s, line, dup)
  PROVE  InOrder(s, line, more)
BY DEF InOrder

\* Copies stand in any order.
LEMMA CopiesInOrder ==
  ASSUME NEW s, NEW dup, NEW rows \in Seq(Events), ToSet(rows) \subseteq dup
  PROVE  /\ InOrder(s, rows, dup)
         /\ \A x \in Seq(Events) : AllBefore(s, x, rows, dup) /\ AllBefore(s, rows, x, dup)
<1>1. \A i \in DOMAIN rows : rows[i] \in dup
  BY DEF ToSet
<1>2. InOrder(s, rows, dup)
  BY <1>1 DEF InOrder
<1>3. QED  BY <1>2 DEF AllBefore

\* A split sequence is the concatenation of its parts.
LEMMA SplitConcat ==
  ASSUME NEW s \in Seq(Events), NEW k \in 0..Len(s)
  PROVE  SubSeq(s, 1, k) \o SubSeq(s, k + 1, Len(s)) = s
<1>1. PICK l \in Seq(Events) : l = SubSeq(s, 1, k)
  BY ToSetSplit
<1>2. PICK r \in Seq(Events) : r = SubSeq(s, k + 1, Len(s))
  BY ToSetSplit
<1>3. Len(l) = k /\ \A i \in 1..k : l[i] = s[i]
  BY <1>1, SMTT(30)
<1>4. Len(r) = Len(s) - k /\ \A i \in 1..(Len(s) - k) : r[i] = s[k + i]
  BY <1>2, SMTT(30)
<1>5. PICK q \in Seq(Events) : q = l \o r /\ Len(q) = Len(l) + Len(r)
  BY ConcatProperties
<1>6. Len(q) = Len(s)
  BY <1>3, <1>4, <1>5
<1>7. ASSUME NEW i \in 1..Len(s) PROVE q[i] = s[i]
  <2>1. CASE i <= k
    BY <1>3, <1>5, <2>1
  <2>2. CASE i > k
    <3>1. i - k \in 1..Len(r) /\ i = Len(l) + (i - k)
      BY <1>3, <1>4, <2>2
    <3>2. q[i] = r[i - k]
      BY <1>5, <3>1
    <3>3. QED  BY <1>4, <3>1, <3>2
  <2>3. QED  BY <2>1, <2>2
<1>8. q = s
  BY <1>6, <1>7, SeqEqual
<1>9. QED  BY <1>1, <1>2, <1>5, <1>8

\* LPOP takes the head of a list.
LEMMA TakenConcat ==
  ASSUME NEW s \in Seq(Events)
  PROVE  /\ Taken(s, BatchSize) \in Seq(Events) /\ Rest(s, BatchSize) \in Seq(Events)
         /\ Taken(s, BatchSize) \o Rest(s, BatchSize) = s
         /\ Len(Taken(s, BatchSize)) <= BatchSize
         /\ Len(Rest(s, BatchSize)) + BatchSize <= Len(s) \/ Rest(s, BatchSize) = <<>>
<1>1. BatchSize \in Nat \ {0}
  BY PipelineAssumption
<1>2. PICK k \in 0..Len(s) : k = IF Len(s) < BatchSize THEN Len(s) ELSE BatchSize
  BY <1>1
<1>3. PICK l \in Seq(Events) : l = Taken(s, BatchSize)
  BY BatchSplits
<1>4. PICK r \in Seq(Events) : r = Rest(s, BatchSize)
  BY BatchSplits
<1>5. l = SubSeq(s, 1, k) /\ r = SubSeq(s, k + 1, Len(s))
  BY <1>2, <1>3, <1>4 DEF Taken, Rest
<1>6. l \o r = s
  BY <1>5, SplitConcat
<1>7. Len(l) = k /\ Len(r) = Len(s) - k
  BY <1>5, SMTT(30)
<1>8. Len(r) + BatchSize <= Len(s) \/ Len(r) = 0
  BY <1>1, <1>2, <1>7
<1>9. Len(r) = 0 => r = <<>>
  OBVIOUS
<1>10. QED  BY <1>1, <1>2, <1>3, <1>4, <1>6, <1>7, <1>8, <1>9

\* LTRIM keeps the tail of a list.
LEMMA NewestInOrder ==
  ASSUME NEW s, NEW dup, NEW q \in Seq(Events)
  PROVE  /\ KeepLast(q, MaxSize) \in Seq(Events) /\ Len(KeepLast(q, MaxSize)) <= MaxSize
         /\ ToSet(KeepLast(q, MaxSize)) \subseteq ToSet(q)
         /\ InOrder(s, q, dup) => InOrder(s, KeepLast(q, MaxSize), dup)
<1>1. MaxSize \in Nat \ {0}
  BY PipelineAssumption
<1>2. CASE Len(q) > MaxSize
  <2>1. PICK k \in 0..Len(q) : k = Len(q) - MaxSize
    BY <1>1, <1>2
  <2>2. PICK l \in Seq(Events) : l = SubSeq(q, 1, k)
    BY ToSetSplit
  <2>3. PICK r \in Seq(Events) : r = SubSeq(q, k + 1, Len(q))
    BY ToSetSplit
  <2>4. l \o r = q /\ KeepLast(q, MaxSize) = r
    BY <1>2, <2>1, <2>2, <2>3, SplitConcat DEF KeepLast
  <2>5. Len(r) = Len(q) - k
    BY <2>3, SMTT(30)
  <2>6. Len(r) <= MaxSize
    BY <1>1, <2>1, <2>5
  <2>7. ToSet(q) = ToSet(l) \cup ToSet(r)
    <3>1. ToSet(l \o r) = ToSet(l) \cup ToSet(r)
      BY ToSetConcat
    <3>2. QED  BY <2>4, <3>1
  <2>8. InOrder(s, q, dup) => InOrder(s, r, dup)
    BY <2>4, ConcatInOrder
  <2>9. QED  BY <2>4, <2>6, <2>7, <2>8
<1>3. CASE ~(Len(q) > MaxSize)
  BY <1>1, <1>3 DEF KeepLast
<1>4. QED  BY <1>2, <1>3

\* What enters next comes after all that is in line.
LEMMA NextInOrder ==
  ASSUME NEW s \in Seq(Events), NEW e \in Events \ ToSet(s), NEW dup,
         NEW line \in Seq(Events), ToSet(line) \subseteq ToSet(s), InOrder(s, line, dup)
  PROVE  /\ InOrder(Append(s, e), line, dup) /\ InOrder(Append(s, e), <<e>>, dup)
         /\ AllBefore(Append(s, e), line, <<e>>, dup)
         /\ ToSet(Append(s, e)) = ToSet(s) \cup {e} /\ <<e>> \in Seq(Events) /\ ToSet(<<e>>) = {e}
<1>1. PICK n \in Nat : n = Len(s)
  OBVIOUS
<1>2. PICK t \in Seq(Events) : t = Append(s, e)
  BY AppendProperties
<1>3. DOMAIN t = 1..(n + 1) /\ DOMAIN s = 1..n /\ t[n + 1] = e /\ \A i \in 1..n : t[i] = s[i]
  BY <1>1, <1>2
<1>4. \A i \in 1..n : t[i] # e
  BY <1>3 DEF ToSet
<1>5. ASSUME NEW x \in ToSet(s), NEW y \in ToSet(s), Precedes(s, x, y) PROVE Precedes(t, x, y)
  <2>1. x # e /\ y # e
    OBVIOUS
  <2>2. QED  BY <1>3, <1>5, <2>1 DEF Precedes
<1>6. ASSUME NEW x \in ToSet(s) PROVE Precedes(t, x, e)
  <2>1. x # e
    OBVIOUS
  <2>2. QED  BY <1>1, <1>3, <1>4, <2>1 DEF Precedes
<1>7. InOrder(t, line, dup)
  <2>1. \A i \in DOMAIN line : line[i] \in ToSet(s)
    BY DEF ToSet
  <2>2. QED  BY <1>5, <2>1 DEF InOrder
<1>8. <<e>> \in Seq(Events) /\ DOMAIN <<e>> = {1} /\ ToSet(<<e>>) = {e}
  <2>1. <<e>> \in Seq(Events) /\ DOMAIN <<e>> = 1..1 /\ <<e>>[1] = e
    OBVIOUS
  <2>2. QED  BY <2>1 DEF ToSet
<1>9. InOrder(t, <<e>>, dup)
  BY <1>8 DEF InOrder
<1>10. AllBefore(t, line, <<e>>, dup)
  BY <1>6, <1>8 DEF AllBefore
<1>11. ToSet(t) = ToSet(s) \cup {e}
  BY <1>2, ToSetAppend
<1>12. QED  BY <1>2, <1>7, <1>8, <1>9, <1>10, <1>11

-----------------------------------------------------------------------------
(* Steps of the line *)

\* Nobody but t moves.
OthersRest(t) ==
  \A u \in Threads \ {t} :
    pc'[u] = pc[u] /\ item'[u] = item[u] /\ hand'[u] = hand[u] /\ ti'[u] = ti[u]

LEMMA Room ==
  ASSUME NEW n \in Nat
  PROVE  /\ BatchSize * n \in Nat /\ BatchSize * (n + 1) = BatchSize * n + BatchSize
         /\ \A m \in Nat : m <= n => BatchSize * m <= BatchSize * n
<1>1. BatchSize \in Nat
  BY PipelineAssumption
<1>2. QED  BY <1>1

LEMMA FreeFinite ==
  ASSUME NEW tab
  PROVE  IsFiniteSet(Free(tab)) /\ Cardinality(Free(tab)) \in Nat
         /\ Cardinality(Free(tab)) <= Cardinality(Flushers)
<1>1. Free(tab) \subseteq Flushers /\ IsFiniteSet(Flushers)
  BY PipelineAssumption DEF Free
<1>2. QED  BY <1>1, FS_Subset, FS_CardinalityType

LEMMA TrimmingFinite ==
  ASSUME NEW tab, IsFiniteSet(Trimmers)
  PROVE  IsFiniteSet(Trimming(tab)) /\ Cardinality(Trimming(tab)) \in Nat
         /\ Cardinality(Trimming(tab)) <= Cardinality(Trimmers)
<1>1. Trimming(tab) \subseteq Trimmers
  BY DEF Trimming
<1>2. QED  BY <1>1, FS_Subset, FS_CardinalityType

\* More flushers have their room, the list is no longer.
LEMMA RoomGrows ==
  ASSUME TypeOK, TypeOK', Sized, NEW tab \in Tables, Trimming(tab)' = Trimming(tab),
         IsFiniteSet(Free(tab)'), Free(tab) \subseteq Free(tab)',
         Len(redis'[tab]) <= Len(redis[tab])
  PROVE  Len(redis'[tab]) <= MaxSize + Cardinality(Trimming(tab))'
                             + BatchSize * Cardinality(Free(tab))'
<1>1. PICK k \in Nat : k = Cardinality(Free(tab))
  BY FreeFinite
<1>2. PICK m \in Nat : m = Cardinality(Free(tab)')
  BY FS_CardinalityType
<1>3. k <= m
  BY <1>1, <1>2, FS_Subset
<1>4. BatchSize * k <= BatchSize * m /\ BatchSize * k \in Nat /\ BatchSize * m \in Nat
  BY <1>3, Room
<1>5. PICK c \in Nat : c = Cardinality(Trimming(tab))
  BY TrimmingFinite DEF Sized
<1>6. Len(redis[tab]) \in Nat /\ Len(redis'[tab]) \in Nat /\ MaxSize \in Nat
  <2>1. redis[tab] \in Seq(Events) /\ redis'[tab] \in Seq(Events)
    BY DEF TypeOK, BufferTypes
  <2>2. QED  BY <2>1, PipelineAssumption
<1>8. Len(redis[tab]) <= MaxSize + c + BatchSize * k
  BY <1>1, <1>5 DEF Sized
<1>7. QED  BY <1>2, <1>4, <1>5, <1>6, <1>8, SMTT(30)

\* A list that was trimmed, or is within its limit.
LEMMA WithinLimit ==
  ASSUME NEW tab \in Tables, TypeOK', IsFiniteSet(Trimming(tab)'), Len(redis'[tab]) <= MaxSize
  PROVE  Len(redis'[tab]) <= MaxSize + Cardinality(Trimming(tab))'
                             + BatchSize * Cardinality(Free(tab))'
<1>1. IsFiniteSet(Flushers) /\ Free(tab)' \subseteq Flushers
  BY PipelineAssumption DEF Free
<1>2. PICK m \in Nat : m = Cardinality(Free(tab)')
  BY <1>1, FS_Subset, FS_CardinalityType
<1>3. PICK c \in Nat : c = Cardinality(Trimming(tab)')
  BY FS_CardinalityType
<1>4. BatchSize * m \in Nat /\ MaxSize \in Nat /\ Len(redis'[tab]) \in Nat
  BY Room, PipelineAssumption DEF TypeOK, BufferTypes
<1>5. QED  BY <1>2, <1>3, <1>4

\* A flusher pops a batch, puts it back, or leaves the list alone or shorter.
LEMMA FlusherSized ==
  ASSUME TypeOK, TypeOK', Sized, NEW t \in Flushers, NEW tab \in Tables, tab = Table(t),
         OthersRest(t), \A v \in Tables \ {tab} : redis'[v] = redis[v],
         pc'[t] \in AtHand => Table(t)' = tab,
         \/ Len(redis'[tab]) <= Len(redis[tab]) /\ (pc'[t] \in AtHand => pc[t] \in AtHand)
         \/ /\ Len(redis'[tab]) + BatchSize <= Len(redis[tab]) \/ redis'[tab] = <<>>
            /\ pc[t] \notin AtHand
         \/ /\ Len(redis'[tab]) <= Len(redis[tab]) + BatchSize
            /\ pc[t] \in AtHand /\ pc'[t] \notin AtHand
  PROVE  Sized'
<1>0. /\ t \in Threads /\ t \notin Pushers /\ MaxSize \in Nat /\ BatchSize \in Nat
      /\ \A u \in Flushers \ {t} : pc'[u] = pc[u] /\ Table(u)' = Table(u)
      /\ \A u \in Pushers : pc'[u] = pc[u]
  BY PipelineAssumption DEF Threads, OthersRest, Table
<1>1. /\ Trimmers' = Trimmers /\ IsFiniteSet(Trimmers)
      /\ \A v \in Tables : Trimming(v)' = Trimming(v) /\ IsFiniteSet(Trimming(v))
  <2>1. Trimmers' = Trimmers /\ IsFiniteSet(Trimmers)
    BY <1>0 DEF Trimmers, Sized
  <2>2. \A u \in Trimmers : item'[u] = item[u]
    BY <1>0 DEF Trimmers, OthersRest, Threads
  <2>3. \A v \in Tables : Trimming(v)' = Trimming(v)
    BY <2>1, <2>2 DEF Trimming, ItemTable
  <2>4. QED  BY <2>1, <2>3, TrimmingFinite
<1>2. \A v \in Tables : IsFiniteSet(Free(v)')
  <2>1. \A v \in Tables : Free(v)' \subseteq Flushers
    BY DEF Free
  <2>2. QED  BY <2>1, PipelineAssumption, FS_Subset
<1>3. ASSUME NEW v \in Tables \ {tab}
      PROVE  Len(redis'[v]) <= MaxSize + Cardinality(Trimming(v))' + BatchSize * Cardinality(Free(v))'
  <2>1. Free(v) \subseteq Free(v)'
    BY <1>0 DEF Free
  <2>2. redis'[v] = redis[v] /\ Len(redis[v]) \in Nat
    BY DEF TypeOK, BufferTypes
  <2>3. QED  BY <1>1, <1>2, <2>1, <2>2, RoomGrows
<1>4. CASE Len(redis'[tab]) <= Len(redis[tab]) /\ (pc'[t] \in AtHand => pc[t] \in AtHand)
  <2>1. Free(tab) \subseteq Free(tab)'
    BY <1>0, <1>4 DEF Free
  <2>2. Len(redis'[tab]) <= MaxSize + Cardinality(Trimming(tab))'
                             + BatchSize * Cardinality(Free(tab))'
    BY <1>1, <1>2, <1>4, <2>1, RoomGrows
  <2>3. QED  BY <1>1, <1>3, <2>2 DEF Sized
<1>5. CASE redis'[tab] = <<>>
  <2>1. Len(redis'[tab]) = 0
    BY <1>5
  <2>2. Len(redis'[tab]) <= MaxSize
    BY <1>0, <2>1
  <2>3. Len(redis'[tab]) <= MaxSize + Cardinality(Trimming(tab))'
                             + BatchSize * Cardinality(Free(tab))'
    BY <1>1, <2>2, WithinLimit
  <2>4. QED  BY <1>1, <1>3, <2>3 DEF Sized
<1>6. PICK k \in Nat : k = Cardinality(Free(tab))
  BY FreeFinite
<1>7. PICK m \in Nat : m = Cardinality(Free(tab)')
  BY <1>2, FS_CardinalityType
<1>8. PICK c \in Nat : c = Cardinality(Trimming(tab))
  BY <1>1, FS_CardinalityType
<1>9. /\ Len(redis[tab]) \in Nat /\ Len(redis'[tab]) \in Nat
      /\ Len(redis[tab]) <= MaxSize + c + BatchSize * k
      /\ BatchSize * k \in Nat /\ BatchSize * m \in Nat
  <2>1. redis[tab] \in Seq(Events) /\ redis'[tab] \in Seq(Events)
    BY DEF TypeOK, BufferTypes
  <2>2. Len(redis[tab]) <= MaxSize + c + BatchSize * k
    BY <1>6, <1>8 DEF Sized
  <2>3. Len(redis[tab]) \in Nat /\ Len(redis'[tab]) \in Nat
    BY <2>1
  <2>4. BatchSize * k \in Nat /\ BatchSize * m \in Nat
    BY Room
  <2>5. QED  BY <2>2, <2>3, <2>4
<1>10. CASE pc[t] \notin AtHand /\ Len(redis'[tab]) + BatchSize <= Len(redis[tab])
  <2>1. Free(tab) \subseteq Free(tab)' \cup {t}
    BY <1>0 DEF Free
  <2>2. k <= m + 1
    <3>1. /\ IsFiniteSet(Free(tab)' \cup {t})
          /\ Cardinality(Free(tab)' \cup {t}) = m \/ Cardinality(Free(tab)' \cup {t}) = m + 1
      BY <1>2, <1>7, FS_AddElement
    <3>2. Cardinality(Free(tab)) <= Cardinality(Free(tab)' \cup {t})
      BY <2>1, <3>1, FS_Subset
    <3>3. QED  BY <1>6, <3>1, <3>2
  <2>3. BatchSize * k <= BatchSize * m + BatchSize
    <3>1. BatchSize * k <= BatchSize * (m + 1)
      BY <2>2, Room
    <3>2. QED  BY <3>1, Room
  <2>4. Len(redis'[tab]) <= MaxSize + c + BatchSize * m
    BY <1>0, <1>9, <1>10, <2>3
  <2>5. QED  BY <1>1, <1>3, <1>7, <1>8, <2>4 DEF Sized
<1>11. CASE /\ Len(redis'[tab]) <= Len(redis[tab]) + BatchSize
            /\ pc[t] \in AtHand /\ pc'[t] \notin AtHand
  <2>1. t \notin Free(tab) /\ Free(tab) \cup {t} \subseteq Free(tab)'
    BY <1>0, <1>11 DEF Free
  <2>2. k + 1 <= m
    <3>1. Cardinality(Free(tab) \cup {t}) = k + 1
      BY <1>6, <2>1, FreeFinite, FS_AddElement
    <3>2. Cardinality(Free(tab) \cup {t}) <= Cardinality(Free(tab)')
      BY <1>2, <2>1, FS_Subset
    <3>3. QED  BY <1>7, <3>1, <3>2
  <2>3. BatchSize * k + BatchSize <= BatchSize * m
    <3>1. BatchSize * (k + 1) <= BatchSize * m
      BY <2>2, Room
    <3>2. QED  BY <3>1, Room
  <2>4. Len(redis'[tab]) <= MaxSize + c + BatchSize * m
    BY <1>0, <1>9, <1>11, <2>3
  <2>5. QED  BY <1>1, <1>3, <1>7, <1>8, <2>4 DEF Sized
<1>12. QED  BY <1>4, <1>5, <1>10, <1>11

\* The rows' types.
LEMMA RowsTyped ==
  ASSUME TypeOK, NEW tab \in Tables, NEW t \in Threads
  PROVE  /\ stored[tab] \in Seq(Events) /\ redis[tab] \in Seq(Events)
         /\ entered[tab] \in Seq(Events) /\ hand[t] \in Seq(Events)
BY DEF TypeOK, BufferTypes, LocalTypes, GhostTypes

\* Without its middle a line is in order still.
LEMMA ShorterLine ==
  ASSUME NEW s, NEW dup, NEW a \in Seq(Events), NEW b \in Seq(Events), NEW c \in Seq(Events),
         InOrder(s, a \o b \o c, dup)
  PROVE  InOrder(s, a \o <<>> \o c, dup)
BY LineInOrder, EmptyInOrder

\* A flusher at work while no lock was lost is the only one.
LEMMA OneActive ==
  ASSUME FlushersBounded, breaks = 0, NEW t \in Active
  PROVE  Active = {t}
<1>1. IsFiniteSet(Active) /\ Cardinality(Active) \in Nat /\ Cardinality(Active) <= 1
  BY ActiveFinite DEF FlushersBounded
<1>2. Cardinality(Active) # 0
  BY <1>1, FS_EmptySet
<1>3. Cardinality(Active) = 1
  BY <1>1, <1>2
<1>4. QED  BY <1>1, <1>3, FS_Singleton

\* A flusher at work on a table passes on what it has of it, in order.
LEMMA FlusherOrder ==
  ASSUME TypeOK, TypeOK', FlushersBounded, Calm, PushedOnce, Entered, Lines,
         NEW t \in Flushers, NEW tab \in Tables, tab = Table(t), pc[t] # "idle",
         OthersRest(t), \A v \in Tables \ {tab} : redis'[v] = redis[v] /\ stored'[v] = stored[v],
         UNCHANGED <<mem, down, accepted, entered, breaks>>, mayDup \subseteq mayDup',
         pc'[t] \notin {"pipe", "residual"}, Len(hand'[t]) <= BatchSize,
         hand'[t] # <<>> => pc'[t] \in AtHand /\ Table(t)' = tab,
         ToSet(stored'[tab]) \cup ToSet(hand'[t]) \cup ToSet(redis'[tab])
           \subseteq ToSet(stored[tab]) \cup ToSet(hand[t]) \cup ToSet(redis[tab]),
         InOrder(entered[tab], stored[tab] \o hand[t] \o redis[tab], mayDup) =>
           InOrder(entered[tab], stored'[tab] \o hand'[t] \o redis'[tab], mayDup')
  PROVE  Calm' /\ PushedOnce' /\ Entered' /\ Lines'
<1>0. /\ t \in Threads /\ \A u \in Flushers : u \in Threads
      /\ \A u \in Flushers \ {t} : Table(u)' = Table(u)
  BY DEF Threads, OthersRest, Table
<1>1. Calm'
  BY <1>0 DEF Calm, OthersRest
<1>2. PushedOnce'
  <2>1. \A u \in Threads : pc'[u] = "pipe" => u # t /\ pc[u] = "pipe" /\ item'[u] = item[u]
    BY DEF OthersRest
  <2>2. QED  BY <2>1 DEF PushedOnce
<1>3. ToSet(stored[tab]) \cup ToSet(hand[t]) \cup ToSet(redis[tab]) \subseteq ToSet(entered[tab])
  BY DEF Entered
<1>4. Entered'
  <2>1. ASSUME NEW v \in Tables
        PROVE  ToSet(stored'[v]) \cup ToSet(redis'[v]) \subseteq ToSet(entered'[v])
    <3>1. CASE v = tab
      BY <1>3, <3>1
    <3>2. CASE v # tab
      BY <3>2 DEF Entered
    <3>3. QED  BY <3>1, <3>2
  <2>2. ASSUME NEW u \in Flushers PROVE ToSet(hand'[u]) \subseteq ToSet(entered'[Table(u)'])
    <3>1. CASE u = t
      <4>1. CASE hand'[t] = <<>>
        BY <3>1, <4>1, ToSetEmpty
      <4>2. CASE hand'[t] # <<>>
        BY <1>3, <3>1, <4>2
      <4>3. QED  BY <4>1, <4>2
    <3>2. CASE u # t
      <4>1. hand'[u] = hand[u] /\ Table(u)' = Table(u)
        BY <1>0, <3>2 DEF OthersRest
      <4>2. QED  BY <4>1 DEF Entered
    <3>3. QED  BY <3>1, <3>2
  <2>3. QED  BY <2>1, <2>2 DEF Entered
<1>5. Lines'
  <2> SUFFICES ASSUME breaks = 0, NEW v \in Tables
               PROVE  /\ InOrder(entered[v], Line(v, <<>>)', mayDup')
                      /\ \A u \in Active' :
                           Table(u)' = v => InOrder(entered[v], Line(v, hand[u])', mayDup')
    BY DEF Lines
  <2>1. Active = {t} /\ Active' \subseteq {t}
    <3>1. Active = {t}
      BY OneActive DEF Active
    <3>2. \A u \in Flushers \ {t} : pc'[u] = pc[u]
      BY <1>0 DEF OthersRest
    <3>3. QED  BY <3>1, <3>2 DEF Active
  <2>2. CASE v = tab
    <3>1. InOrder(entered[tab], stored[tab] \o hand[t] \o redis[tab], mayDup)
      BY <2>1 DEF Lines, Line
    <3>2. InOrder(entered[tab], stored'[tab] \o hand'[t] \o redis'[tab], mayDup')
      BY <3>1
    <3>3. stored'[tab] \in Seq(Events) /\ hand'[t] \in Seq(Events) /\ redis'[tab] \in Seq(Events)
      BY <1>0, RowsTyped DEF TypeOK, BufferTypes, LocalTypes
    <3>4. InOrder(entered[tab], stored'[tab] \o <<>> \o redis'[tab], mayDup')
      BY <3>2, <3>3, ShorterLine
    <3>5. QED  BY <2>1, <2>2, <3>2, <3>4 DEF Line
  <2>3. CASE v # tab
    <3>1. InOrder(entered[v], stored[v] \o <<>> \o redis[v], mayDup)
      BY DEF Lines, Line
    <3>2. InOrder(entered[v], stored'[v] \o <<>> \o redis'[v], mayDup')
      BY <2>3, <3>1, MoreCopies
    <3>3. Table(t)' = v => hand'[t] = <<>>
      BY <2>3
    <3>4. QED  BY <2>1, <3>2, <3>3 DEF Line
  <2>4. QED  BY <2>2, <2>3
<1>6. QED  BY <1>1, <1>2, <1>4, <1>5

\* A step that leaves the rows where they are.
LEMMA StillOrder ==
  ASSUME TypeOK, TypeOK', Calm, Sized, PushedOnce, Entered, Lines,
         UNCHANGED <<redis, mem, down, stored, item, hand, accepted, mayDup, entered>>,
         breaks' = 0 => breaks = 0,
         \A u \in Pushers : pc'[u] = pc[u],
         \A u \in Flushers :
           /\ pc'[u] = "pipe" => pc[u] = "pipe"
           /\ pc'[u] # "residual" /\ (pc'[u] \in AtHand => pc[u] \in AtHand)
           /\ Table(u)' = Table(u) \/ (hand[u] = <<>> /\ pc'[u] \notin AtHand)
           /\ hand[u] # <<>> => pc'[u] \in AtHand
  PROVE  Calm' /\ Sized' /\ PushedOnce' /\ Entered' /\ Lines'
<1>1. Calm'
  BY DEF Calm, Threads
<1>2. Sized'
  <2>1. Trimmers' = Trimmers /\ \A v \in Tables : Trimming(v)' = Trimming(v)
    BY DEF Trimmers, Trimming, ItemTable
  <2>2. ASSUME NEW v \in Tables
        PROVE  Len(redis'[v]) <= MaxSize + Cardinality(Trimming(v))' + BatchSize * Cardinality(Free(v))'
    <3>1. Free(v) \subseteq Free(v)' /\ Free(v)' \subseteq Flushers
      BY DEF Free
    <3>2. IsFiniteSet(Free(v)')
      BY <3>1, PipelineAssumption, FS_Subset
    <3>3. redis'[v] = redis[v] /\ Len(redis[v]) \in Nat
      BY DEF TypeOK, BufferTypes
    <3>4. QED  BY <2>1, <3>1, <3>2, <3>3, RoomGrows
  <2>3. QED  BY <2>1, <2>2 DEF Sized
<1>3. PushedOnce'
  <2>1. \A u \in Threads : pc'[u] = "pipe" => pc[u] = "pipe"
    BY DEF Threads
  <2>2. QED  BY <2>1 DEF PushedOnce
<1>4. Entered'
  <2>1. \A u \in Flushers : hand[u] = <<>> => ToSet(hand[u]) = {}
    BY ToSetEmpty
  <2>2. QED  BY <2>1 DEF Entered
<1>5. Lines'
  <2> SUFFICES ASSUME breaks' = 0, NEW v \in Tables
               PROVE  /\ InOrder(entered[v], Line(v, <<>>), mayDup)
                      /\ \A u \in Active' :
                           Table(u)' = v => InOrder(entered[v], Line(v, hand[u]), mayDup)
    BY DEF Lines, Line
  <2>1. InOrder(entered[v], Line(v, <<>>), mayDup)
    BY DEF Lines
  <2>2. ASSUME NEW u \in Active', Table(u)' = v, hand[u] # <<>>
        PROVE  InOrder(entered[v], Line(v, hand[u]), mayDup)
    <3>1. u \in Flushers /\ u \in Threads
      BY DEF Active, Threads
    <3>2. pc[u] \in AtHand /\ Table(u) = v
      BY <2>2, <3>1 DEF Calm
    <3>3. u \in Active
      BY <3>1, <3>2 DEF AtHand, Active
    <3>4. QED  BY <3>2, <3>3 DEF Lines
  <2>3. QED  BY <2>1, <2>2
<1>6. QED  BY <1>1, <1>2, <1>3, <1>4, <1>5

-----------------------------------------------------------------------------
(* The steps of a flusher *)

LEMMA Regroup ==
  ASSUME NEW a \in Seq(Events), NEW b \in Seq(Events), NEW c \in Seq(Events)
  PROVE  a \o b \o c = a \o (b \o c) /\ a \o <<>> = a
BY ConcatAssociative, ConcatEmptySeq

Ordered == Calm /\ Sized /\ PushedOnce /\ Entered /\ Lines

\* Where a flusher gets, and with which rows.
LEMMA FlusherGoes ==
  ASSUME TypeOK, NEW t \in Flushers,
         \/ NextTable(t) \/ FlushReturns(t)
         \/ (\E point : Goto(t, point)) /\ ti' = ti,
         item' = item, hand' = hand \/ \E rows : Holds(t, rows)
  PROVE  OthersRest(t)
BY DEF TypeOK, LocalTypes, Threads, NextTable, FlushReturns, Goto, Holds, OthersRest

LEMMA NextTableGoes ==
  ASSUME TypeOK, NEW t \in Flushers, NextTable(t)
  PROVE  pc'[t] \in {"table", "release"}
BY DEF TypeOK, LocalTypes, Threads, NextTable, Goto

\* A flusher moves on, with the rows it had or with none.
LEMMA FlusherStill ==
  ASSUME TypeOK, TypeOK', Ordered, NEW t \in Flushers, OthersRest(t),
         UNCHANGED <<redis, mem, down, stored, item, hand, accepted, mayDup, entered>>,
         breaks' = 0 => breaks = 0,
         \/ {pc[t], pc'[t]} \subseteq AtHand /\ ti' = ti
         \/ pc[t] \notin AtHand /\ pc'[t] \in {"idle", "table", "lpop", "release"}
  PROVE  Ordered'
<1>1. \A u \in Pushers : u \in Threads \ {t} /\ pc'[u] = pc[u]
  BY PipelineAssumption DEF OthersRest, Threads
<1>2. \A u \in Flushers \ {t} : u \in Threads /\ pc'[u] = pc[u] /\ ti'[u] = ti[u]
  BY DEF OthersRest, Threads
<1>3. \A u \in Flushers : pc[u] # "residual" /\ (hand[u] # <<>> => pc[u] \in AtHand)
  BY DEF Ordered, Calm, Threads
<1>4. "pipe" \notin AtHand /\ "residual" \notin AtHand
  BY DEF AtHand
<1>5. ASSUME NEW u \in Flushers
      PROVE  /\ pc'[u] = "pipe" => pc[u] = "pipe"
             /\ pc'[u] # "residual" /\ (pc'[u] \in AtHand => pc[u] \in AtHand)
             /\ Table(u)' = Table(u) \/ (hand[u] = <<>> /\ pc'[u] \notin AtHand)
             /\ hand[u] # <<>> => pc'[u] \in AtHand
  <2>1. CASE u # t
    BY <1>2, <1>3, <2>1 DEF Table
  <2>2. CASE u = t /\ {pc[t], pc'[t]} \subseteq AtHand /\ ti' = ti
    BY <1>4, <2>2 DEF Table
  <2>3. CASE u = t /\ pc[t] \notin AtHand /\ pc'[t] \in {"idle", "table", "lpop", "release"}
    BY <1>3, <2>3 DEF AtHand
  <2>4. QED  BY <2>1, <2>2, <2>3
<1>6. QED  BY <1>1, <1>5, StillOrder DEF Ordered

LEMMA BeginsOrdered ==
  ASSUME TypeOK, TypeOK', Ordered, NEW t \in Flushers,
         \/ FlushBegins(t) \/ FlushBeginsUnlocked(t) \/ SkipTable(t)
         \/ InsertRejected(t) \/ FlushEnds(t) \/ FlushEndsFails(t)
  PROVE  Ordered'
<1>1. /\ UNCHANGED <<redis, mem, down, stored, item, hand, accepted, mayDup, entered>>
      /\ breaks' = breaks \/ breaks' = breaks + 1
  BY DEF FlushBegins, FlushBeginsUnlocked, SkipTable, InsertRejected, FlushEnds, FlushEndsFails,
         buffers, sinks, ghosts, marks
<1>2. breaks \in Nat /\ breaks' = 0 => breaks = 0
  BY <1>1 DEF TypeOK, GhostTypes
<1>3. OthersRest(t)
  BY <1>1, FlusherGoes
     DEF FlushBegins, FlushBeginsUnlocked, SkipTable, InsertRejected, FlushEnds, FlushEndsFails
<1>4. \/ {pc[t], pc'[t]} \subseteq AtHand /\ ti' = ti
      \/ pc[t] \notin AtHand /\ pc'[t] \in {"idle", "table", "lpop", "release"}
  <2>1. pc \in [Threads -> Points] /\ t \in Threads
    BY DEF TypeOK, LocalTypes, Threads
  <2>2. CASE SkipTable(t)
    BY <2>2, NextTableGoes DEF SkipTable, AtHand
  <2>3. CASE InsertRejected(t)
    BY <2>1, <2>3 DEF InsertRejected, Goto, AtHand
  <2>4. CASE FlushBegins(t) \/ FlushBeginsUnlocked(t) \/ FlushEnds(t) \/ FlushEndsFails(t)
    BY <2>1, <2>4 DEF FlushBegins, FlushBeginsUnlocked, FlushEnds, FlushEndsFails, FlushReturns,
                      Goto, AtHand
  <2>5. QED  BY <2>2, <2>3, <2>4
<1>5. breaks \in Nat
  BY DEF TypeOK, GhostTypes
<1>6. QED  BY <1>1, <1>2, <1>3, <1>4, <1>5, FlusherStill

\* Nothing is in memory to be drained.
LEMMA PopDrainOrdered ==
  ASSUME TypeOK, TypeOK', Ordered, NEW t \in Flushers, PopDrain(t)
  PROVE  Ordered'
<1>1. t \in Threads /\ ProcOf[t] \in Procs /\ Table(t) \in Tables /\ pc[t] = "table"
  BY ThreadFacts DEF Threads, PopDrain
<1>2. mem[ProcOf[t]][Table(t)] = <<>> /\ hand[t] = <<>>
  BY <1>1 DEF Ordered, Calm, AtHand
<1>3. mem' = [mem EXCEPT ![ProcOf[t]][Table(t)] = <<>>] /\ hand' = [hand EXCEPT ![t] = <<>>]
  BY <1>2 DEF PopDrain, Holds
<1>4. mem' = mem /\ hand' = hand
  <2>1. PICK p \in Procs : p = ProcOf[t]
    BY <1>1
  <2>2. PICK tab \in Tables : tab = Table(t)
    BY <1>1
  <2>3. mem \in [Procs -> [Tables -> Seq(Events)]] /\ hand \in [Threads -> Seq(Events)]
    BY DEF TypeOK, BufferTypes, LocalTypes
  <2>4. PICK list : list = mem[p]
    OBVIOUS
  <2>5. [list EXCEPT ![tab] = <<>>] = list
    BY <1>2, <2>1, <2>2, <2>3, <2>4
  <2>6. mem' = [mem EXCEPT ![p] = [list EXCEPT ![tab] = <<>>]]
    BY <1>3, <2>1, <2>2, <2>4
  <2>7. mem' = mem
    BY <2>3, <2>4, <2>5, <2>6
  <2>8. hand' = hand
    BY <1>1, <1>2, <1>3, <2>3
  <2>9. QED  BY <2>7, <2>8
<1>5. Goto(t, "lpop") /\ ti' = ti /\ item' = item /\ pc'[t] = "lpop"
  BY <1>1, <1>2 DEF PopDrain, Goto, TypeOK, LocalTypes
<1>6. OthersRest(t)
  BY <1>4, <1>5, FlusherGoes
<1>7. UNCHANGED <<redis, down, stored, item, accepted, mayDup, entered>> /\ breaks' = breaks
  BY DEF PopDrain, sinks, ghosts
<1>8. QED  BY <1>1, <1>4, <1>5, <1>6, <1>7, FlusherStill DEF AtHand

\* The batch that is popped was the head of the list.
LEMMA PopBatchOrdered ==
  ASSUME TypeOK, TypeOK', FlushersBounded, Ordered, NEW t \in Flushers, PopBatch(t)
  PROVE  Ordered'
<1>1. PICK tab \in Tables : tab = Table(t)
  BY ThreadFacts DEF Threads
<1>2. t \in Threads /\ pc[t] = "lpop" /\ hand[t] = <<>> /\ redis[tab] \in Seq(Events)
      /\ stored[tab] \in Seq(Events)
  BY RowsTyped DEF Threads, PopBatch, Ordered, Calm, AtHand
<1>3. PICK rows \in Seq(Events) : rows = Taken(redis[tab], BatchSize)
  BY <1>2, TakenConcat
<1>4. PICK rest \in Seq(Events) : rest = Rest(redis[tab], BatchSize)
  BY <1>2, TakenConcat
<1>5. /\ rows \o rest = redis[tab] /\ Len(rows) <= BatchSize
      /\ Len(rest) + BatchSize <= Len(redis[tab]) \/ rest = <<>>
  BY <1>2, <1>3, <1>4, TakenConcat
<1>6. /\ redis' = [redis EXCEPT ![tab] = rest] /\ Holds(t, rows) /\ item' = item
      /\ IF rows = <<>> THEN NextTable(t) ELSE Goto(t, "insert") /\ ti' = ti
      /\ UNCHANGED <<mem, down, stored, accepted, mayDup, entered, breaks>>
  BY <1>1, <1>3, <1>4 DEF PopBatch, sinks, ghosts
<1>7. OthersRest(t)
  BY <1>6, FlusherGoes
<1>8. /\ redis'[tab] = rest /\ hand'[t] = rows /\ stored' = stored
      /\ \A v \in Tables \ {tab} : redis'[v] = redis[v]
  BY <1>2, <1>6 DEF Holds, TypeOK, BufferTypes, LocalTypes
<1>9. IF rows = <<>> THEN pc'[t] \in {"table", "release"} ELSE pc'[t] = "insert" /\ Table(t)' = tab
  <2>1. CASE rows = <<>>
    BY <1>6, <2>1, NextTableGoes
  <2>2. CASE rows # <<>>
    BY <1>1, <1>2, <1>6, <2>2 DEF Goto, Table, TypeOK, LocalTypes
  <2>3. QED  BY <2>1, <2>2
<1>10. Sized'
  <2>1. pc'[t] \in AtHand => Table(t)' = tab
    BY <1>9 DEF AtHand
  <2>2. pc[t] \notin AtHand
    BY <1>2 DEF AtHand
  <2>3. QED  BY <1>1, <1>5, <1>7, <1>8, <2>1, <2>2, FlusherSized DEF Ordered
<1>11. ToSet(rows) \cup ToSet(rest) = ToSet(redis[tab])
  <2>1. ToSet(rows \o rest) = ToSet(rows) \cup ToSet(rest)
    BY ToSetConcat
  <2>2. QED  BY <1>5, <2>1
<1>12. ASSUME InOrder(entered[tab], stored[tab] \o hand[t] \o redis[tab], mayDup)
       PROVE  InOrder(entered[tab], stored'[tab] \o hand'[t] \o redis'[tab], mayDup')
  <2>1. stored[tab] \o hand[t] = stored[tab]
    BY <1>2, Regroup, ZenonT(30)
  <2>2. (stored[tab] \o rows) \o rest = stored[tab] \o (rows \o rest)
    BY <1>2, Regroup, ZenonT(30)
  <2>3. stored'[tab] \o hand'[t] \o redis'[tab] = stored[tab] \o hand[t] \o redis[tab]
    BY <1>5, <1>8, <2>1, <2>2, SMTT(30)
  <2>4. QED  BY <1>6, <1>12, <2>3
<1>13. hand'[t] # <<>> => pc'[t] \in AtHand /\ Table(t)' = tab
  BY <1>8, <1>9 DEF AtHand
<1>14. pc'[t] \notin {"pipe", "residual"} /\ Len(hand'[t]) <= BatchSize
  BY <1>5, <1>8, <1>9
<1>15. ToSet(stored'[tab]) \cup ToSet(hand'[t]) \cup ToSet(redis'[tab])
         \subseteq ToSet(stored[tab]) \cup ToSet(hand[t]) \cup ToSet(redis[tab])
  BY <1>8, <1>11
<1>16. Calm' /\ PushedOnce' /\ Entered' /\ Lines'
  BY <1>1, <1>2, <1>6, <1>7, <1>8, <1>12, <1>13, <1>14, <1>15, FlusherOrder DEF Ordered
<1>17. QED  BY <1>10, <1>16 DEF Ordered

\* A flusher that is done with its rows goes on to the next table.
LEMMA HandsDown ==
  ASSUME TypeOK, TypeOK', FlushersBounded, Ordered, NEW t \in Flushers, NEW tab \in Tables,
         tab = Table(t), pc[t] \in AtHand, NextTable(t), Holds(t, <<>>), item' = item,
         \A v \in Tables \ {tab} : redis'[v] = redis[v] /\ stored'[v] = stored[v],
         UNCHANGED <<mem, down, accepted, entered, breaks, mayDup>>,
         Len(redis'[tab]) <= Len(redis[tab]) + BatchSize,
         ToSet(stored'[tab]) \cup ToSet(redis'[tab])
           \subseteq ToSet(stored[tab]) \cup ToSet(hand[t]) \cup ToSet(redis[tab]),
         InOrder(entered[tab], stored[tab] \o hand[t] \o redis[tab], mayDup) =>
           InOrder(entered[tab], stored'[tab] \o <<>> \o redis'[tab], mayDup)
  PROVE  Ordered'
<1>1. OthersRest(t) /\ pc'[t] \in {"table", "release"}
  BY FlusherGoes, NextTableGoes
<1>2. t \in Threads /\ hand'[t] = <<>>
  BY DEF Holds, TypeOK, LocalTypes, Threads
<1>3. pc[t] # "idle" /\ pc'[t] \notin AtHand
  BY <1>1 DEF AtHand
<1>4. Sized'
  BY <1>1, <1>3, FlusherSized DEF Ordered
<1>5. Len(hand'[t]) <= BatchSize /\ ToSet(hand'[t]) = {}
  BY <1>2, ToSetEmpty, PipelineAssumption
<1>6. Calm' /\ PushedOnce' /\ Entered' /\ Lines'
  <2>1. /\ pc'[t] \notin {"pipe", "residual"}
        /\ hand'[t] # <<>> => pc'[t] \in AtHand /\ Table(t)' = tab
        /\ mayDup \subseteq mayDup'
    BY <1>1, <1>2
  <2>2. ToSet(stored'[tab]) \cup ToSet(hand'[t]) \cup ToSet(redis'[tab])
          \subseteq ToSet(stored[tab]) \cup ToSet(hand[t]) \cup ToSet(redis[tab])
    BY <1>5
  <2>3. InOrder(entered[tab], stored[tab] \o hand[t] \o redis[tab], mayDup) =>
          InOrder(entered[tab], stored'[tab] \o hand'[t] \o redis'[tab], mayDup')
    BY <1>2
  <2>4. QED
    BY <1>1, <1>3, <1>5, <2>1, <2>2, <2>3, FlusherOrder DEF Ordered
<1>7. QED  BY <1>4, <1>6 DEF Ordered

LEMMA InsertSucceedsOrdered ==
  ASSUME TypeOK, TypeOK', FlushersBounded, Ordered, NEW t \in Flushers, InsertSucceeds(t)
  PROVE  Ordered'
<1>1. PICK tab \in Tables : tab = Table(t)
  BY ThreadFacts DEF Threads
<1>2. /\ stored[tab] \in Seq(Events) /\ redis[tab] \in Seq(Events) /\ hand[t] \in Seq(Events)
      /\ pc[t] \in AtHand
  BY RowsTyped DEF Threads, InsertSucceeds, AtHand
<1>3. /\ stored'[tab] = stored[tab] \o hand[t] /\ redis' = redis
      /\ \A v \in Tables \ {tab} : stored'[v] = stored[v]
  BY <1>1 DEF InsertSucceeds, TypeOK, BufferTypes, buffers
<1>4. ToSet(stored'[tab]) = ToSet(stored[tab]) \cup ToSet(hand[t])
  BY <1>2, <1>3, ToSetConcat
<1>5. PICK l \in Seq(Events) : l = stored[tab] \o hand[t]
  BY <1>2, ConcatProperties
<1>6. stored'[tab] \o <<>> \o redis'[tab] = stored[tab] \o hand[t] \o redis[tab]
  <2>1. l \o <<>> = l
    BY Regroup, ZenonT(30)
  <2>2. QED  BY <1>3, <1>5, <2>1
<1>7. Len(redis[tab]) <= Len(redis[tab]) + BatchSize
  BY <1>2, PipelineAssumption
<1>8. /\ NextTable(t) /\ Holds(t, <<>>) /\ item' = item
      /\ UNCHANGED <<mem, down, accepted, entered, breaks, mayDup>>
  BY DEF InsertSucceeds, buffers, ghosts
<1>9. QED  BY <1>1, <1>2, <1>3, <1>4, <1>6, <1>7, <1>8, HandsDown

LEMMA RequeueOrdered ==
  ASSUME TypeOK, TypeOK', FlushersBounded, Ordered, NEW t \in Flushers, Requeue(t)
  PROVE  Ordered'
<1>1. PICK tab \in Tables : tab = Table(t)
  BY ThreadFacts DEF Threads
<1>2. /\ stored[tab] \in Seq(Events) /\ redis[tab] \in Seq(Events) /\ hand[t] \in Seq(Events)
      /\ pc[t] \in AtHand
  BY RowsTyped DEF Threads, Requeue, AtHand
<1>3. /\ redis'[tab] = hand[t] \o redis[tab] /\ stored' = stored
      /\ \A v \in Tables \ {tab} : redis'[v] = redis[v]
  BY <1>1 DEF Requeue, PutBack, TypeOK, BufferTypes, sinks
<1>4. ToSet(redis'[tab]) = ToSet(hand[t]) \cup ToSet(redis[tab])
  BY <1>2, <1>3, ToSetConcat
<1>5. stored'[tab] \o <<>> \o redis'[tab] = stored[tab] \o hand[t] \o redis[tab]
  <2>1. stored[tab] \o <<>> = stored[tab]
    BY <1>2, Regroup, ZenonT(30)
  <2>2. stored[tab] \o hand[t] \o redis[tab] = stored[tab] \o (hand[t] \o redis[tab])
    BY <1>2, Regroup, ZenonT(30)
  <2>3. QED  BY <1>3, <2>1, <2>2, SMTT(30)
<1>6. Len(redis'[tab]) <= Len(redis[tab]) + BatchSize
  <2>1. Len(redis'[tab]) = Len(hand[t]) + Len(redis[tab])
    BY <1>2, <1>3, ConcatProperties
  <2>2. Len(hand[t]) <= BatchSize
    BY DEF Ordered, Calm, Threads
  <2>3. Len(hand[t]) \in Nat /\ Len(redis[tab]) \in Nat /\ BatchSize \in Nat
    BY <1>2, PipelineAssumption
  <2>4. QED  BY <2>1, <2>2, <2>3
<1>7. /\ NextTable(t) /\ Holds(t, <<>>) /\ item' = item
      /\ UNCHANGED <<mem, down, accepted, entered, breaks, mayDup>>
  BY DEF Requeue, ghosts
<1>8. QED  BY <1>1, <1>2, <1>3, <1>4, <1>5, <1>6, <1>7, HandsDown

LEMMA DeadLetterOrdered ==
  ASSUME TypeOK, TypeOK', FlushersBounded, Ordered, NEW t \in Flushers, DeadLetter(t)
  PROVE  Ordered'
<1>1. PICK tab \in Tables : tab = Table(t)
  BY ThreadFacts DEF Threads
<1>2. /\ stored[tab] \in Seq(Events) /\ redis[tab] \in Seq(Events) /\ hand[t] \in Seq(Events)
      /\ pc[t] \in AtHand
  BY RowsTyped DEF Threads, DeadLetter, AtHand
<1>3. redis' = redis /\ stored' = stored
  BY DEF DeadLetter, buffers
<1>4. Len(redis[tab]) <= Len(redis[tab]) + BatchSize
  BY <1>2, PipelineAssumption
<1>5. /\ NextTable(t) /\ Holds(t, <<>>) /\ item' = item
      /\ UNCHANGED <<mem, down, accepted, entered, breaks, mayDup>>
  BY DEF DeadLetter, buffers, marks
<1>6. InOrder(entered[tab], stored[tab] \o hand[t] \o redis[tab], mayDup) =>
        InOrder(entered[tab], stored'[tab] \o <<>> \o redis'[tab], mayDup)
  BY <1>2, <1>3, ShorterLine
<1>7. QED  BY <1>1, <1>2, <1>3, <1>4, <1>5, <1>6, HandsDown

\* The rows of a failed insert are copies when ClickHouse has them.
LEMMA InsertFailsOrdered ==
  ASSUME TypeOK, TypeOK', FlushersBounded, Ordered, NEW t \in Flushers, InsertFails(t)
  PROVE  Ordered'
<1>1. PICK tab \in Tables : tab = Table(t)
  BY ThreadFacts DEF Threads
<1>2. /\ stored[tab] \in Seq(Events) /\ redis[tab] \in Seq(Events) /\ hand[t] \in Seq(Events)
      /\ pc[t] = "insert" /\ t \in Threads
  BY RowsTyped DEF Threads, InsertFails
<1>3. /\ Goto(t, "requeue") /\ item' = item /\ hand' = hand /\ ti' = ti /\ redis' = redis
      /\ UNCHANGED <<mem, down, accepted, entered, breaks>>
  BY DEF InsertFails, buffers, marks
<1>4. OthersRest(t)
  BY <1>3, FlusherGoes
<1>5. pc'[t] = "requeue" /\ {pc[t], pc'[t]} \subseteq AtHand
  BY <1>2, <1>3 DEF Goto, TypeOK, LocalTypes, AtHand
<1>6. CASE stored' = stored /\ mayDup' = mayDup
  <2>1. breaks' = 0 => breaks = 0
    BY <1>3
  <2>2. QED  BY <1>3, <1>4, <1>5, <1>6, <2>1, FlusherStill
<1>7. CASE /\ stored' = [stored EXCEPT ![tab] = @ \o hand[t]]
           /\ mayDup' = mayDup \cup ToSet(hand[t])
  <2>1. /\ stored'[tab] = stored[tab] \o hand[t]
        /\ \A v \in Tables \ {tab} : stored'[v] = stored[v]
    BY <1>7 DEF TypeOK, BufferTypes
  <2>2. ToSet(stored'[tab]) = ToSet(stored[tab]) \cup ToSet(hand[t])
    BY <1>2, <2>1, ToSetConcat
  <2>3. ASSUME InOrder(entered[tab], stored[tab] \o hand[t] \o redis[tab], mayDup)
        PROVE  InOrder(entered[tab], stored'[tab] \o hand'[t] \o redis'[tab], mayDup')
    <3>1. PICK l \in Seq(Events) : l = stored[tab] \o hand[t]
      BY <1>2, ConcatProperties
    <3>2. InOrder(entered[tab], l \o redis[tab], mayDup')
      BY <1>7, <2>3, <3>1, MoreCopies
    <3>3. InOrder(entered[tab], l, mayDup') /\ InOrder(entered[tab], redis[tab], mayDup')
          /\ AllBefore(entered[tab], l, redis[tab], mayDup')
      BY <1>2, <3>2, ConcatInOrder
    <3>4. ToSet(hand[t]) \subseteq mayDup'
      BY <1>7
    <3>5. InOrder(entered[tab], hand[t], mayDup')
          /\ AllBefore(entered[tab], l, hand[t], mayDup')
          /\ AllBefore(entered[tab], hand[t], redis[tab], mayDup')
      BY <1>2, <3>4, CopiesInOrder
    <3>6. InOrder(entered[tab], l \o hand[t] \o redis[tab], mayDup')
      BY <1>2, <3>3, <3>5, LineInOrder
    <3>7. QED  BY <1>3, <2>1, <3>1, <3>6
  <2>4. Sized'
    <3>1. Len(redis'[tab]) <= Len(redis[tab])
      <4>1. Len(redis[tab]) \in Nat
        BY <1>2
      <4>2. QED  BY <1>3, <4>1
    <3>2. Table(t)' = tab
      BY <1>1, <1>3 DEF Table
    <3>3. QED  BY <1>1, <1>3, <1>4, <1>5, <3>1, <3>2, FlusherSized DEF Ordered
  <2>5. Calm' /\ PushedOnce' /\ Entered' /\ Lines'
    <3>1. Table(t)' = tab /\ pc[t] # "idle" /\ pc'[t] \notin {"pipe", "residual"}
      BY <1>1, <1>2, <1>3, <1>5 DEF Table
    <3>2. Len(hand'[t]) <= BatchSize /\ pc'[t] \in AtHand /\ mayDup \subseteq mayDup'
      BY <1>2, <1>3, <1>5, <1>7 DEF Ordered, Calm
    <3>3. ToSet(stored'[tab]) \cup ToSet(hand'[t]) \cup ToSet(redis'[tab])
            \subseteq ToSet(stored[tab]) \cup ToSet(hand[t]) \cup ToSet(redis[tab])
      BY <1>3, <2>2
    <3>4. \A v \in Tables \ {tab} : redis'[v] = redis[v] /\ stored'[v] = stored[v]
      BY <1>3, <2>1
    <3>5. QED
      BY <1>1, <1>3, <1>4, <2>3, <3>1, <3>2, <3>3, <3>4, FlusherOrder DEF Ordered
  <2>6. QED  BY <2>4, <2>5 DEF Ordered
<1>8. QED  BY <1>1, <1>6, <1>7 DEF InsertFails

-----------------------------------------------------------------------------
(* The steps of a pushing thread *)

LEMMA PusherApart ==
  ASSUME NEW t \in Pushers
  PROVE  t \in Threads /\ t \notin Flushers /\ \A u \in Flushers : u \in Threads \ {t}
BY PipelineAssumption DEF Threads

\* A pushing thread leaves the flushers and their rooms alone.
LEMMA PusherRests ==
  ASSUME NEW t \in Pushers, OthersRest(t)
  PROVE  /\ Active' = Active /\ \A v \in Tables : Free(v)' = Free(v)
         /\ \A u \in Flushers : hand'[u] = hand[u] /\ Table(u)' = Table(u)
         /\ Trimmers \ {t} \subseteq Trimmers' /\ Trimmers' \subseteq Trimmers \cup {t}
         /\ \A v \in Tables : /\ Trimming(v) \ {t} \subseteq Trimming(v)'
                              /\ Trimming(v)' \subseteq Trimming(v) \cup {t}
<1>1. \A u \in Flushers : pc'[u] = pc[u] /\ hand'[u] = hand[u] /\ Table(u)' = Table(u)
  BY PusherApart DEF OthersRest, Table
<1>2. \A u \in Pushers \ {t} : pc'[u] = pc[u] /\ item'[u] = item[u]
  BY DEF OthersRest, Threads
<1>3. Active' = Active /\ \A v \in Tables : Free(v)' = Free(v)
  BY <1>1 DEF Active, Free
<1>4. Trimmers \ {t} \subseteq Trimmers' /\ Trimmers' \subseteq Trimmers \cup {t}
  BY <1>2 DEF Trimmers
<1>5. ASSUME NEW v \in Tables
      PROVE  Trimming(v) \ {t} \subseteq Trimming(v)' /\ Trimming(v)' \subseteq Trimming(v) \cup {t}
  <2>1. \A u \in Trimmers \ {t} : item'[u] = item[u]
    BY <1>2 DEF Trimmers
  <2>2. \A u \in Trimmers' \ {t} : item'[u] = item[u]
    BY <1>2 DEF Trimmers
  <2>3. QED  BY <1>4, <2>1, <2>2 DEF Trimming, ItemTable
<1>6. QED  BY <1>1, <1>3, <1>4, <1>5

\* An accepted event becomes the payload of its thread.
LEMMA PushDrainOrdered ==
  ASSUME TypeOK, TypeOK', Ordered, NEW t \in Pushers, NEW e \in Events, PushDrain(t, e)
  PROVE  Ordered'
<1>1. t \in Threads /\ ProcOf[t] \in Procs /\ TableOf[e] \in Tables /\ t \notin Flushers
  BY PusherApart, PipelineAssumption
<1>2. mem[ProcOf[t]][TableOf[e]] = <<>> /\ hand[t] = <<>>
  BY <1>1 DEF Ordered, Calm
<1>3. mem' = [mem EXCEPT ![ProcOf[t]][TableOf[e]] = <<>>] /\ hand' = [hand EXCEPT ![t] = <<>>]
  BY <1>2 DEF PushDrain, Holds, Memory
<1>4. mem' = mem /\ hand' = hand
  <2>1. PICK p \in Procs : p = ProcOf[t]
    BY <1>1
  <2>2. PICK tab \in Tables : tab = TableOf[e]
    BY <1>1
  <2>3. mem \in [Procs -> [Tables -> Seq(Events)]] /\ hand \in [Threads -> Seq(Events)]
    BY DEF TypeOK, BufferTypes, LocalTypes
  <2>4. PICK list : list = mem[p]
    OBVIOUS
  <2>5. [list EXCEPT ![tab] = <<>>] = list
    BY <1>2, <2>1, <2>2, <2>3, <2>4
  <2>6. mem' = [mem EXCEPT ![p] = [list EXCEPT ![tab] = <<>>]]
    BY <1>3, <2>1, <2>2, <2>4
  <2>7. mem' = mem
    BY <2>3, <2>4, <2>5, <2>6
  <2>8. hand' = hand
    BY <1>1, <1>2, <1>3, <2>3
  <2>9. QED  BY <2>7, <2>8
<1>5. /\ pc[t] = "idle" /\ e \notin accepted /\ accepted' = accepted \cup {e}
      /\ pc' = [pc EXCEPT ![t] = "pipe"] /\ item' = [item EXCEPT ![t] = e] /\ ti' = ti
      /\ UNCHANGED <<redis, down, stored, mayDup, entered, breaks>>
  BY DEF PushDrain, Goto, sinks
<1>6. OthersRest(t) /\ pc'[t] = "pipe" /\ item'[t] = e
  BY <1>1, <1>4, <1>5 DEF OthersRest, TypeOK, LocalTypes
<1>7. Calm'
  <2>1. \A p \in Procs : ~down'[p] /\ \A tab \in Tables : mem'[p][tab] = <<>>
    BY <1>4, <1>5 DEF Ordered, Calm
  <2>2. ASSUME NEW u \in Threads
        PROVE  /\ pc'[u] # "residual" /\ Len(hand'[u]) <= BatchSize
               /\ hand'[u] # <<>> => u \in Flushers /\ pc'[u] \in AtHand
    <3>1. /\ pc[u] # "residual" /\ Len(hand[u]) <= BatchSize
          /\ hand[u] # <<>> => u \in Flushers /\ pc[u] \in AtHand
      BY DEF Ordered, Calm
    <3>2. CASE u = t
      BY <1>2, <1>4, <1>6, <3>1, <3>2
    <3>3. CASE u # t
      BY <1>4, <1>6, <3>1, <3>3 DEF OthersRest
    <3>4. QED  BY <3>2, <3>3
  <2>3. QED  BY <2>1, <2>2 DEF Calm
<1>8. Sized'
  <2>1. t \notin Trimmers /\ t \notin Trimmers'
    BY <1>5, <1>6 DEF Trimmers
  <2>2. Trimmers' = Trimmers /\ \A v \in Tables : Trimming(v)' = Trimming(v)
    BY <1>6, <2>1, PusherRests DEF Trimming
  <2>3. \A v \in Tables : Free(v)' = Free(v)
    BY <1>6, PusherRests
  <2>4. QED  BY <1>5, <2>2, <2>3 DEF Ordered, Sized
<1>9. PushedOnce'
  <2>1. \A v \in Tables : ToSet(entered[v]) \subseteq accepted /\ e \notin ToSet(entered[v])
    BY <1>5 DEF Ordered, PushedOnce
  <2>2. \A u \in Threads : pc[u] = "pipe" => item[u] # e
    BY <1>5 DEF Ordered, PushedOnce
  <2>3. \A u \in Threads \ {t} : pc'[u] = pc[u] /\ item'[u] = item[u]
    BY <1>6 DEF OthersRest
  <2>4. \A v \in Tables : ToSet(entered'[v]) \subseteq accepted' /\ IsInjective(entered'[v])
    BY <1>5 DEF Ordered, PushedOnce
  <2>5. ASSUME NEW u \in Threads, pc'[u] = "pipe"
        PROVE  /\ item'[u] \in accepted'
               /\ \A v \in Tables : item'[u] \notin ToSet(entered'[v])
               /\ \A w \in Threads \ {u} : pc'[w] = "pipe" => item'[w] # item'[u]
    <3>1. CASE u = t
      BY <1>5, <1>6, <2>1, <2>2, <2>3, <3>1
    <3>2. CASE u # t
      BY <1>5, <1>6, <2>2, <2>3, <2>5, <3>2 DEF Ordered, PushedOnce
    <3>3. QED  BY <3>1, <3>2
  <2>6. QED  BY <2>4, <2>5 DEF PushedOnce
<1>10. Entered' /\ Lines'
  <2>1. /\ Active' = Active
        /\ \A u \in Flushers : hand'[u] = hand[u] /\ Table(u)' = Table(u)
    BY <1>6, PusherRests
  <2>2. Active \subseteq Flushers
    BY DEF Active
  <2>3. QED  BY <1>5, <2>1, <2>2 DEF Ordered, Entered, Lines, Line
<1>11. QED  BY <1>7, <1>8, <1>9, <1>10 DEF Ordered

LEMMA NextInLine ==
  ASSUME NEW a \in Seq(Events), NEW b \in Seq(Events), NEW e \in Events
  PROVE  (a \o b) \o <<e>> = a \o (b \o <<e>>)
<1>1. <<e>> \in Seq(Events)
  OBVIOUS
<1>2. PICK next \in Seq(Events) : next = <<e>>
  BY <1>1
<1>3. (a \o b) \o next = a \o (b \o next)
  BY Regroup
<1>4. QED  BY <1>2, <1>3

\* A payload goes to the end of the list.
LEMMA PushPipelineOrdered ==
  ASSUME TypeOK, TypeOK', Ordered, ~shaken, NEW t \in Pushers, PushPipeline(t)
  PROVE  Ordered'
<1>0. t \in Threads /\ t \notin Flushers /\ pc[t] = "pipe"
  BY PusherApart DEF PushPipeline
<1>1. PICK e \in Events : e = item[t]
  BY <1>0 DEF TypeOK, LocalTypes
<1>2. PICK tab \in Tables : tab = ItemTable(t)
  BY <1>0, <1>1, ThreadFacts
<1>3. hand[t] = <<>> /\ Append(hand[t], item[t]) = <<e>>
  <2>1. hand[t] = <<>>
    BY <1>0 DEF Ordered, Calm
  <2>2. Append(<<>>, e) = <<e>>
    BY <1>1
  <2>3. QED  BY <1>1, <2>1, <2>2
<1>4. redis[tab] \in Seq(Events) /\ stored[tab] \in Seq(Events) /\ entered[tab] \in Seq(Events)
  BY <1>0, RowsTyped
<1>5. PICK list \in Seq(Events) : list = redis[tab] \o <<e>>
  <2>1. <<e>> \in Seq(Events)
    OBVIOUS
  <2>2. redis[tab] \o <<e>> \in Seq(Events)
    BY <1>4, <2>1, ConcatProperties
  <2>3. QED  BY <2>2
<1>6. entered[tab] \o <<e>> = Append(entered[tab], e) /\ Len(list) = Len(redis[tab]) + 1
  BY <1>4, <1>5, AppendIsConcat
<1>7. /\ redis' = [redis EXCEPT ![tab] = list]
      /\ entered' = [entered EXCEPT ![tab] = Append(entered[tab], e)]
      /\ UNCHANGED <<mem, down, stored, ti, accepted, mayDup, breaks>>
  BY <1>2, <1>3, <1>5, <1>6 DEF PushPipeline, Enters, sinks
<1>8. \/ /\ OverLimit(list) /\ pc' = [pc EXCEPT ![t] = "trim"] /\ item' = item
         /\ hand' = [hand EXCEPT ![t] = <<>>]
      \/ /\ ~OverLimit(list) /\ pc' = [pc EXCEPT ![t] = "idle"]
         /\ item' = [item EXCEPT ![t] = NoEvent] /\ hand' = [hand EXCEPT ![t] = <<>>]
  BY <1>2, <1>3, <1>5 DEF PushPipeline, PushReturns, Goto, Holds
<1>9. /\ OthersRest(t) /\ hand'[t] = <<>>
      /\ \/ OverLimit(list) /\ pc'[t] = "trim" /\ item'[t] = e
         \/ ~OverLimit(list) /\ pc'[t] = "idle"
      /\ redis'[tab] = list /\ entered'[tab] = Append(entered[tab], e)
      /\ \A v \in Tables \ {tab} : redis'[v] = redis[v] /\ entered'[v] = entered[v]
  <2>1. /\ redis'[tab] = list /\ entered'[tab] = Append(entered[tab], e)
        /\ \A v \in Tables \ {tab} : redis'[v] = redis[v] /\ entered'[v] = entered[v]
    BY <1>7 DEF TypeOK, BufferTypes, GhostTypes
  <2>2. OthersRest(t)
    BY <1>7, <1>8 DEF OthersRest, TypeOK, LocalTypes
  <2>3. /\ hand'[t] = <<>>
        /\ \/ OverLimit(list) /\ pc'[t] = "trim" /\ item'[t] = e
           \/ ~OverLimit(list) /\ pc'[t] = "idle"
    BY <1>0, <1>1, <1>8 DEF TypeOK, LocalTypes
  <2>4. QED  BY <2>1, <2>2, <2>3
<1>10. e \notin ToSet(entered[tab]) /\ e \in accepted
       /\ \A u \in Threads \ {t} : pc[u] = "pipe" => item[u] # e
  BY <1>0, <1>1 DEF Ordered, PushedOnce
<1>11. ToSet(entered'[tab]) = ToSet(entered[tab]) \cup {e}
  BY <1>4, <1>9, ToSetAppend
<1>12. Calm'
  <2>1. Len(hand'[t]) <= BatchSize
    BY <1>9, PipelineAssumption
  <2>2. QED  BY <1>7, <1>9, <2>1 DEF Ordered, Calm, OthersRest
<1>13. PushedOnce'
  <2>1. IsInjective(entered'[tab])
    <3>1. IsInjective(entered[tab])
      BY DEF Ordered, PushedOnce
    <3>2. PICK n \in Nat : n = Len(entered[tab])
      BY <1>4
    <3>3. /\ DOMAIN entered[tab] = 1..n /\ DOMAIN entered'[tab] = 1..(n + 1)
          /\ entered'[tab][n + 1] = e /\ \A i \in 1..n : entered'[tab][i] = entered[tab][i]
      BY <1>4, <1>9, <3>2
    <3>4. \A i \in 1..n : entered[tab][i] # e
      BY <1>10, <3>3 DEF ToSet
    <3>5. \A i \in 1..(n + 1) : i \in 1..n \/ i = n + 1
      BY <3>2
    <3>6. QED  BY <3>1, <3>3, <3>4, <3>5 DEF IsInjective
  <2>2. \A v \in Tables : ToSet(entered'[v]) \subseteq accepted' /\ IsInjective(entered'[v])
    BY <1>7, <1>9, <1>10, <1>11, <2>1 DEF Ordered, PushedOnce
  <2>3. ASSUME NEW u \in Threads, pc'[u] = "pipe"
        PROVE  u # t /\ pc[u] = "pipe" /\ item'[u] = item[u] /\ item[u] # e
    BY <1>9, <1>10, <2>3 DEF OthersRest
  <2>4. ASSUME NEW u \in Threads, pc'[u] = "pipe"
        PROVE  /\ item'[u] \in accepted'
               /\ \A v \in Tables : item'[u] \notin ToSet(entered'[v])
               /\ \A w \in Threads \ {u} : pc'[w] = "pipe" => item'[w] # item'[u]
    <3>1. item'[u] = item[u] /\ item[u] # e /\ pc[u] = "pipe"
      BY <2>3, <2>4
    <3>2. \A v \in Tables : item[u] \notin ToSet(entered'[v])
      BY <1>9, <1>11, <3>1 DEF Ordered, PushedOnce
    <3>3. \A w \in Threads \ {u} : pc'[w] = "pipe" => item'[w] # item'[u]
      BY <2>3, <3>1 DEF Ordered, PushedOnce
    <3>4. item'[u] \in accepted'
      BY <1>7, <3>1 DEF Ordered, PushedOnce
    <3>5. QED  BY <3>1, <3>2, <3>3, <3>4
  <2>5. QED  BY <2>2, <2>4 DEF PushedOnce
<1>14. ToSet(list) = ToSet(redis[tab]) \cup {e}
  <2>1. list = Append(redis[tab], e)
    BY <1>4, <1>5, AppendIsConcat
  <2>2. QED  BY <1>4, <2>1, ToSetAppend
<1>15. Entered'
  <2>1. ASSUME NEW v \in Tables
        PROVE  ToSet(stored'[v]) \cup ToSet(redis'[v]) \subseteq ToSet(entered'[v])
    BY <1>7, <1>9, <1>11, <1>14 DEF Ordered, Entered
  <2>2. \A u \in Flushers : hand'[u] = hand[u] /\ Table(u)' = Table(u) /\ Table(u) \in Tables
    BY <1>9, PusherRests, ThreadFacts DEF Threads
  <2>3. \A u \in Flushers : ToSet(hand'[u]) \subseteq ToSet(entered'[Table(u)'])
    BY <1>9, <1>11, <2>2 DEF Ordered, Entered
  <2>4. QED  BY <2>1, <2>3 DEF Entered
<1>16. Sized'
  <2>1. t \notin Trimmers /\ IsFiniteSet(Trimmers) /\ \A v \in Tables : Free(v)' = Free(v)
    BY <1>0, <1>9, PusherRests DEF Trimmers, Ordered, Sized
  <2>2. \A v \in Tables \ {tab} : t \notin Trimming(v)'
    <3>1. TableOf[e] = tab
      BY <1>1, <1>2 DEF ItemTable
    <3>2. t \in Trimmers' => item'[t] = e
      BY <1>9 DEF Trimmers
    <3>3. QED  BY <3>1, <3>2 DEF Trimming, ItemTable
  <2>3. \A v \in Tables \ {tab} : Trimming(v)' = Trimming(v)
    BY <1>9, <2>1, <2>2, PusherRests DEF Trimming
  <2>4. IsFiniteSet(Trimmers') /\ Trimmers' \subseteq Trimmers \cup {t}
    <3>1. Trimmers' \subseteq Trimmers \cup {t}
      BY <1>9, PusherRests
    <3>2. IsFiniteSet(Trimmers \cup {t})
      BY <2>1, FS_AddElement
    <3>3. QED  BY <3>1, <3>2, FS_Subset
  <2>5. ASSUME NEW v \in Tables \ {tab}
        PROVE  Len(redis'[v]) <= MaxSize + Cardinality(Trimming(v))' + BatchSize * Cardinality(Free(v))'
    <3>1. redis'[v] = redis[v] /\ Trimming(v)' = Trimming(v) /\ Free(v)' = Free(v)
      BY <1>9, <2>1, <2>3
    <3>2. QED  BY <3>1 DEF Ordered, Sized
  <2>6. CASE ~OverLimit(list)
    <3>1. Len(redis'[tab]) <= MaxSize
      <4>1. Len(list) \in Nat /\ MaxSize \in Nat
        BY PipelineAssumption
      <4>2. QED  BY <1>9, <2>6, <4>1 DEF OverLimit
    <3>2. IsFiniteSet(Trimming(tab)')
      <4>1. Trimming(tab)' \subseteq Trimmers'
        BY DEF Trimming
      <4>2. QED  BY <2>4, <4>1, FS_Subset
    <3>3. Len(redis'[tab]) <= MaxSize + Cardinality(Trimming(tab))'
                                 + BatchSize * Cardinality(Free(tab))'
      BY <3>1, <3>2, WithinLimit
    <3>4. QED  BY <2>4, <2>5, <3>3 DEF Sized
  <2>7. CASE OverLimit(list)
    <3>1. t \in Trimming(tab)'
      <4>1. t \in Trimmers' /\ item'[t] = e
        BY <1>9, <2>7 DEF Trimmers
      <4>2. QED  BY <1>1, <1>2, <4>1 DEF Trimming, ItemTable
    <3>2. Trimming(tab)' = Trimming(tab) \cup {t} /\ t \notin Trimming(tab)
      BY <1>9, <2>1, <3>1, PusherRests DEF Trimming
    <3>3. PICK c \in Nat : c = Cardinality(Trimming(tab))
      BY <2>1, TrimmingFinite
    <3>4. Cardinality(Trimming(tab)') = c + 1
      BY <2>1, <3>2, <3>3, TrimmingFinite, FS_AddElement
    <3>5. PICK r \in Nat : r = BatchSize * Cardinality(Free(tab))
      BY FreeFinite, Room
    <3>6. Len(redis[tab]) <= MaxSize + c + r
      BY <3>3, <3>5 DEF Ordered, Sized
    <3>7. Len(redis[tab]) \in Nat /\ MaxSize \in Nat
      BY <1>4, PipelineAssumption
    <3>8. Len(redis'[tab]) <= MaxSize + (c + 1) + r
      BY <1>6, <1>9, <3>6, <3>7
    <3>9. BatchSize * Cardinality(Free(tab))' = r
      BY <2>1, <3>5
    <3>10. Len(redis'[tab]) <= MaxSize + Cardinality(Trimming(tab))'
                                 + BatchSize * Cardinality(Free(tab))'
      BY <3>4, <3>8, <3>9
    <3>11. QED  BY <2>4, <2>5, <3>10 DEF Sized
  <2>8. QED  BY <2>6, <2>7
<1>17. Lines'
  <2>1. ASSUME NEW rows \in Seq(Events), ToSet(rows) \subseteq ToSet(entered[tab]),
               InOrder(entered[tab], Line(tab, rows), mayDup)
        PROVE  InOrder(entered'[tab], Line(tab, rows)', mayDup')
    <3>1. PICK l \in Seq(Events) : l = stored[tab] \o rows
      BY <1>4, ConcatProperties
    <3>2. PICK q \in Seq(Events) : q = l \o redis[tab]
      BY <1>4, ConcatProperties
    <3>3. ToSet(q) \subseteq ToSet(entered[tab])
      <4>1. ToSet(l) = ToSet(stored[tab]) \cup ToSet(rows)
        BY <1>4, <3>1, ToSetConcat
      <4>2. ToSet(q) = ToSet(l) \cup ToSet(redis[tab])
        BY <1>4, <3>2, ToSetConcat
      <4>3. ToSet(stored[tab]) \cup ToSet(redis[tab]) \subseteq ToSet(entered[tab])
        BY DEF Ordered, Entered
      <4>4. QED  BY <2>1, <4>1, <4>2, <4>3
    <3>4. InOrder(entered[tab], q, mayDup)
      BY <2>1, <3>1, <3>2 DEF Line
    <3>5. /\ InOrder(entered'[tab], q, mayDup) /\ InOrder(entered'[tab], <<e>>, mayDup)
          /\ AllBefore(entered'[tab], q, <<e>>, mayDup) /\ <<e>> \in Seq(Events)
      <4>1. e \in Events \ ToSet(entered[tab])
        BY <1>10
      <4>2. QED  BY <1>4, <1>9, <3>3, <3>4, <4>1, NextInOrder
    <3>6. InOrder(entered'[tab], q \o <<e>>, mayDup)
      BY <3>5, ConcatInOrder
    <3>7. q \o <<e>> = l \o list
      <4>1. PICK waiting \in Seq(Events) : waiting = redis[tab]
        BY <1>4
      <4>2. q = l \o waiting /\ list = waiting \o <<e>>
        BY <1>5, <3>2, <4>1
      <4>3. (l \o waiting) \o <<e>> = l \o (waiting \o <<e>>)
        BY NextInLine
      <4>4. QED  BY <4>2, <4>3
    <3>8. Line(tab, rows)' = stored'[tab] \o rows \o redis'[tab]
      BY DEF Line
    <3>9. Line(tab, rows)' = l \o list /\ mayDup' = mayDup
      BY <1>7, <1>9, <3>1, <3>8
    <3>10. QED  BY <3>6, <3>7, <3>9
  <2> SUFFICES ASSUME breaks = 0, NEW v \in Tables
               PROVE  /\ InOrder(entered'[v], Line(v, <<>>)', mayDup')
                      /\ \A u \in Active :
                           Table(u) = v => InOrder(entered'[v], Line(v, hand[u])', mayDup')
    <3>1. /\ Active' = Active /\ Active \subseteq Flushers
          /\ \A u \in Flushers : hand'[u] = hand[u] /\ Table(u)' = Table(u)
      BY <1>9, PusherRests DEF Active
    <3>2. QED  BY <1>7, <3>1 DEF Lines, Line
  <2>2. CASE v # tab
    <3>1. redis'[v] = redis[v] /\ entered'[v] = entered[v] /\ stored' = stored /\ mayDup' = mayDup
      BY <1>7, <1>9, <2>2
    <3>2. InOrder(entered[v], stored[v] \o <<>> \o redis[v], mayDup)
      BY DEF Ordered, Lines, Line
    <3>3. ASSUME NEW u \in Active, Table(u) = v
          PROVE  InOrder(entered'[v], stored'[v] \o hand'[u] \o redis'[v], mayDup')
      <4>1. InOrder(entered[v], stored[v] \o hand[u] \o redis[v], mayDup)
        BY <3>3 DEF Ordered, Lines, Line
      <4>2. hand'[u] = hand[u]
        BY <1>9, PusherRests DEF Active
      <4>3. QED  BY <3>1, <4>1, <4>2
    <3>4. \A u \in Active : hand'[u] = hand[u]
      BY <1>9, PusherRests DEF Active
    <3>5. QED  BY <3>1, <3>2, <3>3, <3>4 DEF Line
  <2>3. CASE v = tab
    <3>1. InOrder(entered[tab], Line(tab, <<>>), mayDup)
      BY DEF Ordered, Lines
    <3>2. InOrder(entered'[tab], Line(tab, <<>>)', mayDup')
      BY <2>1, <3>1, EmptyInOrder
    <3>3. ASSUME NEW u \in Active, Table(u) = tab
          PROVE  InOrder(entered'[tab], Line(tab, hand[u])', mayDup')
      <4>1. u \in Flushers /\ u \in Threads
        BY DEF Active, Threads
      <4>2. PICK rows \in Seq(Events) : rows = hand[u]
        BY <4>1, RowsTyped
      <4>3. ToSet(rows) \subseteq ToSet(entered[tab]) /\ InOrder(entered[tab], Line(tab, rows), mayDup)
        BY <3>3, <4>1, <4>2 DEF Ordered, Entered, Lines
      <4>4. InOrder(entered'[tab], stored'[tab] \o rows \o redis'[tab], mayDup')
        BY <2>1, <4>3 DEF Line
      <4>5. hand'[u] = rows
        BY <1>9, <4>1, <4>2, PusherRests
      <4>6. QED  BY <4>4, <4>5 DEF Line
    <3>4. QED  BY <2>3, <3>2, <3>3
  <2>4. QED  BY <2>2, <2>3
<1>18. QED  BY <1>12, <1>13, <1>15, <1>16, <1>17 DEF Ordered

\* LTRIM takes the list back to its limit; the pushers about to trim are one less.
LEMMA PushTrimOrdered ==
  ASSUME TypeOK, TypeOK', Ordered, NEW t \in Pushers, PushTrim(t)
  PROVE  Ordered'
<1>0. t \in Threads /\ t \notin Flushers /\ pc[t] = "trim"
  BY PusherApart DEF PushTrim
<1>1. PICK e \in Events : e = item[t]
  BY <1>0 DEF TypeOK, LocalTypes
<1>2. PICK tab \in Tables : tab = ItemTable(t)
  BY <1>0, <1>1, ThreadFacts
<1>3. redis[tab] \in Seq(Events) /\ stored[tab] \in Seq(Events) /\ entered[tab] \in Seq(Events)
  BY <1>0, RowsTyped
<1>4. PICK list \in Seq(Events) : list = KeepLast(redis[tab], MaxSize)
  BY <1>3, NewestInOrder
<1>5. /\ redis' = [redis EXCEPT ![tab] = list]
      /\ pc' = [pc EXCEPT ![t] = "idle"] /\ hand' = [hand EXCEPT ![t] = <<>>]
      /\ item' = [item EXCEPT ![t] = NoEvent]
      /\ UNCHANGED <<mem, down, stored, ti, accepted, entered, mayDup, breaks>>
  BY <1>2, <1>4 DEF PushTrim, PushReturns, Goto, Holds, sinks, marks
<1>6. /\ OthersRest(t) /\ hand'[t] = <<>> /\ pc'[t] = "idle" /\ redis'[tab] = list
      /\ \A v \in Tables \ {tab} : redis'[v] = redis[v]
  BY <1>0, <1>5 DEF OthersRest, TypeOK, BufferTypes, LocalTypes
<1>7. Len(list) <= MaxSize /\ ToSet(list) \subseteq ToSet(redis[tab])
  BY <1>3, <1>4, NewestInOrder
<1>8. /\ Active' = Active /\ Active \subseteq Flushers
      /\ \A u \in Flushers : hand'[u] = hand[u] /\ Table(u)' = Table(u)
  BY <1>6, PusherRests DEF Active
<1>9. Calm'
  <2>1. Len(hand'[t]) <= BatchSize
    BY <1>6, PipelineAssumption
  <2>2. QED  BY <1>5, <1>6, <2>1 DEF Ordered, Calm, OthersRest
<1>10. PushedOnce'
  <2>1. \A u \in Threads : pc'[u] = "pipe" => u # t /\ pc[u] = "pipe" /\ item'[u] = item[u]
    BY <1>6 DEF OthersRest
  <2>2. QED  BY <1>5, <2>1 DEF Ordered, PushedOnce
<1>11. Entered'
  <2>1. \A v \in Tables : ToSet(redis'[v]) \subseteq ToSet(redis[v])
    BY <1>6, <1>7
  <2>2. QED  BY <1>5, <1>8, <2>1 DEF Ordered, Entered
<1>12. Sized'
  <2>1. /\ IsFiniteSet(Trimmers) /\ Trimmers' \subseteq Trimmers
        /\ \A v \in Tables : Free(v)' = Free(v) /\ IsFiniteSet(Free(v)')
    <3>1. t \in Trimmers /\ IsFiniteSet(Trimmers)
      BY <1>0 DEF Trimmers, Ordered, Sized
    <3>2. QED  BY <1>6, <3>1, PusherRests, FreeFinite
  <2>2. IsFiniteSet(Trimmers') /\ \A v \in Tables : IsFiniteSet(Trimming(v)')
    <3>1. IsFiniteSet(Trimmers') /\ \A v \in Tables : Trimming(v)' \subseteq Trimmers'
      BY <2>1, FS_Subset DEF Trimming
    <3>2. QED  BY <3>1, FS_Subset
  <2>3. ASSUME NEW v \in Tables \ {tab} PROVE Trimming(v)' = Trimming(v)
    <3>1. t \notin Trimming(v)
      BY <1>2 DEF Trimming
    <3>2. t \notin Trimming(v)'
      BY <1>6 DEF Trimming, Trimmers
    <3>3. QED  BY <1>6, <3>1, <3>2, PusherRests
  <2>4. ASSUME NEW v \in Tables \ {tab}
        PROVE  Len(redis'[v]) <= MaxSize + Cardinality(Trimming(v))' + BatchSize * Cardinality(Free(v))'
    <3>1. redis'[v] = redis[v] /\ Trimming(v)' = Trimming(v) /\ Free(v)' = Free(v)
      BY <1>6, <2>1, <2>3
    <3>2. QED  BY <3>1 DEF Ordered, Sized
  <2>5. Len(redis'[tab]) <= MaxSize + Cardinality(Trimming(tab))'
                               + BatchSize * Cardinality(Free(tab))'
    BY <1>6, <1>7, <2>2, WithinLimit
  <2>6. QED  BY <2>2, <2>4, <2>5 DEF Sized
<1>13. Lines'
  <2>1. ASSUME NEW rows \in Seq(Events), InOrder(entered[tab], Line(tab, rows), mayDup)
        PROVE  InOrder(entered[tab], stored[tab] \o rows \o list, mayDup)
    <3>1. /\ InOrder(entered[tab], stored[tab], mayDup) /\ InOrder(entered[tab], rows, mayDup)
          /\ InOrder(entered[tab], redis[tab], mayDup)
          /\ AllBefore(entered[tab], stored[tab], rows, mayDup)
          /\ AllBefore(entered[tab], stored[tab], redis[tab], mayDup)
          /\ AllBefore(entered[tab], rows, redis[tab], mayDup)
      BY <1>3, <2>1, LineInOrder DEF Line
    <3>2. InOrder(entered[tab], list, mayDup)
      BY <1>3, <1>4, <3>1, NewestInOrder
    <3>3. /\ AllBefore(entered[tab], stored[tab], list, mayDup)
          /\ AllBefore(entered[tab], rows, list, mayDup)
      BY <1>7, <3>1 DEF AllBefore
    <3>4. QED  BY <1>3, <3>1, <3>2, <3>3, LineInOrder
  <2> SUFFICES ASSUME breaks = 0, NEW v \in Tables
               PROVE  /\ InOrder(entered[v], stored[v] \o <<>> \o redis'[v], mayDup)
                      /\ \A u \in Active :
                           Table(u) = v => InOrder(entered[v], stored[v] \o hand[u] \o redis'[v], mayDup)
    BY <1>5, <1>8 DEF Lines, Line
  <2>2. InOrder(entered[v], Line(v, <<>>), mayDup)
    BY DEF Ordered, Lines
  <2>3. ASSUME NEW u \in Active, Table(u) = v
        PROVE  hand[u] \in Seq(Events) /\ InOrder(entered[v], Line(v, hand[u]), mayDup)
    BY <1>8, <2>3, RowsTyped DEF Ordered, Lines, Threads
  <2>4. CASE v # tab
    <3>1. redis'[v] = redis[v]
      BY <1>6, <2>4
    <3>2. QED  BY <2>2, <2>3, <3>1 DEF Line
  <2>5. CASE v = tab
    <3>1. redis'[v] = list
      BY <1>6, <2>5
    <3>2. InOrder(entered[v], stored[v] \o <<>> \o redis'[v], mayDup)
      BY <2>1, <2>2, <2>5, <3>1, EmptyInOrder
    <3>3. ASSUME NEW u \in Active, Table(u) = v
          PROVE  InOrder(entered[v], stored[v] \o hand[u] \o redis'[v], mayDup)
      BY <2>1, <2>3, <2>5, <3>1, <3>3
    <3>4. QED  BY <3>2, <3>3
  <2>6. QED  BY <2>4, <2>5
<1>14. QED  BY <1>9, <1>10, <1>11, <1>12, <1>13 DEF Ordered

-----------------------------------------------------------------------------
(* Order and size, kept by every step *)

\* A key expires.
LEMMA ExpiryOrdered ==
  ASSUME TypeOK, TypeOK', Ordered, LockExpires \/ CircuitExpires
  PROVE  Ordered'
<1>1. UNCHANGED <<redis, mem, down, stored, item, hand, accepted, mayDup, entered, pc, ti>>
  BY DEF LockExpires, CircuitExpires, buffers, sinks, local, ghosts
<1>2. breaks' = 0 => breaks = 0
  BY DEF LockExpires, CircuitExpires, ghosts, TypeOK, GhostTypes
<1>3. \A u \in Flushers : /\ pc[u] # "residual" /\ Table(u)' = Table(u)
                          /\ hand[u] # <<>> => pc[u] \in AtHand
  BY <1>1 DEF Ordered, Calm, Threads, Table
<1>4. QED  BY <1>1, <1>2, <1>3, StillOrder DEF Ordered

\* While no Redis call fails, no thread falls back to memory or drops its rows.
LEMMA PusherOrdered ==
  ASSUME TypeOK, TypeOK', Ordered, ~shaken, ~shaken', NEW t \in Pushers, Push(t)
  PROVE  Ordered'
<1>1. t \in Threads /\ ProcOf[t] \in Procs /\ ~down[ProcOf[t]]
  BY PusherApart, PipelineAssumption DEF Ordered, Calm
<1>2. ~PushPipelineFails(t) /\ ~PushTrimFails(t) /\ \A e \in Events : ~PushToMemory(t, e)
  BY <1>1 DEF PushPipelineFails, PushTrimFails, RedisFault, PushToMemory
<1>3. QED
  BY <1>2, PushDrainOrdered, PushPipelineOrdered, PushTrimOrdered DEF Push

LEMMA FlusherOrdered ==
  ASSUME TypeOK, TypeOK', FlushersBounded, Ordered, ~shaken', NEW t \in Flushers,
         FlushBegins(t) \/ FlushStep(t) \/ FlushFailure(t)
  PROVE  Ordered'
<1>1. t \in Threads /\ ProcOf[t] \in Procs /\ ~down[ProcOf[t]] /\ pc[t] # "residual"
  BY PipelineAssumption DEF Threads, Ordered, Calm
<1>2. /\ ~PopMemory(t) /\ ~PopResidual(t) /\ ~RequeueToMemory(t) /\ ~DeadLetterDropped(t)
  BY <1>1 DEF PopMemory, PopResidual, RequeueToMemory, DeadLetterDropped
<1>3. ~PopResidualFails(t) /\ ~PopBatchFails(t) /\ ~RequeueFails(t) /\ ~DeadLetterFails(t)
  BY DEF PopResidualFails, PopBatchFails, RequeueFails, DeadLetterFails, RedisFault
<1>4. CASE \/ FlushBegins(t) \/ FlushBeginsUnlocked(t) \/ SkipTable(t)
           \/ InsertRejected(t) \/ FlushEnds(t) \/ FlushEndsFails(t)
  BY <1>4, BeginsOrdered
<1>5. CASE PopDrain(t) \/ PopBatch(t)
  BY <1>5, PopDrainOrdered, PopBatchOrdered
<1>6. CASE InsertSucceeds(t) \/ InsertFails(t)
  BY <1>6, InsertSucceedsOrdered, InsertFailsOrdered
<1>7. CASE Requeue(t) \/ DeadLetter(t)
  BY <1>7, RequeueOrdered, DeadLetterOrdered
<1>8. QED  BY <1>2, <1>3, <1>4, <1>5, <1>6, <1>7 DEF FlushStep, FlushFailure

LEMMA OrderInit == Init => OrderInv
<1> SUFFICES ASSUME Init PROVE Ordered
  BY DEF OrderInv, Ordered
<1>1. TypeOK
  BY InitTyped
<1>2. Calm /\ Active = {} /\ Trimmers = {}
  BY PipelineAssumption DEF Init, Calm, Active, Trimmers, Threads
<1>3. PushedOnce /\ Entered
  <2>1. ToSet(<<>>) = {} /\ IsInjective(<<>>)
    BY ToSetEmpty DEF IsInjective
  <2>2. \A u \in Flushers : Table(u) \in Tables
    BY <1>1, ThreadFacts DEF Threads
  <2>3. PushedOnce
    BY <2>1 DEF Init, PushedOnce
  <2>4. Entered
    BY <2>1, <2>2 DEF Init, Entered, Threads
  <2>5. QED  BY <2>3, <2>4
<1>4. Sized
  <2>1. IsFiniteSet(Trimmers)
    BY <1>2, FS_EmptySet
  <2>2. ASSUME NEW v \in Tables
        PROVE  Len(redis[v]) <= MaxSize + Cardinality(Trimming(v)) + BatchSize * Cardinality(Free(v))
    <3>1. PICK c \in Nat : c = Cardinality(Trimming(v))
      BY <2>1, TrimmingFinite
    <3>2. PICK r \in Nat : r = BatchSize * Cardinality(Free(v))
      BY FreeFinite, Room
    <3>3. Len(redis[v]) = 0 /\ MaxSize \in Nat
      BY PipelineAssumption DEF Init
    <3>4. QED  BY <3>1, <3>2, <3>3
  <2>3. QED  BY <2>1, <2>2 DEF Sized
<1>5. Lines
  <2>1. ASSUME NEW v \in Tables PROVE InOrder(entered[v], Line(v, <<>>), mayDup)
    <3>1. stored[v] = <<>> /\ redis[v] = <<>>
      BY DEF Init
    <3>2. InOrder(entered[v], <<>> \o <<>> \o <<>>, mayDup)
      BY EmptyInOrder, LineInOrder
    <3>3. QED  BY <3>1, <3>2 DEF Line
  <2>2. QED  BY <1>2, <2>1 DEF Lines
<1>6. QED  BY <1>2, <1>3, <1>4, <1>5 DEF Ordered

LEMMA OrderStep ==
  ASSUME TypeOK, TypeOK', FlushersBounded, OrderInv, [Next]_vars
  PROVE  OrderInv'
<1> SUFFICES ASSUME ~shaken' PROVE Ordered'
  BY DEF OrderInv, Ordered
<1>1. ~shaken /\ Ordered
  <2>1. ASSUME NEW t \in Pushers, Push(t) PROVE shaken => shaken'
    BY <2>1 DEF Push, PushToMemory, PushDrain, PushPipeline, PushPipelineFails, PushTrim,
                PushTrimFails, RedisFault
  <2>2. ASSUME NEW t \in Flushers, FlushBegins(t) \/ FlushStep(t) PROVE shaken' = shaken
    BY <2>2 DEF FlushBegins, FlushStep, SkipTable, PopMemory, PopDrain, PopResidual, PopBatch,
                InsertSucceeds, Requeue, RequeueToMemory, DeadLetter, DeadLetterDropped,
                FlushEnds, ghosts
  <2>3. ASSUME NEW t \in Flushers, FlushFailure(t) PROVE shaken => shaken'
    BY <2>3 DEF FlushFailure, FlushBeginsUnlocked, PopResidualFails, PopBatchFails, InsertFails,
                InsertRejected, RequeueFails, DeadLetterFails, FlushEndsFails, RedisFault
  <2>4. ASSUME NEW p \in Procs, RedisRetried(p) \/ Crash(p) PROVE shaken => shaken'
    BY <2>4 DEF RedisRetried, Crash, RedisFault, ghosts
  <2>5. ASSUME LockExpires \/ CircuitExpires \/ UNCHANGED vars PROVE shaken' = shaken
    BY <2>5 DEF LockExpires, CircuitExpires, ghosts, vars
  <2>6. shaken => shaken'
    BY <2>1, <2>2, <2>3, <2>4, <2>5 DEF Next
  <2>7. QED  BY <2>6 DEF OrderInv, Ordered
<1>2. ASSUME NEW t \in Pushers, Push(t) PROVE Ordered'
  BY <1>1, <1>2, PusherOrdered
<1>3. ASSUME NEW t \in Flushers, FlushBegins(t) \/ FlushStep(t) \/ FlushFailure(t) PROVE Ordered'
  BY <1>1, <1>3, FlusherOrdered
<1>4. ASSUME NEW p \in Procs, RedisRetried(p) \/ Crash(p) PROVE Ordered'
  <2>1. ~down[p]
    BY <1>1 DEF Ordered, Calm
  <2>2. ~RedisRetried(p) /\ ~Crash(p)
    BY <2>1 DEF RedisRetried, Crash, RedisFault
  <2>3. QED  BY <1>4, <2>2
<1>5. CASE LockExpires \/ CircuitExpires
  BY <1>1, <1>5, ExpiryOrdered
<1>6. CASE UNCHANGED vars
  <2>1. UNCHANGED <<redis, mem, down, stored, item, hand, accepted, mayDup, entered, pc, ti, breaks>>
    BY <1>6 DEF vars, buffers, sinks, local, ghosts
  <2>2. \A u \in Flushers : /\ pc[u] # "residual" /\ Table(u)' = Table(u)
                            /\ hand[u] # <<>> => pc[u] \in AtHand
    BY <1>1, <2>1 DEF Ordered, Calm, Threads, Table
  <2>3. QED  BY <1>1, <2>1, <2>2, StillOrder DEF Ordered
<1>7. QED  BY <1>2, <1>3, <1>4, <1>5, <1>6 DEF Next

\* In a list without repetitions a row stands where it is first found.
LEMMA FirstOfInjective ==
  ASSUME NEW s \in Seq(Events), IsInjective(s), NEW x \in ToSet(s), NEW y \in ToSet(s),
         Precedes(s, x, y)
  PROVE  FirstIn(s, x) < FirstIn(s, y)
<1>1. ASSUME NEW i \in DOMAIN s PROVE FirstIn(s, s[i]) = i
  <2>1. i \in 1..Len(s) /\ \A j \in 1..(i - 1) : j \in DOMAIN s /\ j # i
    OBVIOUS
  <2>2. \A j \in 1..(i - 1) : s[j] # s[i]
    BY <2>1 DEF IsInjective
  <2>3. \A k \in DOMAIN s : s[k] = s[i] => k = i
    BY DEF IsInjective
  <2>4. QED  BY <2>2, <2>3 DEF FirstIn
<1>2. PICK i \in DOMAIN s : s[i] = x
  BY DEF ToSet
<1>3. PICK j \in DOMAIN s : s[j] = y
  BY DEF ToSet
<1>4. i < j
  BY <1>2, <1>3 DEF Precedes
<1>5. QED  BY <1>1, <1>2, <1>3, <1>4

LEMMA SizedBounds ==
  ASSUME OrderInv, TypeOK
  PROVE  BufferBounded
<1> SUFFICES ASSUME ~shaken, NEW tab \in Tables
             PROVE  Len(redis[tab]) <= MaxSize + Cardinality(Trimmers)
                                       + BatchSize * Cardinality(Flushers)
  BY DEF BufferBounded, Trimmers
<1>1. Sized
  BY DEF OrderInv
<1>2. PICK c \in Nat : c = Cardinality(Trimming(tab))
  BY <1>1, TrimmingFinite DEF Sized
<1>3. PICK d \in Nat : d = Cardinality(Trimmers)
  BY <1>1, FS_CardinalityType DEF Sized
<1>4. PICK k \in Nat : k = Cardinality(Free(tab))
  BY FreeFinite
<1>5. PICK n \in Nat : n = Cardinality(Flushers)
  BY PipelineAssumption, FS_CardinalityType
<1>6. c <= d /\ k <= n
  BY <1>1, <1>2, <1>3, <1>4, <1>5, TrimmingFinite, FreeFinite DEF Sized
<1>7. PICK r \in Nat : r = BatchSize * k
  BY Room
<1>8. PICK q \in Nat : q = BatchSize * n
  BY Room
<1>9. r <= q
  BY <1>6, <1>7, <1>8, Room
<1>10. Len(redis[tab]) <= MaxSize + c + r
  BY <1>1, <1>2, <1>4, <1>7 DEF Sized
<1>11. Len(redis[tab]) \in Nat /\ MaxSize \in Nat
  BY PipelineAssumption DEF TypeOK, BufferTypes
<1>12. Len(redis[tab]) <= MaxSize + d + q
  BY <1>6, <1>9, <1>10, <1>11
<1>13. QED  BY <1>3, <1>5, <1>8, <1>12

\* DeliveryInOrder for one table and its batch.
Delivers(tab, rows) ==
  LET line == stored[tab] \o rows \o redis[tab]
  IN \A i, j \in DOMAIN line :
       /\ i < j
       /\ {line[i], line[j]} \cap mayDup = {}
       => FirstIn(entered[tab], line[i]) < FirstIn(entered[tab], line[j])

LEMMA LinesDeliver ==
  ASSUME OrderInv, TypeOK
  PROVE  DeliveryInOrder
<1> SUFFICES ASSUME ~shaken, breaks = 0 PROVE DeliveryInOrder
  BY DEF DeliveryInOrder
<1>1. PushedOnce /\ Entered /\ Lines
  BY DEF OrderInv
<1>2. ASSUME NEW tab \in Tables, NEW rows \in Seq(Events),
             InOrder(entered[tab], Line(tab, rows), mayDup),
             ToSet(rows) \subseteq ToSet(entered[tab])
      PROVE  Delivers(tab, rows)
  <2>1. stored[tab] \in Seq(Events) /\ redis[tab] \in Seq(Events) /\ entered[tab] \in Seq(Events)
    BY DEF TypeOK, BufferTypes, GhostTypes
  <2>2. PICK l \in Seq(Events) : l = stored[tab] \o rows
    BY <2>1, ConcatProperties
  <2>3. PICK line \in Seq(Events) : line = l \o redis[tab]
    BY <2>1, ConcatProperties
  <2>4. ToSet(line) \subseteq ToSet(entered[tab])
    <3>1. ToSet(l) = ToSet(stored[tab]) \cup ToSet(rows)
      BY <2>1, <2>2, ToSetConcat
    <3>2. ToSet(line) = ToSet(l) \cup ToSet(redis[tab])
      BY <2>1, <2>3, ToSetConcat
    <3>3. QED  BY <1>1, <1>2, <3>1, <3>2 DEF Entered
  <2>5. InOrder(entered[tab], line, mayDup)
    BY <1>2, <2>2, <2>3 DEF Line
  <2>6. ASSUME NEW i \in DOMAIN line, NEW j \in DOMAIN line, i < j,
               {line[i], line[j]} \cap mayDup = {}
        PROVE  FirstIn(entered[tab], line[i]) < FirstIn(entered[tab], line[j])
    <3>1. Precedes(entered[tab], line[i], line[j])
      BY <2>5, <2>6 DEF InOrder
    <3>2. line[i] \in ToSet(entered[tab]) /\ line[j] \in ToSet(entered[tab])
      BY <2>4 DEF ToSet
    <3>3. IsInjective(entered[tab])
      BY <1>1 DEF PushedOnce
    <3>4. QED  BY <2>1, <3>1, <3>2, <3>3, FirstOfInjective
  <2>7. line = stored[tab] \o rows \o redis[tab]
    BY <2>2, <2>3
  <2>8. QED  BY <2>6, <2>7 DEF Delivers
<1>3. ASSUME NEW tab \in Tables
      PROVE  LET flushing == {t \in Active : pc[t] # "release" /\ Table(t) = tab}
                 batch == IF flushing = {} THEN <<>> ELSE hand[CHOOSE t \in flushing : TRUE]
             IN batch \in Seq(Events) /\ ToSet(batch) \subseteq ToSet(entered[tab])
                /\ InOrder(entered[tab], Line(tab, batch), mayDup)
  <2> DEFINE flushing == {t \in Active : pc[t] # "release" /\ Table(t) = tab}
  <2> DEFINE batch == IF flushing = {} THEN <<>> ELSE hand[CHOOSE t \in flushing : TRUE]
  <2>1. CASE flushing = {}
    <3>1. batch = <<>>
      BY <2>1
    <3>2. InOrder(entered[tab], Line(tab, <<>>), mayDup)
      BY <1>1 DEF Lines
    <3>3. QED  BY <3>1, <3>2, EmptyInOrder
  <2>2. CASE flushing # {}
    <3>1. PICK t \in flushing : batch = hand[t]
      BY <2>2
    <3>2. t \in Active /\ t \in Flushers /\ t \in Threads /\ Table(t) = tab
      BY DEF Active, Threads
    <3>3. hand[t] \in Seq(Events)
      BY <3>2, RowsTyped
    <3>4. InOrder(entered[tab], Line(tab, hand[t]), mayDup)
      BY <1>1, <3>2 DEF Lines
    <3>5. ToSet(hand[t]) \subseteq ToSet(entered[tab])
      BY <1>1, <3>2 DEF Entered
    <3>6. QED  BY <3>1, <3>3, <3>4, <3>5
  <2>3. QED  BY <2>1, <2>2
<1>4. ASSUME NEW tab \in Tables
      PROVE  LET flushing == {t \in Active : pc[t] # "release" /\ Table(t) = tab}
                 batch == IF flushing = {} THEN <<>> ELSE hand[CHOOSE t \in flushing : TRUE]
             IN Delivers(tab, batch)
  <2> DEFINE flushing == {t \in Active : pc[t] # "release" /\ Table(t) = tab}
  <2> DEFINE batch == IF flushing = {} THEN <<>> ELSE hand[CHOOSE t \in flushing : TRUE]
  <2>1. /\ batch \in Seq(Events) /\ ToSet(batch) \subseteq ToSet(entered[tab])
        /\ InOrder(entered[tab], Line(tab, batch), mayDup)
    BY <1>3
  <2> HIDE DEF batch
  <2>2. Delivers(tab, batch)
    BY <1>2, <2>1
  <2>3. QED  BY <2>2 DEF batch
<1>5. QED  BY <1>4 DEF DeliveryInOrder, Delivers

\* While Redis has not failed, its list outgrows its limit only by what the pushers about
\* to trim have pushed and one batch per flusher, and, as long as the lock admits one
\* flusher, rows reach ClickHouse in the order they entered the list.
THEOREM BufferStaysOrderly == Spec => []BufferOrderly
<1>1. Init => OrderInv
  BY OrderInit
<1>2. TypeOK /\ TypeOK' /\ FlushersBounded /\ OrderInv /\ [Next]_vars => OrderInv'
  BY OrderStep
<1>3. OrderInv /\ TypeOK => BufferOrderly
  BY SizedBounds, LinesDeliver DEF BufferOrderly
<1>4. QED  BY <1>1, <1>2, <1>3, TypeCorrect, FlushLockBounds, PTL DEF Spec

-----------------------------------------------------------------------------
(* Tracking *)

Claimers == {t \in Trackers : tracker[t].at = "push" /\ tracker[t].claim}

\* Where the one view of the present key is: in the buffer, lost, or on its way
Buffered == views = 1 /\ ~lost /\ Claimers = {}
Missing  == views = 0 /\ lost /\ Claimers = {}
Coming   == views = 0 /\ ~lost /\ \E t \in Trackers : Claimers = {t}

TrackerType == [at : {"none", "claim", "push", "measure", "trigger", "enqueue", "undo"},
                claim : BOOLEAN]
TrackersStand ==
  /\ tracker \in [Trackers -> TrackerType]
  /\ \A t \in Trackers : tracker[t].claim => tracker[t].at = "push"

TrackingInv ==
  /\ seen \in BOOLEAN /\ lost \in BOOLEAN
  /\ TrackersStand
  /\ IF seen THEN Buffered \/ Missing \/ Coming ELSE views = 0 /\ ~lost /\ Claimers = {}

\* Request t comes to k, and the other requests stay where they are.
LEMMA TrackerMoves ==
  ASSUME TrackersStand, NEW t \in Trackers, NEW k \in TrackerType, k.claim => k.at = "push",
         tracker' = [tracker EXCEPT ![t] = k]
  PROVE  TrackersStand' /\ Claimers' = IF k.claim THEN Claimers \cup {t} ELSE Claimers \ {t}
BY DEF TrackersStand, TrackerType, Claimers

\* A request without a view in hand goes on.
LEMMA Tracked ==
  ASSUME TrackersStand, NEW t \in Trackers, tracker[t].at # "push",
         \/ \E at \in {"claim", "push", "trigger", "enqueue", "undo"} : Track(t, at)
         \/ Leave(t)
  PROVE  TrackersStand' /\ Claimers' = Claimers
<1>1. PICK old \in TrackerType : old = tracker[t]
  BY DEF TrackersStand
<1>2. ~old.claim /\ t \notin Claimers
  BY <1>1 DEF TrackersStand, Claimers
<1>3. CASE Leave(t)
  <2>1. NoTrack \in TrackerType /\ ~NoTrack.claim
    BY DEF NoTrack, TrackerType
  <2>2. tracker' = [tracker EXCEPT ![t] = NoTrack]
    BY <1>3 DEF Leave
  <2>3. TrackersStand' /\ Claimers' = Claimers \ {t}
    BY <2>1, <2>2, TrackerMoves
  <2>4. QED  BY <1>2, <2>3
<1>4. ASSUME NEW at \in {"claim", "push", "trigger", "enqueue", "undo"}, Track(t, at)
      PROVE  TrackersStand' /\ Claimers' = Claimers
  <2>1. PICK k : k = [old EXCEPT !.at = at]
    OBVIOUS
  <2>2. k \in TrackerType /\ ~k.claim
    BY <1>2, <2>1 DEF TrackerType
  <2>3. tracker' = [tracker EXCEPT ![t] = k]
    BY <1>1, <1>4, <2>1 DEF Track
  <2>4. QED  BY <1>2, <2>2, <2>3, TrackerMoves
<1>5. QED  BY <1>3, <1>4

\* With the same key, views and claims, the account is the same.
LEMMA SameAccount ==
  ASSUME TrackingInv, TrackersStand', Claimers' = Claimers,
         seen' = seen, views' = views, lost' = lost
  PROVE  TrackingInv'
BY DEF TrackingInv, Buffered, Missing, Coming

\* No step of a request that is not about its view touches the account.
LEMMA NoViewConcerned ==
  ASSUME TrackingInv, NEW t \in Trackers,
         \/ Views(t) \/ Notes(t) \/ Measures(t) \/ Triggers(t) \/ FlushEnqueued(t)
         \/ FlushNotEnqueued(t) \/ Unschedules(t)
  PROVE  TrackingInv'
<1>1. /\ tracker[t].at # "push" /\ seen' = seen /\ views' = views /\ lost' = lost
      /\ \/ \E at \in {"claim", "push", "trigger", "enqueue", "undo"} : Track(t, at)
         \/ Leave(t)
  BY DEF Views, Notes, Measures, Triggers, FlushEnqueued, FlushNotEnqueued, Unschedules
<1>2. TrackersStand
  BY DEF TrackingInv
<1>3. QED  BY <1>1, <1>2, Tracked, SameAccount

\* Who finds no key sets it and has the view in hand; or he comes to k without one.
LEMMA KeyTaken ==
  ASSUME TrackingInv, NEW t \in Trackers, t \notin Claimers, NEW k \in TrackerType,
         k.claim => k.at = "push" /\ ~seen /\ seen' = TRUE,
         ~k.claim => seen' = seen,
         tracker' = [tracker EXCEPT ![t] = k], views' = views, lost' = lost
  PROVE  TrackingInv'
<1>1. TrackersStand' /\ Claimers' = IF k.claim THEN Claimers \cup {t} ELSE Claimers \ {t}
  BY TrackerMoves DEF TrackingInv
<1>2. CASE k.claim
  <2>1. Claimers' = {t} /\ views' = 0 /\ ~lost' /\ seen' = TRUE /\ lost' \in BOOLEAN
    BY <1>1, <1>2 DEF TrackingInv
  <2>2. Coming'
    BY <2>1 DEF Coming
  <2>3. QED  BY <1>1, <2>1, <2>2 DEF TrackingInv
<1>3. CASE ~k.claim
  BY <1>1, <1>3, SameAccount
<1>4. QED  BY <1>2, <1>3

LEMMA KeyClaimed ==
  ASSUME TrackingInv, NEW t \in Trackers, Claims(t) \/ ClaimFails(t)
  PROVE  TrackingInv'
<1>1. TrackersStand /\ t \notin Claimers /\ seen \in BOOLEAN
  BY DEF TrackingInv, Claims, ClaimFails, Claimers
<1>2. views' = views /\ lost' = lost
  BY DEF Claims, ClaimFails
<1>3. PICK yes : yes = [at |-> "push", claim |-> TRUE]
  OBVIOUS
<1>4. PICK no : no = [at |-> "push", claim |-> FALSE]
  OBVIOUS
<1>5. yes \in TrackerType /\ yes.claim /\ yes.at = "push" /\ no \in TrackerType /\ ~no.claim
  BY <1>3, <1>4 DEF TrackerType
<1>6. CASE Claims(t) /\ seen
  <2>1. NoTrack \in TrackerType /\ ~NoTrack.claim
    BY DEF NoTrack, TrackerType
  <2>2. seen' = seen /\ tracker' = [tracker EXCEPT ![t] = NoTrack]
    BY <1>1, <1>6 DEF Claims, New, Leave
  <2>3. QED  BY <1>1, <1>2, <2>1, <2>2, KeyTaken
<1>7. CASE Claims(t) /\ ~seen
  <2>1. seen' = TRUE /\ tracker' = [tracker EXCEPT ![t] = yes]
    BY <1>3, <1>7 DEF Claims, New
  <2>2. QED  BY <1>1, <1>2, <1>5, <1>7, <2>1, KeyTaken
<1>8. CASE ClaimFails(t)
  <2>1. PICK sets \in {FALSE, ~seen} :
          /\ seen' = (seen \/ sets)
          /\ tracker' = [tracker EXCEPT ![t] = [at |-> "push", claim |-> sets]]
    BY <1>8 DEF ClaimFails
  <2>2. CASE sets = FALSE
    <3>1. seen' = seen /\ tracker' = [tracker EXCEPT ![t] = no]
      BY <1>1, <1>4, <2>1, <2>2
    <3>2. QED  BY <1>1, <1>2, <1>5, <3>1, KeyTaken
  <2>3. CASE sets # FALSE
    <3>1. ~seen /\ sets = TRUE
      BY <1>1, <2>1, <2>3
    <3>2. seen' = TRUE /\ tracker' = [tracker EXCEPT ![t] = yes]
      BY <1>3, <2>1, <3>1
    <3>3. QED  BY <1>1, <1>2, <1>5, <3>1, <3>2, KeyTaken
  <2>4. QED  BY <2>2, <2>3
<1>9. QED  BY <1>6, <1>7, <1>8

\* A view that was on its way is in the buffer, or lost.
LEMMA ViewArrives ==
  ASSUME TrackingInv, NEW t \in Trackers, Pushes(t) \/ PushFails(t) \/ TrackerDies(t)
  PROVE  TrackingInv'
<1>1. PICK off : off = [at |-> "measure", claim |-> FALSE]
  OBVIOUS
<1>2. off \in TrackerType /\ NoTrack \in TrackerType /\ ~off.claim /\ ~NoTrack.claim
  BY <1>1 DEF TrackerType, NoTrack
<1>3. /\ TrackersStand /\ seen' = seen
      /\ \/ tracker' = [tracker EXCEPT ![t] = off]
         \/ tracker' = [tracker EXCEPT ![t] = NoTrack]
  BY <1>1 DEF TrackingInv, Pushes, PushFails, TrackerDies, Leave
<1>9. TrackersStand' /\ Claimers' = Claimers \ {t}
  BY <1>2, <1>3, TrackerMoves
<1>4. CASE t \in Claimers
  <2>1. tracker[t].claim = TRUE /\ tracker[t].at = "push" /\ Claimers # {}
    BY <1>3, <1>4 DEF Claimers, TrackersStand, TrackerType
  <2>2. seen /\ views = 0 /\ ~lost /\ Claimers = {t}
    BY <1>4, <2>1 DEF TrackingInv, Buffered, Missing, Coming
  <2>3. Claimers' = {} /\ seen'
    BY <1>3, <1>9, <2>2
  <2>4. CASE Pushes(t)
    <3>1. Buffered' /\ lost' = lost
      BY <2>1, <2>2, <2>3, <2>4 DEF Pushes, Buffered
    <3>2. QED  BY <1>3, <1>9, <2>3, <3>1 DEF TrackingInv
  <2>5. CASE PushFails(t) \/ TrackerDies(t)
    <3>1. lost' = TRUE /\ views' = 0
      BY <2>1, <2>2, <2>5 DEF PushFails, TrackerDies, Lose
    <3>2. Missing'
      BY <2>3, <3>1 DEF Missing
    <3>3. QED  BY <1>3, <1>9, <2>3, <3>1, <3>2 DEF TrackingInv
  <2>6. QED  BY <2>4, <2>5
<1>5. CASE t \notin Claimers
  <2>1. tracker[t].claim = FALSE
    BY <1>3, <1>5 DEF TrackersStand, TrackerType, Claimers
  <2>2. views' = views /\ lost' = lost
    BY <2>1 DEF Pushes, PushFails, TrackerDies, Lose, TrackingInv
  <2>3. Claimers' = Claimers
    BY <1>5, <1>9
  <2>4. QED  BY <1>3, <1>9, <2>2, <2>3, SameAccount
<1>6. QED  BY <1>4, <1>5

LEMMA TrackingStep == TrackingInv /\ [TrackingNext]_trackVars => TrackingInv'
<1> SUFFICES ASSUME TrackingInv, [TrackingNext]_trackVars PROVE TrackingInv'
  OBVIOUS
<1>1. CASE SeenEnds
  <2>1. /\ ~seen' /\ views' = 0 /\ ~lost'
        /\ tracker' = [t \in Trackers |-> [tracker[t] EXCEPT !.claim = FALSE]]
    BY <1>1 DEF SeenEnds
  <2>2. TrackersStand' /\ \A t \in Trackers : ~tracker'[t].claim
    <3>1. ASSUME NEW t \in Trackers
          PROVE  tracker'[t] \in TrackerType /\ ~tracker'[t].claim
      <4>1. PICK old \in TrackerType : old = tracker[t]
        BY DEF TrackingInv, TrackersStand
      <4>2. tracker'[t] = [old EXCEPT !.claim = FALSE]
        BY <2>1, <4>1
      <4>3. QED  BY <4>2 DEF TrackerType
    <3>2. QED  BY <2>1, <3>1 DEF TrackersStand
  <2>3. Claimers' = {}
    BY <2>2 DEF Claimers
  <2>4. QED  BY <1>1, <2>1, <2>2, <2>3 DEF TrackingInv, SeenEnds
<1>2. CASE ScheduleEnds \/ FlushLockEnds \/ BrokenEnds \/ UNCHANGED trackVars
  <2>1. seen' = seen /\ tracker' = tracker /\ views' = views /\ lost' = lost
    BY <1>2 DEF ScheduleEnds, FlushLockEnds, BrokenEnds, trackVars, trackerVars
  <2>2. QED  BY <2>1 DEF TrackingInv, TrackersStand, Claimers, Buffered, Missing, Coming
<1>5. ASSUME NEW f \in Drainers,
             \/ GoesOnFlushing(f) \/ ComesToFlush(f)
             \/ LockFails(f) \/ PopFails(f) \/ WriteFails(f) \/ FlushDies(f)
      PROVE  TrackingInv'
  <2>1. UNCHANGED trackerVars
    BY <1>5 DEF GoesOnFlushing, ComesToFlush, LockFails, PopFails, WriteFails, FlushDies,
                TakesFlush, Locks, PopsBatch, WritesBatch, Releases
  <2>2. seen' = seen /\ tracker' = tracker /\ views' = views /\ lost' = lost
    BY <2>1 DEF trackerVars
  <2>3. QED  BY <2>2 DEF TrackingInv, TrackersStand, Claimers, Buffered, Missing, Coming
<1>3. ASSUME NEW t \in Trackers,
             \/ Views(t) \/ Notes(t) \/ Works(t)
             \/ ClaimFails(t) \/ PushFails(t) \/ FlushNotEnqueued(t) \/ TrackerDies(t)
      PROVE  TrackingInv'
  BY <1>3, NoViewConcerned, KeyClaimed, ViewArrives DEF Works
<1>4. QED  BY <1>1, <1>2, <1>3, <1>5 DEF TrackingNext

\* While the key of a visitor lives, his view is in the buffer once, on its way once, or
\* was lost, however claims, failing calls of the cache, deaths and the timeout of the key
\* meet (_is_event_deduplicated, push_event_to_buffer).
THEOREM ViewsAlwaysAccounted == TrackingSpec => []ViewsAccounted
<1>1. TrackingInit => TrackingInv
  <2> SUFFICES ASSUME TrackingInit PROVE TrackingInv
    OBVIOUS
  <2>1. NoTrack \in TrackerType /\ ~NoTrack.claim
    BY DEF NoTrack, TrackerType
  <2>2. TrackersStand /\ Claimers = {}
    BY <2>1 DEF TrackingInit, TrackersStand, Claimers
  <2>3. QED  BY <2>2 DEF TrackingInit, TrackingInv
<1>2. TrackingInv => ViewsAccounted
  <2> SUFFICES ASSUME TrackingInv, seen PROVE ViewsAccounted
    BY DEF ViewsAccounted
  <2>1. CASE Coming
    <3>1. PICK t \in Trackers : Claimers = {t}
      BY <2>1 DEF Coming
    <3>2. Cardinality(Claimers) = 1
      BY <3>1, FS_Singleton
    <3>3. QED  BY <2>1, <3>2 DEF ViewsAccounted, Coming, Claimers
  <2>2. CASE Buffered \/ Missing
    <3>1. Cardinality(Claimers) = 0
      BY <2>2, FS_EmptySet DEF Buffered, Missing
    <3>2. QED  BY <2>2, <3>1 DEF ViewsAccounted, Buffered, Missing, Claimers
  <2>3. QED  BY <2>1, <2>2 DEF TrackingInv
<1>3. QED  BY <1>1, <1>2, TrackingStep, PTL DEF TrackingSpec
=============================================================================
