----------------------------- MODULE GateProofs -----------------------------
(***************************************************************************)
(* Theorems about what a request meets before its view: the limits of      *)
(* Limits, for any number of requests, any limit and any number of         *)
(* failures of the cache, and the cached tables of Caches, for any readers *)
(* and editors and any number of changes and failures.                     *)
(***************************************************************************)
EXTENDS Limits, Caches, FiniteSetTheorems, TLAPS

-----------------------------------------------------------------------------
(* Limits: the invariant *)

Window == Limit + Others

\* Requests that have looked at the counter and not counted themselves yet, those
\* of them that found a counter and those that found none, and requests that are
\* about to raise the shield.
Looked    == {r \in Requests : req[r].at = "read"}
Found     == {r \in Requests : req[r].at = "read" /\ req[r].seen # 0}
FoundNone == {r \in Requests : req[r].at = "read" /\ req[r].seen = 0}
Raising   == {r \in Requests : req[r].at = "raise"}

\* Who found no counter may begin it again, once.
RestartsLeft ==
  /\ count = 0 => restarts = 0
  /\ count # 0 => restarts + Cardinality(FoundNone) <= Others + faults

\* What has been counted since the counter was last set, and who may still be.
CounterLeft == count + Cardinality(Found) <= Window + faults

PassedCounted == passed <= restarts * Window + count + faults
PassedLeft    == passed + Cardinality(Found) <= (1 + restarts) * Window + faults

\* While the shield is down, each request beyond the limit is about to raise it.
ShieldLeft ==
  kind = "shield" /\ ~shield =>
    /\ count <= Limit - 1 + Cardinality(Raising) + faults
    /\ passed <= restarts * Window + (Limit - 1) + Cardinality(Raising) + faults

InvitesLeft == kind = "invites" => count + Cardinality(Looked) <= Window

LimitsInv ==
  /\ LimitsTypeOK
  /\ Cached => RestartsLeft /\ CounterLeft /\ PassedCounted /\ PassedLeft
  /\ ShieldLeft
  /\ ShieldRises
  /\ InvitesLeft

-----------------------------------------------------------------------------
(* Limits: lemmas *)

\* Sets of requests, one more and one fewer.
LEMMA Counted ==
  ASSUME NEW S \in SUBSET Requests
  PROVE  /\ Cardinality(S) \in Nat
         /\ Cardinality(S) <= 1 + Others
         /\ \A r \in S : Cardinality(S \ {r}) = Cardinality(S) - 1
         /\ \A r \in Requests \ S : Cardinality(S \cup {r}) = Cardinality(S) + 1
<1>1. IsFiniteSet(S) /\ IsFiniteSet(Requests)
  BY FS_Subset, LimitsAssumption
<1>2. Cardinality(Requests) \in Nat
  BY <1>1, FS_CardinalityType
<1>3. Cardinality(S) \in Nat /\ Cardinality(S) <= Cardinality(Requests)
  BY <1>1, FS_Subset, FS_CardinalityType
<1>4. \A r \in S : Cardinality(S \ {r}) = Cardinality(S) - 1
  BY <1>1, FS_RemoveElement
<1>5. \A r \in Requests \ S : Cardinality(S \cup {r}) = Cardinality(S) + 1
  BY <1>1, FS_AddElement
<1>6. QED  BY <1>2, <1>3, <1>4, <1>5 DEF Others

LEMMA Apart ==
  ASSUME NEW S \in SUBSET Requests, NEW T \in SUBSET Requests, S \cap T = {}
  PROVE  Cardinality(S) + Cardinality(T) <= 1 + Others
<1>1. IsFiniteSet(S) /\ IsFiniteSet(T) /\ S \cup T \in SUBSET Requests
  BY FS_Subset, LimitsAssumption
<1>2. Cardinality(S \cup T) = Cardinality(S) + Cardinality(T) - Cardinality(S \cap T)
  BY <1>1, FS_Union
<1>3. Cardinality(S \cap T) = 0
  BY FS_EmptySet
<1>4. Cardinality(S \cup T) <= 1 + Others
  BY <1>1, Counted
<1>5. QED  BY <1>2, <1>3, <1>4, Counted

\* The numbers, and what one more restart admits.
LEMMA Numbers ==
  /\ Others \in Nat
  /\ Window \in Nat /\ Window = Limit + Others
  /\ Limit \in Nat /\ Limit >= 2 /\ MaxFaults \in Nat
<1>1. Cardinality(Requests) \in Nat /\ Cardinality(Requests) # 0
  BY LimitsAssumption, FS_CardinalityType, FS_EmptySet
<1>2. Others \in Nat
  BY <1>1 DEF Others
<1>3. QED  BY <1>2, LimitsAssumption DEF Window

LEMMA Products ==
  \A n \in Nat : /\ n * Window \in Nat
                 /\ (n + 1) * Window = n * Window + Window
                 /\ (1 + n) * Window = n * Window + Window
                 /\ (1 + (n + 1)) * Window = n * Window + Window + Window
                 /\ 0 * Window = 0 /\ (1 + 0) * Window = Window
BY Numbers

Bit(b) == IF b THEN 1 ELSE 0

\* Two sets of requests that differ in one request at most.
LEMMA OneMoved ==
  ASSUME NEW S \in SUBSET Requests, NEW T \in SUBSET Requests, NEW r \in Requests,
         \A q \in Requests \ {r} : q \in S <=> q \in T
  PROVE  /\ Cardinality(S) \in Nat /\ Cardinality(T) \in Nat
         /\ Cardinality(T) = Cardinality(S) - Bit(r \in S) + Bit(r \in T)
         /\ Cardinality(T) <= Others + Bit(r \in T)
         /\ Cardinality(S) >= Bit(r \in S)
<1> DEFINE U == S \ {r}
<1>1. U \in SUBSET Requests /\ r \notin U /\ U \cup {r} \in SUBSET Requests
  OBVIOUS
<1>2. /\ Cardinality(U) \in Nat
      /\ Cardinality(U \cup {r}) = Cardinality(U) + 1
      /\ Cardinality(U \cup {r}) <= 1 + Others
  BY <1>1, Counted
<1>3. (r \in S => S = U \cup {r}) /\ (r \notin S => S = U)
  OBVIOUS
<1>4. (r \in T => T = U \cup {r}) /\ (r \notin T => T = U)
  OBVIOUS
<1> HIDE DEF U
<1>5. Cardinality(S) = Cardinality(U) + Bit(r \in S)
  <2>1. CASE r \in S
    BY <1>2, <1>3, <2>1 DEF Bit
  <2>2. CASE r \notin S
    BY <1>2, <1>3, <2>2 DEF Bit
  <2>3. QED  BY <2>1, <2>2
<1>6. Cardinality(T) = Cardinality(U) + Bit(r \in T)
  <2>1. CASE r \in T
    BY <1>2, <1>4, <2>1 DEF Bit
  <2>2. CASE r \notin T
    BY <1>2, <1>4, <2>2 DEF Bit
  <2>3. QED  BY <2>1, <2>2
<1>7. QED  BY <1>2, <1>5, <1>6, Numbers DEF Bit

\* One request moves: the numbers of those that have looked, found a counter, found
\* none and are about to raise the shield follow.
LEMMA RequestMoved ==
  ASSUME NEW r \in Requests, \A q \in Requests \ {r} : req'[q] = req[q]
  PROVE  /\ Cardinality(Looked)' = Cardinality(Looked) - Bit(r \in Looked) + Bit(r \in Looked')
         /\ Cardinality(Found)' = Cardinality(Found) - Bit(r \in Found) + Bit(r \in Found')
         /\ Cardinality(FoundNone)' =
              Cardinality(FoundNone) - Bit(r \in FoundNone) + Bit(r \in FoundNone')
         /\ Cardinality(Raising)' = Cardinality(Raising) - Bit(r \in Raising) + Bit(r \in Raising')
         /\ Cardinality(FoundNone)' <= Others + Bit(r \in FoundNone')
         /\ Cardinality(Found)' <= Others + Bit(r \in Found')
<1>1. /\ Looked \in SUBSET Requests /\ Looked' \in SUBSET Requests
      /\ \A q \in Requests \ {r} : q \in Looked <=> q \in Looked'
  BY DEF Looked
<1>2. /\ Found \in SUBSET Requests /\ Found' \in SUBSET Requests
      /\ \A q \in Requests \ {r} : q \in Found <=> q \in Found'
  BY DEF Found
<1>3. /\ FoundNone \in SUBSET Requests /\ FoundNone' \in SUBSET Requests
      /\ \A q \in Requests \ {r} : q \in FoundNone <=> q \in FoundNone'
  BY DEF FoundNone
<1>4. /\ Raising \in SUBSET Requests /\ Raising' \in SUBSET Requests
      /\ \A q \in Requests \ {r} : q \in Raising <=> q \in Raising'
  BY DEF Raising
<1>5. QED  BY <1>1, <1>2, <1>3, <1>4, OneMoved

\* The numbers are numbers, and who found a counter is not about to raise the shield.
SizesOK ==
  /\ Cardinality(Looked) \in Nat /\ Cardinality(Looked) <= 1 + Others
  /\ Cardinality(Found) \in Nat /\ Cardinality(Found) <= 1 + Others
  /\ Cardinality(FoundNone) \in Nat
  /\ Cardinality(Raising) \in Nat
  /\ Cardinality(Found) + Cardinality(Raising) <= 1 + Others

LEMMA SizesTyped == SizesOK
<1>1. Looked \in SUBSET Requests /\ Found \in SUBSET Requests /\ FoundNone \in SUBSET Requests
      /\ Raising \in SUBSET Requests /\ Found \cap Raising = {}
  BY DEF Looked, Found, FoundNone, Raising
<1>2. QED  BY <1>1, Counted, Apart DEF SizesOK

\* How a request's record changes, and which of the sets it was and is in.
LEMMA RecordSet ==
  ASSUME LimitsTypeOK, NEW r \in Requests, NEW at \in {"none", "read", "raise"},
         NEW seen \in 0..(Window + MaxFaults),
         req' = [req EXCEPT ![r] = [at |-> at, seen |-> seen]]
  PROVE  /\ req' \in [Requests -> [at : {"none", "read", "raise"}, seen : 0..(Window + MaxFaults)]]
         /\ req'[r].at = at /\ req'[r].seen = seen
         /\ \A q \in Requests \ {r} : req'[q] = req[q]
         /\ r \in Looked' <=> at = "read"
         /\ r \in Found' <=> at = "read" /\ seen # 0
         /\ r \in FoundNone' <=> at = "read" /\ seen = 0
         /\ r \in Raising' <=> at = "raise"
<1>1. /\ req' \in [Requests -> [at : {"none", "read", "raise"}, seen : 0..(Window + MaxFaults)]]
      /\ req'[r].at = at /\ req'[r].seen = seen
      /\ \A q \in Requests \ {r} : req'[q] = req[q]
  BY DEF LimitsTypeOK, Window
<1>2. QED  BY <1>1 DEF Looked, Found, FoundNone, Raising

LEMMA RecordWas ==
  ASSUME NEW r \in Requests
  PROVE  /\ r \in Looked <=> req[r].at = "read"
         /\ r \in Found <=> req[r].at = "read" /\ req[r].seen # 0
         /\ r \in FoundNone <=> req[r].at = "read" /\ req[r].seen = 0
         /\ r \in Raising <=> req[r].at = "raise"
BY DEF Looked, Found, FoundNone, Raising

-----------------------------------------------------------------------------
(* Limits: one lemma for each action *)

LEMMA InitKeeps == LimitsInit => LimitsInv
<1> SUFFICES ASSUME LimitsInit PROVE LimitsInv
  OBVIOUS
<1>1. Found = {} /\ FoundNone = {} /\ Raising = {} /\ Looked = {}
  BY DEF LimitsInit, Fresh, Found, FoundNone, Raising, Looked
<1>2. Cardinality({}) = 0
  BY FS_EmptySet
<1>3. LimitsTypeOK
  <2>1. Fresh \in [at : {"none", "read", "raise"}, seen : 0..(Limit + Others + MaxFaults)]
    BY Numbers DEF Fresh, Window
  <2>2. 0 \in 0..(Limit + Others + MaxFaults) /\ 0 \in 0..MaxFaults /\ 0 \in Nat
    BY Numbers DEF Window
  <2>3. QED  BY <2>1, <2>2 DEF LimitsInit, LimitsTypeOK
<1>4. Cached => RestartsLeft /\ CounterLeft /\ PassedCounted /\ PassedLeft
  BY <1>1, <1>2, Numbers, Products DEF LimitsInit, RestartsLeft, CounterLeft, PassedCounted, PassedLeft
<1>5. ShieldLeft /\ ShieldRises /\ InvitesLeft
  BY <1>1, <1>2, Numbers, Products DEF LimitsInit, ShieldLeft, ShieldRises, InvitesLeft
<1>6. QED  BY <1>3, <1>4, <1>5 DEF LimitsInv

\* A request reads the counter, while it is admitted or because the cache fails.
LEMMA ReadsKeeps == ASSUME LimitsInv, NEW r \in Requests, Reads(r) PROVE LimitsInv'
<1> USE DEF LimitsInv
<1>0. /\ kind' = kind /\ count' = count /\ shield' = shield /\ passed' = passed
      /\ restarts' = restarts /\ req[r].at = "none"
      /\ kind \in Kinds /\ count \in Nat /\ passed \in Nat /\ restarts \in Nat /\ faults \in Nat
      /\ count \in 0..(Window + MaxFaults) /\ faults <= MaxFaults
  BY Numbers DEF Reads, LimitsTypeOK, Window
<1>1. PICK seen \in 0..(Window + MaxFaults) :
        /\ req' = [req EXCEPT ![r] = [at |-> "read", seen |-> seen]]
        /\ \/ seen = count /\ Admits(count) /\ faults' = faults
           \/ seen = 0 /\ Cached /\ faults < MaxFaults /\ faults' = faults + 1
  BY <1>0, Numbers DEF Reads, Fails
<1>2. /\ req' \in [Requests -> [at : {"none", "read", "raise"}, seen : 0..(Window + MaxFaults)]]
      /\ req'[r].at = "read" /\ req'[r].seen = seen
      /\ \A q \in Requests \ {r} : req'[q] = req[q]
      /\ r \in Looked' /\ r \notin Raising' /\ (r \in Found' <=> seen # 0)
      /\ (r \in FoundNone' <=> seen = 0)
  BY <1>1, RecordSet
<1>3. /\ Cardinality(Looked)' = Cardinality(Looked) + 1
      /\ Cardinality(Found)' = Cardinality(Found) + (IF seen # 0 THEN 1 ELSE 0)
      /\ Cardinality(FoundNone)' = Cardinality(FoundNone) + (IF seen = 0 THEN 1 ELSE 0)
      /\ Cardinality(Raising)' = Cardinality(Raising)
  BY <1>0, <1>2, RequestMoved, RecordWas, SizesTyped DEF Bit, SizesOK
<1>4. SizesOK /\ SizesOK'
  BY SizesTyped, PTL
<1>5. LimitsTypeOK'
  BY <1>0, <1>1, <1>2, Numbers DEF LimitsTypeOK, Window
<1>6. ASSUME Cached PROVE RestartsLeft' /\ CounterLeft' /\ PassedCounted' /\ PassedLeft'
  <2>1. RestartsLeft'
    BY <1>0, <1>1, <1>3, <1>4, <1>6, Numbers DEF RestartsLeft, SizesOK
  <2>2. seen # 0 => count <= Limit - 1 + Cardinality(Raising) + faults
    BY <1>0, <1>1, <1>4, <1>6, Numbers, Products DEF Admits, Cached, Kinds, ShieldLeft, SizesOK
  <2>3. seen # 0 => passed <= restarts * Window + (Limit - 1) + Cardinality(Raising) + faults
    BY <1>0, <1>1, <1>4, <1>6, Numbers, Products
       DEF Admits, Cached, Kinds, ShieldLeft, SizesOK, PassedCounted
  <2>4. CounterLeft'
    BY <1>0, <1>1, <1>3, <1>4, <1>6, <2>2, Numbers DEF CounterLeft, SizesOK
  <2>5. PassedCounted'
    BY <1>0, <1>1, <1>6, Numbers, Products DEF PassedCounted
  <2>6. PassedLeft'
    BY <1>0, <1>1, <1>3, <1>4, <1>6, <2>3, Numbers, Products DEF PassedLeft, SizesOK
  <2>7. QED  BY <2>1, <2>4, <2>5, <2>6
<1>7. ShieldLeft'
  BY <1>0, <1>1, <1>3, <1>4, Numbers, Products DEF ShieldLeft, SizesOK
<1>8. ShieldRises'
  BY <1>0, <1>1, <1>2 DEF ShieldRises
<1>9. InvitesLeft'
  BY <1>0, <1>1, <1>3, <1>4, Numbers DEF InvitesLeft, SizesOK, Admits, Cached
<1>10. QED  BY <1>0, <1>5, <1>6, <1>7, <1>8, <1>9 DEF Cached

\* A field of the record changes.
LEMMA FieldSet ==
  ASSUME LimitsTypeOK, NEW r \in Requests
  PROVE  /\ \A at : Goes(r, at) => req' = [req EXCEPT ![r] = [at |-> at, seen |-> req[r].seen]]
         /\ req' = [req EXCEPT ![r].seen = 0] =>
              req' = [req EXCEPT ![r] = [at |-> req[r].at, seen |-> 0]]
         /\ Ends(r) => req' = [req EXCEPT ![r] = [at |-> "none", seen |-> 0]]
         /\ req[r].seen \in 0..(Window + MaxFaults)
         /\ 0 \in 0..(Window + MaxFaults)
<1>1. req[r] \in [at : {"none", "read", "raise"}, seen : 0..(Window + MaxFaults)]
  BY DEF LimitsTypeOK, Window
<1>2. \A at : [req[r] EXCEPT !.at = at] = [at |-> at, seen |-> req[r].seen]
  BY <1>1
<1>3. [req[r] EXCEPT !.seen = 0] = [at |-> req[r].at, seen |-> 0]
  BY <1>1
<1>4. QED  BY <1>1, <1>2, <1>3, Numbers DEF Goes, Ends, Fresh

\* A request that found a counter finds it gone.
LEMMA LapsesKeeps == ASSUME LimitsInv, NEW r \in Requests, Lapses(r) PROVE LimitsInv'
<1> USE DEF LimitsInv
<1>0. /\ kind' = kind /\ count' = count /\ shield' = shield /\ passed' = passed
      /\ restarts' = restarts /\ faults' = faults /\ req[r].at = "read" /\ req[r].seen # 0
      /\ Cached /\ count = 0 /\ kind # "invites"
      /\ passed \in Nat /\ restarts \in Nat /\ faults \in Nat
  BY Numbers DEF Lapses, LimitsTypeOK, Cached
<1>1. req' = [req EXCEPT ![r] = [at |-> "read", seen |-> 0]]
  BY <1>0, FieldSet DEF Lapses
<1>2. /\ req' \in [Requests -> [at : {"none", "read", "raise"}, seen : 0..(Window + MaxFaults)]]
      /\ req'[r].at = "read"
      /\ \A q \in Requests \ {r} : req'[q] = req[q]
      /\ r \in Looked' /\ r \notin Raising' /\ r \notin Found' /\ r \in FoundNone'
  BY <1>1, RecordSet, FieldSet
<1>3. /\ Cardinality(Found)' = Cardinality(Found) - 1
      /\ Cardinality(Raising)' = Cardinality(Raising)
  BY <1>0, <1>2, RequestMoved, RecordWas, SizesTyped DEF Bit, SizesOK
<1>4. SizesOK /\ SizesOK'
  BY SizesTyped, PTL
<1>5. LimitsTypeOK'
  BY <1>0, <1>2 DEF LimitsTypeOK, Window
<1>6. RestartsLeft' /\ CounterLeft' /\ PassedCounted' /\ PassedLeft'
  BY <1>0, <1>3, <1>4, Numbers, Products
     DEF RestartsLeft, CounterLeft, PassedCounted, PassedLeft, SizesOK
<1>7. ShieldLeft'
  BY <1>0, <1>3 DEF ShieldLeft
<1>8. ShieldRises' /\ InvitesLeft'
  BY <1>0, Numbers DEF ShieldRises, InvitesLeft
<1>9. QED  BY <1>5, <1>6, <1>7, <1>8

\* A request counts itself.
LEMMA CountsKeeps == ASSUME LimitsInv, NEW r \in Requests, Counts(r) PROVE LimitsInv'
<1> USE DEF LimitsInv
<1>0. /\ kind' = kind /\ shield' = shield /\ faults' = faults /\ req[r].at = "read"
      /\ kind \in Kinds /\ count \in Nat /\ passed \in Nat /\ restarts \in Nat /\ faults \in Nat
      /\ faults <= MaxFaults /\ req[r].seen \in Nat
  BY Numbers DEF Counts, LimitsTypeOK
<1> DEFINE raises == kind = "shield" /\ count' >= Limit
<1>1. req' = [req EXCEPT ![r] = IF raises THEN [at |-> "raise", seen |-> req[r].seen]
                                ELSE [at |-> "none", seen |-> 0]]
  BY FieldSet DEF Counts, Raises
<1>2. /\ req' \in [Requests -> [at : {"none", "read", "raise"}, seen : 0..(Window + MaxFaults)]]
      /\ \A q \in Requests \ {r} : req'[q] = req[q]
      /\ r \notin Looked' /\ (r \in Raising' <=> raises) /\ r \notin Found' /\ r \notin FoundNone'
      /\ raises => req'[r].at = "raise"
  <2>1. CASE raises
    BY <1>1, <2>1, RecordSet, FieldSet
  <2>2. CASE ~raises
    BY <1>1, <2>2, RecordSet, FieldSet
  <2>3. QED  BY <2>1, <2>2
<1>3. /\ Cardinality(Looked)' = Cardinality(Looked) - 1
      /\ Cardinality(Found)' = Cardinality(Found) - (IF req[r].seen # 0 THEN 1 ELSE 0)
      /\ Cardinality(FoundNone)' = Cardinality(FoundNone) - (IF req[r].seen = 0 THEN 1 ELSE 0)
      /\ Cardinality(Raising)' = Cardinality(Raising) + (IF raises THEN 1 ELSE 0)
      /\ Cardinality(FoundNone)' <= Others /\ Cardinality(Found)' <= Others
  <2>1. r \in Looked /\ r \notin Raising /\ (r \in Found <=> req[r].seen # 0)
        /\ (r \in FoundNone <=> req[r].seen = 0)
    BY <1>0, RecordWas
  <2> HIDE DEF raises
  <2>2. QED  BY <1>2, <2>1, RequestMoved, SizesTyped, Numbers DEF Bit, SizesOK
<1>4. SizesOK /\ SizesOK'
  BY SizesTyped, PTL
<1>5. CASE Cached /\ req[r].seen = 0 /\ count = 0
  <2>1. count' = 1 /\ passed' = 1 /\ restarts' = 0 /\ ~raises /\ kind # "invites"
    BY <1>0, <1>5, Numbers DEF Counts, NewCount, BeginsCount, Cached
  <2>2. LimitsTypeOK'
    BY <1>0, <1>2, <2>1, Numbers DEF LimitsTypeOK, Window
  <2>3. RestartsLeft' /\ CounterLeft' /\ PassedCounted' /\ PassedLeft'
    BY <1>0, <1>3, <1>4, <2>1, Numbers, Products
       DEF RestartsLeft, CounterLeft, PassedCounted, PassedLeft, SizesOK
  <2>4. ShieldLeft' /\ ShieldRises' /\ InvitesLeft'
    BY <1>0, <1>3, <1>4, <2>1, Numbers, Products DEF ShieldLeft, ShieldRises, InvitesLeft, SizesOK
  <2>5. QED  BY <2>2, <2>3, <2>4
<1>6. CASE Cached /\ req[r].seen = 0 /\ count # 0
  <2>1. /\ count' = 1 /\ passed' = passed + 1 /\ restarts' = restarts + 1 /\ ~raises
        /\ kind # "invites"
    BY <1>0, <1>6, Numbers DEF Counts, NewCount, BeginsCount, Cached
  <2>2. LimitsTypeOK'
    BY <1>0, <1>2, <2>1, Numbers DEF LimitsTypeOK, Window
  <2>3. RestartsLeft' /\ CounterLeft'
    BY <1>0, <1>3, <1>4, <1>6, <2>1, Numbers DEF RestartsLeft, CounterLeft, SizesOK
  <2>4. passed <= restarts' * Window + faults' /\ restarts' * Window \in Nat
        /\ (1 + restarts') * Window = restarts' * Window + Window
    BY <1>0, <1>4, <1>6, <2>1, Numbers, Products DEF PassedLeft, SizesOK
  <2>5. PassedCounted' /\ PassedLeft'
    BY <1>0, <1>3, <1>4, <2>1, <2>4, Numbers, Products DEF PassedCounted, PassedLeft, SizesOK
  <2>6. ShieldLeft' /\ ShieldRises' /\ InvitesLeft'
    BY <1>0, <1>3, <1>4, <2>1, <2>4, Numbers, Products DEF ShieldLeft, ShieldRises, InvitesLeft, SizesOK
  <2>7. QED  BY <2>2, <2>3, <2>5, <2>6 DEF Cached
<1>7. CASE Cached /\ req[r].seen # 0
  <2>1. /\ count # 0 /\ count' = count + 1 /\ passed' = passed + 1 /\ restarts' = restarts
        /\ kind # "invites"
    BY <1>0, <1>7, Numbers DEF Counts, NewCount, BeginsCount, Cached
  <2>2. RestartsLeft' /\ CounterLeft' /\ PassedCounted' /\ PassedLeft'
    BY <1>0, <1>3, <1>4, <1>7, <2>1, Numbers, Products
       DEF RestartsLeft, CounterLeft, PassedCounted, PassedLeft, SizesOK
  <2>3. LimitsTypeOK'
    BY <1>0, <1>2, <1>4, <2>1, <2>2, Numbers DEF LimitsTypeOK, Window, CounterLeft, SizesOK
  <2>4. ShieldLeft'
    BY <1>0, <1>3, <1>4, <1>7, <2>1, Numbers, Products DEF ShieldLeft, PassedCounted, SizesOK
  <2>5. ShieldRises' /\ InvitesLeft'
    BY <1>0, <1>2, <2>1 DEF ShieldRises, InvitesLeft
  <2>6. QED  BY <2>2, <2>3, <2>4, <2>5
<1>8. CASE ~Cached
  <2>1. /\ count' = count + 1 /\ passed' = passed /\ restarts' = restarts /\ kind = "invites"
    BY <1>0, <1>8, Numbers DEF Counts, NewCount, BeginsCount, Cached
  <2>2. InvitesLeft'
    BY <1>0, <1>3, <1>4, <2>1, Numbers DEF InvitesLeft, SizesOK
  <2>3. LimitsTypeOK'
    BY <1>0, <1>2, <1>4, <2>1, <2>2, Numbers DEF LimitsTypeOK, Window, InvitesLeft, SizesOK
  <2>4. ShieldLeft' /\ ShieldRises' /\ ~Cached'
    BY <1>0, <2>1 DEF ShieldLeft, ShieldRises, Cached
  <2>5. QED  BY <2>2, <2>3, <2>4
<1>9. QED  BY <1>5, <1>6, <1>7, <1>8

\* The cache fails when a request counts itself.
LEMMA PassesUncountedKeeps ==
  ASSUME LimitsInv, NEW r \in Requests, PassesUncounted(r) PROVE LimitsInv'
<1> USE DEF LimitsInv
<1>0. /\ kind' = kind /\ count' = count /\ shield' = shield /\ passed' = passed + 1
      /\ restarts' = restarts /\ faults' = faults + 1 /\ faults < MaxFaults /\ req[r].at = "read"
      /\ Cached /\ kind # "invites"
      /\ count \in Nat /\ passed \in Nat /\ restarts \in Nat /\ faults \in Nat
  BY Numbers DEF PassesUncounted, Fails, LimitsTypeOK, Cached
<1>1. req' = [req EXCEPT ![r] = [at |-> "none", seen |-> 0]]
  BY FieldSet DEF PassesUncounted
<1>2. /\ req' \in [Requests -> [at : {"none", "read", "raise"}, seen : 0..(Window + MaxFaults)]]
      /\ \A q \in Requests \ {r} : req'[q] = req[q]
      /\ r \notin Looked' /\ r \notin Raising' /\ r \notin Found' /\ r \notin FoundNone'
  BY <1>1, RecordSet, FieldSet
<1>3. /\ Cardinality(Found)' <= Cardinality(Found)
      /\ Cardinality(FoundNone)' <= Cardinality(FoundNone)
      /\ Cardinality(Raising)' = Cardinality(Raising)
  BY <1>0, <1>2, RequestMoved, RecordWas, SizesTyped DEF Bit, SizesOK
<1>4. SizesOK /\ SizesOK'
  BY SizesTyped, PTL
<1>5. LimitsTypeOK'
  BY <1>0, <1>2, Numbers DEF LimitsTypeOK, Window
<1>6. RestartsLeft' /\ CounterLeft' /\ PassedCounted' /\ PassedLeft'
  BY <1>0, <1>3, <1>4, Numbers, Products
     DEF RestartsLeft, CounterLeft, PassedCounted, PassedLeft, SizesOK
<1>7. ShieldLeft'
  BY <1>0, <1>3, <1>4, Numbers, Products DEF ShieldLeft, SizesOK
<1>8. ShieldRises' /\ InvitesLeft'
  BY <1>0, Numbers DEF ShieldRises, InvitesLeft
<1>9. QED  BY <1>5, <1>6, <1>7, <1>8

\* A request raises the shield, or fails to.
LEMMA RaisesShieldKeeps ==
  ASSUME LimitsInv, NEW r \in Requests, RaisesShield(r) PROVE LimitsInv'
<1> USE DEF LimitsInv
<1>0. /\ kind' = kind /\ count' = count /\ passed' = passed /\ restarts' = restarts
      /\ req[r].at = "raise"
      /\ \/ shield' = TRUE /\ faults' = faults
         \/ shield' = shield /\ faults' = faults + 1 /\ faults < MaxFaults
      /\ count \in Nat /\ passed \in Nat /\ restarts \in Nat /\ faults \in Nat
      /\ faults <= MaxFaults
  BY Numbers DEF RaisesShield, Fails, LimitsTypeOK
<1>1. req' = [req EXCEPT ![r] = [at |-> "none", seen |-> 0]]
  BY FieldSet DEF RaisesShield
<1>2. /\ req' \in [Requests -> [at : {"none", "read", "raise"}, seen : 0..(Window + MaxFaults)]]
      /\ \A q \in Requests \ {r} : req'[q] = req[q]
      /\ r \notin Looked' /\ r \notin Raising' /\ r \notin Found' /\ r \notin FoundNone'
  BY <1>1, RecordSet, FieldSet
<1>3. /\ Cardinality(Looked)' = Cardinality(Looked)
      /\ Cardinality(Found)' = Cardinality(Found)
      /\ Cardinality(FoundNone)' = Cardinality(FoundNone)
      /\ Cardinality(Raising)' = Cardinality(Raising) - 1
  BY <1>0, <1>2, RequestMoved, RecordWas, SizesTyped DEF Bit, SizesOK
<1>4. SizesOK /\ SizesOK'
  BY SizesTyped, PTL
<1>5. LimitsTypeOK'
  <2>1. shield' \in BOOLEAN
    BY <1>0 DEF LimitsTypeOK
  <2>2. faults' \in 0..MaxFaults
    BY <1>0, Numbers
  <2>3. QED  BY <1>0, <1>2, <2>1, <2>2 DEF LimitsTypeOK, Window
<1>6. PICK n \in Nat : n = restarts * Window /\ (1 + restarts) * Window = n + Window
  BY <1>0, Products
<1>7. Cached => RestartsLeft' /\ CounterLeft' /\ PassedCounted' /\ PassedLeft'
  <2>1. Cached => RestartsLeft' /\ CounterLeft'
    BY <1>0, <1>3, <1>4, Numbers DEF RestartsLeft, CounterLeft, SizesOK
  <2>2. Cached => PassedCounted' /\ PassedLeft'
    BY <1>0, <1>3, <1>4, <1>6, Numbers DEF PassedCounted, PassedLeft, SizesOK
  <2>3. QED  BY <2>1, <2>2
<1>8. ShieldLeft'
  BY <1>0, <1>3, <1>4, <1>6, Numbers DEF ShieldLeft, SizesOK
<1>9. ShieldRises' /\ InvitesLeft' /\ (Cached' <=> Cached)
  BY <1>0, <1>3, Numbers DEF ShieldRises, InvitesLeft, Cached
<1>10. QED  BY <1>5, <1>7, <1>8, <1>9

\* The window ends, an invited account ages, the shield falls.
LEMMA TimeKeeps == ASSUME LimitsInv, WindowEnds \/ Ages \/ ShieldFalls PROVE LimitsInv'
<1> USE DEF LimitsInv
<1>0. /\ kind' = kind /\ req' = req /\ faults' = faults
      /\ count \in Nat /\ passed \in Nat /\ restarts \in Nat /\ faults \in Nat
  BY DEF WindowEnds, Ages, ShieldFalls, LimitsTypeOK
<1>1. Looked' = Looked /\ Found' = Found /\ FoundNone' = FoundNone /\ Raising' = Raising
  BY <1>0 DEF Looked, Found, FoundNone, Raising
<1>2. SizesOK
  BY SizesTyped
<1>3. CASE WindowEnds
  <2>1. /\ Cached /\ kind # "invites" /\ count' = 0 /\ passed' = 0 /\ restarts' = 0
        /\ shield' = shield
    BY <1>3 DEF WindowEnds, Cached
  <2>2. LimitsTypeOK'
    BY <1>0, <2>1, Numbers DEF LimitsTypeOK, Window
  <2>3. RestartsLeft' /\ CounterLeft' /\ PassedCounted' /\ PassedLeft'
    BY <1>0, <1>1, <1>2, <2>1, Numbers, Products
       DEF RestartsLeft, CounterLeft, PassedCounted, PassedLeft, SizesOK
  <2>4. ShieldLeft' /\ ShieldRises' /\ InvitesLeft'
    BY <1>0, <1>1, <1>2, <2>1, Numbers, Products DEF ShieldLeft, ShieldRises, InvitesLeft, SizesOK
  <2>5. QED  BY <2>2, <2>3, <2>4
<1>4. CASE Ages
  <2>1. /\ ~Cached /\ ~Cached' /\ kind = "invites" /\ count' = count - 1 /\ count' \in Nat
        /\ passed' = passed /\ restarts' = restarts /\ shield' = shield
    BY <1>0, <1>4 DEF Ages, Cached
  <2>2. LimitsTypeOK'
    BY <1>0, <2>1, Numbers DEF LimitsTypeOK, Window
  <2>3. ShieldLeft' /\ ShieldRises' /\ InvitesLeft'
    BY <1>0, <1>1, <1>2, <2>1, Numbers, Products DEF ShieldLeft, ShieldRises, InvitesLeft, SizesOK
  <2>4. QED  BY <2>1, <2>2, <2>3
<1>5. CASE ShieldFalls
  <2>1. /\ count = 0 /\ count' = count /\ passed' = passed /\ restarts' = restarts
        /\ shield' = FALSE /\ (Cached' <=> Cached)
    BY <1>0, <1>5 DEF ShieldFalls, Cached
  <2>2. LimitsTypeOK'
    BY <1>0, <2>1, Numbers DEF LimitsTypeOK, Window
  <2>3. Cached => RestartsLeft' /\ CounterLeft' /\ PassedCounted' /\ PassedLeft'
    BY <1>0, <1>1, <2>1 DEF RestartsLeft, CounterLeft, PassedCounted, PassedLeft
  <2>4. ShieldLeft'
    BY <1>0, <1>1, <1>2, <2>1, Numbers, Products DEF ShieldLeft, SizesOK, Cached, PassedCounted
  <2>5. ShieldRises' /\ InvitesLeft'
    BY <1>0, <1>1, <2>1, Numbers DEF ShieldRises, InvitesLeft
  <2>6. QED  BY <2>1, <2>2, <2>3, <2>4, <2>5
<1>6. QED  BY <1>3, <1>4, <1>5

LEMMA LimitsInvInductive == LimitsInv /\ [LimitsNext]_limitVars => LimitsInv'
<1> SUFFICES ASSUME LimitsInv, [LimitsNext]_limitVars PROVE LimitsInv'
  OBVIOUS
<1>1. ASSUME NEW r \in Requests,
             Reads(r) \/ Lapses(r) \/ Counts(r) \/ PassesUncounted(r) \/ RaisesShield(r)
      PROVE  LimitsInv'
  BY <1>1, ReadsKeeps, LapsesKeeps, CountsKeeps, PassesUncountedKeeps, RaisesShieldKeeps
<1>2. CASE WindowEnds \/ Ages \/ ShieldFalls
  BY <1>2, TimeKeeps
<1>3. CASE UNCHANGED limitVars
  BY <1>3 DEF limitVars, LimitsInv, LimitsTypeOK, RestartsLeft, CounterLeft, PassedCounted,
              PassedLeft, ShieldLeft, ShieldRises, InvitesLeft, Cached, Looked, Found, FoundNone,
              Raising
<1>4. QED  BY <1>1, <1>2, <1>3 DEF LimitsNext

\* The invariant implies the bounds.
LEMMA LimitsInvBounds == LimitsInv => LimitsHold
<1> SUFFICES ASSUME LimitsInv PROVE LimitsHold
  OBVIOUS
<1> USE DEF LimitsInv
<1>0. /\ count \in Nat /\ passed \in Nat /\ restarts \in Nat /\ faults \in Nat
  BY Numbers DEF LimitsTypeOK
<1>1. WindowBounded
  BY <1>0, SizesTyped, Numbers, Products DEF WindowBounded, RestartsLeft, PassedLeft, SizesOK, Window
<1>2. InvitesBounded
  BY <1>0, SizesTyped, Numbers DEF InvitesBounded, InvitesLeft, SizesOK, Window
<1>3. QED  BY <1>1, <1>2 DEF LimitsHold

-----------------------------------------------------------------------------
(* Limits: the theorems *)

\* The counter never exceeds the limit by more than the other requests and the
\* failures of the cache, nor does what a request has read.
THEOREM LimitsTyped == LimitsSpec => []LimitsTypeOK
<1>1. LimitsInv => LimitsTypeOK
  BY DEF LimitsInv
<1>2. QED  BY InitKeeps, LimitsInvInductive, <1>1, PTL DEF LimitsSpec

\* For any number of requests, any limit above one and any failures of the cache:
\* a window admits the limit and the other requests, once more for each restart of
\* the counter, of which there is one at most for each other request and each
\* failure; the shield is raised by whoever takes its counter to the limit; and
\* invitations exceed theirs by the other sign-ups at most (RateLimitMiddleware,
\* _update_shield_signals, validate_invite_limit).
THEOREM LimitsAlwaysHold == LimitsSpec => []LimitsHold
BY InitKeeps, LimitsInvInductive, LimitsInvBounds, PTL DEF LimitsSpec

-----------------------------------------------------------------------------
(* Caches: the invariant *)

WayType    == [clears : {"before", "after", "never"}, tells : BOOLEAN]
ReaderType == [at : {"done", "query", "set", "enqueue", "check"}, found : BOOLEAN]
EditorType == [at : {"none", "clear", "commit", "tell"}, to : Rows, way : WayType]

\* A change of an address that makes its ban count has the refresh asked for
\* after the commit, and changes of the other tables never do.
Told(change) ==
  change.at # "none" =>
    /\ table = "addresses" /\ change.to = "live" => change.way.tells /\ change.way.clears # "after"
    /\ table # "addresses" => ~change.way.tells
    /\ change.at = "tell" => change.way.tells

ChangesTell == \A e \in Editors : Told(editor[e])

\* A refresh that will read the table, or was lost.
Coming ==
  \/ queued > 0 \/ lost
  \/ \E r \in Readers : reader[r].at = "enqueue"
  \/ \E e \in Editors : editor[e].at = "tell"

\* A refresh that read the table before the ban counted has another after it.
LateRefreshFollowed ==
  table = "addresses" /\ row = "live" /\ worker.at = "set" /\ ~worker.found => Coming

CachesInv ==
  /\ CachesTypeOK
  /\ editor \in [Editors -> EditorType]
  /\ ChangesTell
  /\ LateRefreshFollowed
  /\ BanReaches

-----------------------------------------------------------------------------
(* Caches: lemmas *)

LEMMA WayTyped ==
  \A clears \in {"before", "after", "never"}, tells \in BOOLEAN :
    /\ Way(clears, tells) \in WayType
    /\ Way(clears, tells).clears = clears
    /\ Way(clears, tells).tells = tells
BY DEF Way, WayType

\* The ways of a change: only what takes an address away clears after the commit
\* and tells nobody, and only addresses are told of.
LEMMA WaysOfChanges ==
  ASSUME NEW to \in Rows, NEW way \in Ways(to)
  PROVE  /\ way \in WayType
         /\ table = "addresses" /\ to = "live" => way.tells /\ way.clears # "after"
         /\ table # "addresses" => ~way.tells
<1>1. CASE table = "addresses"
  <2>1. \/ way = Way("before", TRUE) \/ way = Way("never", TRUE)
        \/ to = "none" /\ way = Way("after", FALSE)
    BY <1>1 DEF Ways
  <2>2. QED  BY <1>1, <2>1, WayTyped
<1>2. CASE table # "addresses"
  <2>1. way = Way("before", FALSE) \/ way = Way("after", FALSE) \/ way = Way("never", FALSE)
    BY <1>2 DEF Ways
  <2>2. QED  BY <1>2, <2>1, WayTyped
<1>3. QED  BY <1>1, <1>2

LEMMA CachesInitially == CachesInit => CachesInv
<1> SUFFICES ASSUME CachesInit PROVE CachesInv
  OBVIOUS
<1> USE DEF CachesInit
<1>1. Idle \in ReaderType /\ Idle \in [at : {"done", "set"}, found : BOOLEAN] /\ Idle.at = "done"
  BY DEF Idle, ReaderType
<1>2. Nobody \in EditorType /\ Nobody.at = "none" /\ Nobody.to = "none"
  BY WayTyped DEF Nobody, EditorType, Rows
<1>3. CachesTypeOK
  <2>1. table \in Tables /\ row \in Rows
    BY DEF Tables, Rows
  <2>2. reader \in [Readers -> ReaderType] /\ \A r \in Readers : reader[r].at = "done"
    BY <1>1
  <2>3. changes \in 0..MaxChanges /\ losses \in 0..MaxLosses /\ queued \in Nat
    BY CachesAssumption
  <2>4. \A e \in Editors : /\ editor[e].at \in {"none", "clear", "commit", "tell"}
                          /\ editor[e].to \in Rows
    BY <1>2 DEF EditorType
  <2>5. QED  BY <1>1, <2>1, <2>2, <2>3, <2>4 DEF CachesTypeOK, ReaderType
<1>4. editor \in [Editors -> EditorType] /\ ChangesTell
  BY <1>2 DEF ChangesTell, Told
<1>5. LateRefreshFollowed /\ BanReaches
  BY <1>1 DEF LateRefreshFollowed, BanReaches
<1>6. QED  BY <1>3, <1>4, <1>5 DEF CachesInv

LEMMA ReaderGone ==
  ASSUME CachesTypeOK, NEW r \in Readers, NEW at \in {"done", "query", "set", "enqueue", "check"},
         NEW found \in BOOLEAN, ReaderGoes(r, at, found)
  PROVE  /\ reader' \in [Readers -> ReaderType]
         /\ reader'[r].at = at
         /\ \A q \in Readers \ {r} : reader'[q] = reader[q]
<1>1. [at |-> at, found |-> found] \in ReaderType
  BY DEF ReaderType
<1>2. QED  BY <1>1 DEF ReaderGoes, CachesTypeOK, ReaderType

\* Steps of requests that read the table.
LEMMA ReadersKeepCachesInv ==
  ASSUME CachesInv, NEW r \in Readers, ReaderStep(r)
  PROVE  CachesInv'
<1> USE DEF CachesInv
<1>0. /\ editor' = editor /\ row' = row /\ table' = table /\ worker' = worker
      /\ changes' = changes
  BY DEF ReaderStep, Gets, Queries, Sets, Refreshes, Checks
<1>r. reader[r].found \in BOOLEAN
  BY DEF CachesTypeOK
<1>1. \E at \in {"done", "query", "set", "enqueue", "check"}, found \in BOOLEAN :
        /\ ReaderGoes(r, at, found)
        /\ table # "addresses" => at \in {"done", "query", "set"}
        /\ reader[r].at = "set" /\ table = "addresses" => at = "enqueue"
  <2>1. CASE Gets(r)
    <3>1. copy \subseteq BOOLEAN
      BY ZenonT(40) DEF CachesTypeOK
    <3>2. QED  BY <2>1, <3>1 DEF Gets, AfterRead
  <2>2. CASE Queries(r)
    BY <2>2 DEF Queries, Counting
  <2>3. CASE Sets(r)
    BY <2>3, <1>r DEF Sets
  <2>4. CASE Refreshes(r)
    BY <2>4, <1>r DEF Refreshes, CachesTypeOK
  <2>5. CASE Checks(r)
    <3>1. (reader[r].found \/ Counting) \in BOOLEAN
      BY DEF Counting
    <3>2. QED  BY <2>5, <3>1 DEF Checks
  <2>6. QED  BY <2>1, <2>2, <2>3, <2>4, <2>5 DEF ReaderStep
<1>2. PICK at \in {"done", "query", "set", "enqueue", "check"} :
        /\ reader' \in [Readers -> ReaderType]
        /\ reader'[r].at = at
        /\ \A q \in Readers \ {r} : reader'[q] = reader[q]
        /\ table # "addresses" => at \in {"done", "query", "set"}
        /\ reader[r].at = "set" /\ table = "addresses" => at = "enqueue"
  BY <1>1, ReaderGone
<1>3. copy' = copy \/ (reader[r].at = "set" /\ copy' = {reader[r].found})
  BY DEF ReaderStep, Gets, Queries, Sets, Refreshes, Checks, Stores
<1>4. losses' = losses \/ Loses
  BY DEF ReaderStep, Gets, Queries, Sets, Refreshes, Checks
<1>5. \/ queued' = queued /\ lost' = lost /\ reader[r].at # "enqueue"
      \/ queued' = queued + 1 /\ lost' = FALSE /\ reader[r].at = "enqueue"
      \/ queued' = queued /\ lost' = TRUE /\ reader[r].at = "enqueue"
  BY DEF ReaderStep, Gets, Queries, Sets, Refreshes, Checks, Enqueues
<1>6. CachesTypeOK'
  <2>1. reader[r].at = "enqueue" => table = "addresses"
    BY DEF CachesTypeOK
  <2>2. (copy \in {{}, {FALSE}, {TRUE}})'
    <3>1. {reader[r].found} \in {{}, {FALSE}, {TRUE}}
      BY <1>r
    <3>2. QED  BY <1>3, <3>1 DEF CachesTypeOK
  <2>3. (losses \in 0..MaxLosses)'
    BY <1>4, CachesAssumption DEF CachesTypeOK, Loses
  <2>4. (queued \in Nat)' /\ (table # "addresses" => queued = 0)'
    BY <1>0, <1>5, <2>1 DEF CachesTypeOK
  <2>5. (lost \in BOOLEAN)'
    BY <1>5 DEF CachesTypeOK
  <2>6. (\A q \in Readers : table # "addresses" => reader[q].at \in {"done", "query", "set"})'
    BY <1>0, <1>2 DEF CachesTypeOK
  <2>7. QED  BY <1>0, <1>2, <2>2, <2>3, <2>4, <2>5, <2>6 DEF CachesTypeOK, ReaderType
<1>7. (editor \in [Editors -> EditorType])' /\ ChangesTell'
  BY <1>0 DEF ChangesTell, Told
<1>8. Coming => Coming'
  BY <1>0, <1>2, <1>5 DEF Coming, CachesTypeOK
<1>9. copy' # copy /\ table = "addresses" => Coming'
  BY <1>2, <1>3 DEF Coming
<1>10. LateRefreshFollowed'
  BY <1>0, <1>8 DEF LateRefreshFollowed
<1>11. BanReaches'
  BY <1>0, <1>8, <1>9 DEF BanReaches, Coming
<1>12. QED  BY <1>6, <1>7, <1>10, <1>11

\* What a change becomes by a step of its request, and that it will tell of a
\* row that begins to count.
Becomes(e, next) ==
  /\ next \in EditorType
  /\ editor' = [editor EXCEPT ![e] = next]
  /\ Told(next)
  /\ row' = "live" /\ row # "live" /\ table = "addresses" => next.at = "tell"

LEMMA BeginsBecomes ==
  ASSUME CachesInv, NEW e \in Editors, Begins(e)
  PROVE  \E next : Becomes(e, next)
<1>1. PICK to \in Rows : \E way \in Ways(to) :
        editor' = [editor EXCEPT ![e] =
          [at |-> IF way.clears = "before" THEN "clear" ELSE "commit", to |-> to, way |-> way]]
  BY DEF Begins, Rows
<1>2. PICK way \in Ways(to) :
        editor' = [editor EXCEPT ![e] =
          [at |-> IF way.clears = "before" THEN "clear" ELSE "commit", to |-> to, way |-> way]]
  BY <1>1
<1>3. /\ way \in WayType
      /\ table = "addresses" /\ to = "live" => way.tells /\ way.clears # "after"
      /\ table # "addresses" => ~way.tells
  BY WaysOfChanges
<1> DEFINE next == [at |-> IF way.clears = "before" THEN "clear" ELSE "commit",
                    to |-> to, way |-> way]
<1>4. next \in EditorType /\ next.to = to /\ next.way = way /\ next.at \in {"clear", "commit"}
  BY <1>3 DEF EditorType
<1>5. row' = row /\ editor' = [editor EXCEPT ![e] = next]
  BY <1>2 DEF Begins
<1> HIDE DEF next
<1>6. Told(next)
  BY <1>3, <1>4 DEF Told
<1>7. QED  BY <1>4, <1>5, <1>6 DEF Becomes

LEMMA StepBecomes ==
  ASSUME CachesInv, NEW e \in Editors, EditorStep(e)
  PROVE  \E next : Becomes(e, next)
<1>1. Nobody \in EditorType /\ Told(Nobody)
  BY WayTyped DEF Nobody, EditorType, Rows, Told
<1>2. editor[e] \in EditorType /\ Told(editor[e])
  BY DEF CachesInv, ChangesTell
<1> DEFINE To(at) == [editor[e] EXCEPT !.at = at]
<1>3. \A at \in {"commit", "clear", "tell"} :
        /\ To(at) \in EditorType
        /\ To(at).at = at /\ To(at).to = editor[e].to /\ To(at).way = editor[e].way
        /\ EditorGoes(e, at) => editor' = [editor EXCEPT ![e] = To(at)]
  BY <1>2 DEF EditorType, EditorGoes
<1> HIDE DEF To
<1>4. CASE ClearsBefore(e)
  <2>1. Told(To("commit")) /\ row' = row
    BY <1>2, <1>3, <1>4 DEF Told, ClearsBefore
  <2>2. QED  BY <1>3, <1>4, <2>1 DEF Becomes, ClearsBefore
<1>5. CASE Commits(e)
  <2>1. CASE editor[e].way.clears = "after"
    <3>1. Told(To("clear")) /\ (table = "addresses" => row' # "live")
      BY <1>2, <1>3, <1>5, <2>1 DEF Told, Commits
    <3>2. QED  BY <1>3, <1>5, <2>1, <3>1 DEF Becomes, Commits
  <2>2. CASE editor[e].way.clears # "after" /\ editor[e].way.tells
    <3>1. Told(To("tell"))
      BY <1>2, <1>3, <1>5, <2>2 DEF Told, Commits
    <3>2. QED  BY <1>3, <1>5, <2>2, <3>1 DEF Becomes, Commits
  <2>3. CASE editor[e].way.clears # "after" /\ ~editor[e].way.tells
    <3>1. table = "addresses" => row' # "live"
      BY <1>2, <1>5, <2>3 DEF Told, Commits
    <3>2. QED  BY <1>1, <1>5, <2>3, <3>1 DEF Becomes, Commits, Finishes
  <2>4. QED  BY <2>1, <2>2, <2>3
<1>6. CASE ClearsAfter(e) \/ Tells(e)
  <2>1. row' = row /\ editor' = [editor EXCEPT ![e] = Nobody]
    BY <1>6 DEF ClearsAfter, Tells, Finishes
  <2>2. QED  BY <1>1, <2>1 DEF Becomes
<1>7. QED  BY <1>4, <1>5, <1>6 DEF EditorStep

\* Steps of requests that change the table.
LEMMA EditorsKeepCachesInv ==
  ASSUME CachesInv, NEW e \in Editors, Begins(e) \/ EditorStep(e)
  PROVE  CachesInv'
<1> USE DEF CachesInv
<1>0. table' = table /\ reader' = reader /\ worker' = worker
  BY DEF EditorStep, Begins, ClearsBefore, Commits, ClearsAfter, Tells
<1>1. PICK next : Becomes(e, next)
  BY BeginsBecomes, StepBecomes
<1>2. (editor \in [Editors -> EditorType])'
  BY <1>1 DEF Becomes
<1>3. ChangesTell'
  BY <1>0, <1>1 DEF Becomes, ChangesTell, Told
<1>4. copy' = copy \/ copy' = {}
  BY DEF EditorStep, Begins, ClearsBefore, Commits, ClearsAfter, Tells, Clears
<1>5. \/ queued' = queued /\ lost' = lost /\ editor[e].at # "tell"
      \/ queued' = queued + 1 /\ lost' = FALSE /\ editor[e].at = "tell"
      \/ queued' = queued /\ lost' = TRUE /\ editor[e].at = "tell"
  BY DEF EditorStep, Begins, ClearsBefore, Commits, ClearsAfter, Tells, Enqueues
<1>6. CachesTypeOK'
  <2>1. (row \in Rows)'
    BY DEF EditorStep, Begins, ClearsBefore, Commits, ClearsAfter, Tells, CachesTypeOK, EditorType
  <2>2. (copy \in {{}, {FALSE}, {TRUE}})'
    BY <1>4 DEF CachesTypeOK
  <2>3. (losses \in 0..MaxLosses)'
    BY CachesAssumption
       DEF EditorStep, Begins, ClearsBefore, Commits, ClearsAfter, Tells, CachesTypeOK, Loses
  <2>4. (changes \in 0..MaxChanges)'
    BY CachesAssumption
       DEF EditorStep, Begins, ClearsBefore, Commits, ClearsAfter, Tells, CachesTypeOK
  <2>5. (queued \in Nat)' /\ (table # "addresses" => queued = 0)'
    <3>1. table # "addresses" => editor[e].at # "tell"
      BY DEF ChangesTell, Told
    <3>2. QED  BY <1>0, <1>5, <3>1 DEF CachesTypeOK
  <2>6. (lost \in BOOLEAN)'
    BY <1>5 DEF CachesTypeOK
  <2>7. QED  BY <1>0, <1>2, <2>1, <2>2, <2>3, <2>4, <2>5, <2>6 DEF CachesTypeOK, EditorType
<1>7. Coming => Coming'
  BY <1>0, <1>1, <1>5 DEF Coming, Becomes, CachesTypeOK
<1>8. row' = "live" /\ row # "live" /\ table = "addresses" => Coming'
  BY <1>1 DEF Becomes, Coming
<1>9. LateRefreshFollowed'
  BY <1>0, <1>7, <1>8 DEF LateRefreshFollowed
<1>10. BanReaches'
  BY <1>0, <1>4, <1>7, <1>8 DEF BanReaches, Coming
<1>11. QED  BY <1>2, <1>3, <1>6, <1>9, <1>10

\* The worker, the expiry of the copy and the end of a ban.
LEMMA OthersKeepCachesInv ==
  ASSUME CachesInv, Expires \/ TakesRefresh \/ DoesRefresh \/ LosesRefresh \/ EndsBan
  PROVE  CachesInv'
<1> USE DEF CachesInv
<1>0. table' = table /\ reader' = reader /\ editor' = editor
  BY DEF Expires, TakesRefresh, DoesRefresh, LosesRefresh, EndsBan
<1>1. (editor \in [Editors -> EditorType])' /\ ChangesTell'
  BY <1>0 DEF ChangesTell, Told
<1>2. Idle.at = "done" /\ Idle.found = FALSE /\ Idle \in [at : {"done", "set"}, found : BOOLEAN]
  BY DEF Idle
<1>3. CASE Expires
  <2>1. CachesTypeOK'
    BY <1>0, <1>3 DEF Expires, CachesTypeOK
  <2>2. Coming' <=> Coming
    BY <1>0, <1>3 DEF Expires, Coming
  <2>3. LateRefreshFollowed' /\ BanReaches'
    BY <1>0, <1>3, <2>2 DEF Expires, LateRefreshFollowed, BanReaches
  <2>4. QED  BY <1>1, <2>1, <2>3
<1>4. CASE TakesRefresh
  <2>1. worker' \in [at : {"done", "set"}, found : BOOLEAN]
        /\ worker'.at = "set" /\ worker'.found = (row # "none")
    BY <1>4 DEF TakesRefresh, Listed
  <2>2. queued' \in Nat /\ table = "addresses"
    BY <1>4 DEF TakesRefresh, CachesTypeOK
  <2>3. CachesTypeOK'
    BY <1>0, <1>4, <2>1, <2>2 DEF TakesRefresh, CachesTypeOK
  <2>4. LateRefreshFollowed' /\ BanReaches'
    BY <1>0, <1>4, <2>1 DEF TakesRefresh, LateRefreshFollowed, BanReaches
  <2>5. QED  BY <1>1, <2>3, <2>4
<1>5. CASE DoesRefresh
  <2>1. worker.found \in BOOLEAN /\ worker' = Idle /\ row' = row /\ queued' = queued
    BY <1>5 DEF DoesRefresh, CachesTypeOK
  <2>2. \/ copy' = {worker.found} /\ losses' = losses /\ lost' = lost
        \/ copy' = copy /\ losses < MaxLosses /\ losses' = losses + 1 /\ lost' = TRUE
    BY <1>5 DEF DoesRefresh, Stores, Loses
  <2>3. (copy \in {{}, {FALSE}, {TRUE}})'
    <3>1. {worker.found} \in {{}, {FALSE}, {TRUE}}
      BY <2>1
    <3>2. QED  BY <2>2, <3>1 DEF CachesTypeOK
  <2>4. (losses \in 0..MaxLosses)' /\ (changes \in 0..MaxChanges)'
    BY <1>5, <2>2, CachesAssumption DEF DoesRefresh, CachesTypeOK
  <2>5. (lost \in BOOLEAN)'
    BY <2>2 DEF CachesTypeOK
  <2>6. CachesTypeOK'
    BY <1>0, <1>2, <2>1, <2>3, <2>4, <2>5 DEF CachesTypeOK
  <2>7. LateRefreshFollowed'
    BY <1>2, <2>1 DEF LateRefreshFollowed
  <2>8. BanReaches'
    <3>1. CASE lost'
      BY <3>1 DEF BanReaches
    <3>2. CASE worker.found
      <4>1. worker.found = TRUE
        BY <2>1, <3>2
      <4>2. copy' = {TRUE} \/ lost'
        BY <2>2, <4>1
      <4>3. copy' # {FALSE} \/ lost'
        BY <4>2
      <4>4. QED  BY <4>3 DEF BanReaches
    <3>3. CASE ~lost' /\ ~worker.found
      <4>1. table = "addresses" /\ row = "live" => Coming
        BY <1>5, <3>3 DEF LateRefreshFollowed, DoesRefresh
      <4>2. QED  BY <1>0, <2>1, <2>2, <3>3, <4>1 DEF BanReaches, Coming
    <3>4. QED  BY <3>1, <3>2, <3>3
  <2>9. QED  BY <1>1, <2>6, <2>7, <2>8
<1>6. CASE LosesRefresh
  <2>1. queued' \in Nat /\ losses' \in 0..MaxLosses /\ lost' /\ lost' \in BOOLEAN
    BY <1>6, CachesAssumption DEF LosesRefresh, Loses, CachesTypeOK
  <2>2. worker' \in {worker, Idle} /\ table = "addresses"
    BY <1>6 DEF LosesRefresh, CachesTypeOK, Idle
  <2>3. CachesTypeOK'
    BY <1>0, <1>2, <1>6, <2>1, <2>2 DEF LosesRefresh, CachesTypeOK
  <2>4. LateRefreshFollowed' /\ BanReaches'
    BY <2>1 DEF LateRefreshFollowed, BanReaches, Coming
  <2>5. QED  BY <1>1, <2>3, <2>4
<1>7. CASE EndsBan
  <2>1. row' = "idle" /\ row' \in Rows /\ changes' \in 0..MaxChanges
    BY <1>7, CachesAssumption DEF EndsBan, CachesTypeOK, Rows
  <2>2. CachesTypeOK'
    BY <1>0, <1>7, <2>1 DEF EndsBan, CachesTypeOK
  <2>3. LateRefreshFollowed' /\ BanReaches'
    BY <2>1 DEF LateRefreshFollowed, BanReaches
  <2>4. QED  BY <1>1, <2>2, <2>3
<1>8. QED  BY <1>3, <1>4, <1>5, <1>6, <1>7

LEMMA CachesInvInductive == CachesInv /\ [CachesNext]_cacheVars => CachesInv'
<1> SUFFICES ASSUME CachesInv, [CachesNext]_cacheVars PROVE CachesInv'
  OBVIOUS
<1>1. ASSUME NEW r \in Readers, ReaderStep(r) PROVE CachesInv'
  BY <1>1, ReadersKeepCachesInv
<1>2. ASSUME NEW e \in Editors, Begins(e) \/ EditorStep(e) PROVE CachesInv'
  BY <1>2, EditorsKeepCachesInv
<1>3. CASE Expires \/ TakesRefresh \/ DoesRefresh \/ LosesRefresh \/ EndsBan
  BY <1>3, OthersKeepCachesInv
<1>4. CASE UNCHANGED cacheVars
  BY <1>4 DEF cacheVars, CachesInv, CachesTypeOK, EditorType, ChangesTell, LateRefreshFollowed,
              BanReaches, Coming, Told
<1>5. QED  BY <1>1, <1>2, <1>3, <1>4 DEF CachesNext

-----------------------------------------------------------------------------
(* Caches: the theorems *)

\* The tables, the copy and the requests have their types, and only banned
\* addresses are refreshed by the worker (AntiSpamService._get_rules,
\* get_cached_blacklist, BlockBannedIP.get_banned_set).
THEOREM CachesTyped == CachesSpec => []CachesTypeOK
<1>1. CachesInv => CachesTypeOK
  BY DEF CachesInv
<1>2. QED  BY CachesInitially, CachesInvInductive, <1>1, PTL DEF CachesSpec

\* While a ban by address counts, a copy without the address has a refresh on
\* its way, or somebody who will ask for one, or it was lost: whatever requests
\* that filled the cache late, changes and the worker do meanwhile.
THEOREM BanReachesCopy == CachesSpec => []BanReaches
<1>1. CachesInv => BanReaches
  BY DEF CachesInv
<1>2. QED  BY CachesInitially, CachesInvInductive, <1>1, PTL DEF CachesSpec
=============================================================================
