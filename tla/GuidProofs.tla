----------------------------- MODULE GuidProofs -----------------------------
(***************************************************************************)
(* Guid for every number of factories, every field width and every clock:  *)
(* the type invariant, StrictlyIncreasing and NoCollision.                 *)
(***************************************************************************)
EXTENDS Guid, TLAPS

\* A number splits into quotient and remainder in one way only.
LEMMA SplitUnique ==
    ASSUME NEW S \in Nat \ {0}, NEW a \in Int, NEW b \in Int,
           NEW r \in 0 .. S - 1, NEW q \in 0 .. S - 1,
           a * S + r = b * S + q
    PROVE  a = b
<1>1. (a - b) * S = q - r
  <2>1. (a - b) * S = a * S - b * S
    OBVIOUS
  <2>2. a * S \in Int /\ b * S \in Int
    OBVIOUS
  <2> QED  BY <2>1, <2>2
<1>2. -S < q - r /\ q - r < S
  OBVIOUS
<1> DEFINE d == a - b
<1>3. d \in Int /\ d * S = q - r
  BY <1>1
<1> HIDE DEF d
<1>4. CASE d >= 1
  <2>1. d * S >= S
    BY <1>4, <1>3
  <2> QED  BY <2>1, <1>2, <1>3
<1>5. CASE d <= -1
  <2>1. d * S <= -S
    BY <1>5, <1>3
  <2> QED  BY <2>1, <1>2, <1>3
<1>6. CASE d = 0
  BY <1>6 DEF d
<1> QED  BY <1>3, <1>4, <1>5, <1>6

\* The shifts of NewGUID keep the node ID recoverable: equal ids have equal
\* node IDs.
LEMMA ComposeNode ==
    ASSUME NEW t \in Int, NEW u \in Int,
           NEW m \in 0 .. NodeSize - 1, NEW n \in 0 .. NodeSize - 1,
           NEW r \in 0 .. SeqSize - 1, NEW q \in 0 .. SeqSize - 1,
           Compose(t, m, r) = Compose(u, n, q)
    PROVE  m = n
<1> DEFINE a == (t - Twepoch) * NodeSize + m
           b == (u - Twepoch) * NodeSize + n
<1>1. a \in Int /\ b \in Int
  BY GuidAssumption
<1>2. a * SeqSize + r = b * SeqSize + q
  BY DEF Compose
<1> HIDE DEF a, b
<1>3. a = b
  BY <1>1, <1>2, SplitUnique, GuidAssumption
<1>4. (t - Twepoch) * NodeSize + m = (u - Twepoch) * NodeSize + n
  BY <1>3 DEF a, b
<1>5. t - Twepoch = u - Twepoch
  BY <1>4, SplitUnique, GuidAssumption
<1>6. (t - Twepoch) * NodeSize \in Int
  BY GuidAssumption
<1> QED  BY <1>4, <1>5, <1>6

LEMMA ComposeType ==
    ASSUME NEW t \in Int, NEW m \in Int, NEW r \in Int
    PROVE  Compose(t, m, r) \in Int
BY GuidAssumption DEF Compose

-----------------------------------------------------------------------------
\* The last id bounds every id returned so far; without it "id > lastID"
\* would say nothing about the older ones.
IssuedUpToLast ==
    \A f \in Factory : \A i \in 1 .. Len(issued[f]) : issued[f][i] <= lastID[f]

\* Every id carries the node ID of the factory that returned it.
IssuedComposed ==
    \A f \in Factory : \A i \in 1 .. Len(issued[f]) :
        \E t \in Int, s \in 0 .. SeqSize - 1 :
            issued[f][i] = Compose(t, NodeID[f], s)

IInv == TypeOK /\ StrictlyIncreasing /\ IssuedUpToLast /\ IssuedComposed

LEMMA NextSequenceType ==
    ASSUME TypeOK, NEW f \in Factory, NEW ts
    PROVE  NextSequence(f, ts) \in 0 .. SeqSize - 1
BY GuidAssumption DEF TypeOK, NextSequence

LEMMA InitIInv == Init => IInv
BY GuidAssumption DEF Init, IInv, TypeOK, StrictlyIncreasing, IssuedUpToLast,
                      IssuedComposed

\* The step that returns an id.
LEMMA IssueIInv ==
    ASSUME IInv, NEW f \in Factory, Issue(f)
    PROVE  IInv'
<1> DEFINE ts  == clock[f]
           seq == NextSequence(f, ts)
           id  == Compose(ts, NodeID[f], seq)
<1>1. TypeOK /\ StrictlyIncreasing /\ IssuedUpToLast /\ IssuedComposed
  BY DEF IInv
<1>2. ts \in Nat /\ seq \in 0 .. SeqSize - 1 /\ NodeID[f] \in 0 .. NodeSize - 1
  BY <1>1, NextSequenceType, GuidAssumption DEF TypeOK
<1>3. id \in Int
  <2>1. ts \in Int /\ NodeID[f] \in Int /\ seq \in Int
    BY <1>2, GuidAssumption
  <2> HIDE DEF ts, seq
  <2> QED  BY <2>1, ComposeType
<1>4. /\ sequence' = [sequence EXCEPT ![f] = seq]
      /\ lastTimestamp' = [lastTimestamp EXCEPT ![f] = ts]
      /\ clock' = clock
      /\ IF id <= lastID[f]
           THEN UNCHANGED <<lastID, issued>>
           ELSE /\ lastID' = [lastID EXCEPT ![f] = id]
                /\ issued' = [issued EXCEPT ![f] = Append(@, id)]
  BY DEF Issue, IDBackwards
<1>5. \E t \in Int, s \in 0 .. SeqSize - 1 : id = Compose(t, NodeID[f], s)
  BY <1>2
<1> HIDE DEF id, seq, ts
<1>6. CASE id <= lastID[f]
  BY <1>6, <1>1, <1>2, <1>4
     DEF IInv, TypeOK, StrictlyIncreasing, IssuedUpToLast, IssuedComposed
<1>7. CASE ~(id <= lastID[f])
  <2>1. id \in Nat /\ id > lastID[f]
    BY <1>7, <1>3, <1>1 DEF TypeOK
  <2>2. /\ lastID' = [lastID EXCEPT ![f] = id]
        /\ issued' = [issued EXCEPT ![f] = Append(issued[f], id)]
    BY <1>7, <1>4
  <2>3. TypeOK'
    BY <1>1, <1>2, <1>4, <2>1, <2>2 DEF TypeOK
  <2>4. /\ Len(issued'[f]) = Len(issued[f]) + 1
        /\ \A i \in 1 .. Len(issued[f]) : issued'[f][i] = issued[f][i]
        /\ issued'[f][Len(issued[f]) + 1] = id
        /\ Len(issued[f]) \in Nat
        /\ \A g \in Factory \ {f} : issued'[g] = issued[g]
    BY <1>1, <2>1, <2>2 DEF TypeOK
  <2>5. lastID'[f] = id /\ \A g \in Factory \ {f} : lastID'[g] = lastID[g]
    BY <1>1, <2>2 DEF TypeOK
  <2>6. \A i \in 1 .. Len(issued[f]) : issued[f][i] \in Nat /\ issued[f][i] < id
    BY <1>1, <2>1 DEF TypeOK, IssuedUpToLast
  <2>7. StrictlyIncreasing'
    <3>1. SUFFICES ASSUME NEW g \in Factory,
                          NEW i \in 1 .. Len(issued'[g]),
                          NEW j \in 1 .. Len(issued'[g]), i < j
                   PROVE  issued'[g][i] < issued'[g][j]
      BY DEF StrictlyIncreasing
    <3>2. CASE g # f
      BY <3>1, <3>2, <2>4, <1>1 DEF StrictlyIncreasing
    <3>3. CASE g = f /\ j = Len(issued[f]) + 1
      BY <3>1, <3>3, <2>4, <2>6
    <3>4. CASE g = f /\ j # Len(issued[f]) + 1
      BY <3>1, <3>4, <2>4, <1>1 DEF StrictlyIncreasing
    <3> QED  BY <3>2, <3>3, <3>4
  <2>8. IssuedUpToLast'
    <3>1. SUFFICES ASSUME NEW g \in Factory, NEW i \in 1 .. Len(issued'[g])
                   PROVE  issued'[g][i] <= lastID'[g]
      BY DEF IssuedUpToLast
    <3>2. CASE g # f
      BY <3>2, <2>4, <2>5, <1>1 DEF IssuedUpToLast
    <3>3. CASE g = f
      BY <3>3, <2>1, <2>4, <2>5, <2>6
    <3> QED  BY <3>2, <3>3
  <2>9. IssuedComposed'
    <3>1. SUFFICES ASSUME NEW g \in Factory, NEW i \in 1 .. Len(issued'[g])
                   PROVE  \E t \in Int, s \in 0 .. SeqSize - 1 :
                             issued'[g][i] = Compose(t, NodeID[g], s)
      BY DEF IssuedComposed
    <3>2. CASE g # f
      BY <3>2, <2>4, <1>1 DEF IssuedComposed
    <3>3. CASE g = f /\ i = Len(issued[f]) + 1
      BY <3>3, <2>4, <1>5
    <3>4. CASE g = f /\ i # Len(issued[f]) + 1
      BY <3>4, <2>4, <1>1 DEF IssuedComposed
    <3> QED  BY <3>2, <3>3, <3>4
  <2> QED  BY <2>3, <2>7, <2>8, <2>9 DEF IInv
<1> QED  BY <1>6, <1>7

LEMMA NextIInv == IInv /\ [Next]_vars => IInv'
<1> SUFFICES ASSUME IInv, [Next]_vars  PROVE IInv'
  OBVIOUS
<1> USE DEF IInv
<1>1. CASE UNCHANGED vars
  BY <1>1 DEF vars, TypeOK, StrictlyIncreasing, IssuedUpToLast, IssuedComposed
<1>2. ASSUME NEW f \in Factory, Tick(f)  PROVE IInv'
  BY <1>2 DEF Tick, TypeOK, StrictlyIncreasing, IssuedUpToLast, IssuedComposed
<1>3. ASSUME NEW f \in Factory, TimeBackwards(f)  PROVE IInv'
  BY <1>3, <1>1 DEF TimeBackwards
<1>4. ASSUME NEW f \in Factory, SequenceExpired(f)  PROVE IInv'
  BY <1>4, GuidAssumption
     DEF SequenceExpired, TypeOK, StrictlyIncreasing, IssuedUpToLast,
         IssuedComposed
<1>5. ASSUME NEW f \in Factory, Issue(f)  PROVE IInv'
  BY <1>5, IssueIInv
<1> QED  BY <1>1, <1>2, <1>3, <1>4, <1>5 DEF Next, NewGUID

THEOREM IInvariant == Spec => []IInv
BY InitIInv, NextIInv, PTL DEF Spec

\* The state of the factories stays well typed.
THEOREM TypeCorrect == Spec => []TypeOK
BY IInvariant, PTL DEF IInv

\* The ids of one topic strictly increase, for every clock and any number of
\* sequence wraps.
THEOREM Increasing == Spec => []StrictlyIncreasing
BY IInvariant, PTL DEF IInv

\* nsqds with different IDs never return the same message id.
THEOREM CollisionFree == Spec => []NoCollision
<1>1. IInv => NoCollision
  <2> SUFFICES ASSUME IInv, NEW f \in Factory, NEW g \in Factory,
                      NodeID[f] # NodeID[g],
                      NEW i \in 1 .. Len(issued[f]),
                      NEW j \in 1 .. Len(issued[g])
               PROVE  issued[f][i] # issued[g][j]
    BY DEF NoCollision
  <2>1. PICK t \in Int, r \in 0 .. SeqSize - 1 :
            issued[f][i] = Compose(t, NodeID[f], r)
    BY DEF IInv, IssuedComposed
  <2>2. PICK u \in Int, q \in 0 .. SeqSize - 1 :
            issued[g][j] = Compose(u, NodeID[g], q)
    BY DEF IInv, IssuedComposed
  <2>3. NodeID[f] \in 0 .. NodeSize - 1 /\ NodeID[g] \in 0 .. NodeSize - 1
    BY GuidAssumption
  <2> QED  BY <2>1, <2>2, <2>3, ComposeNode
<1> QED  BY <1>1, IInvariant, PTL
=============================================================================
