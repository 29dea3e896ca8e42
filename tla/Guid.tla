-------------------------------- MODULE Guid --------------------------------
(***************************************************************************)
(* Message IDs (nsqd/guid.go).  Every topic of every nsqd owns one         *)
(* guidFactory; NewGUID runs under the factory's mutex and is therefore    *)
(* one step, whatever the number of publishers.  The wall clock it reads   *)
(* is an input: it may stand still, advance, or be set back.               *)
(***************************************************************************)
EXTENDS Integers, Sequences

CONSTANTS
    Factory,        \* the guidFactories: one per (nsqd, topic)
    NodeID,         \* NodeID[f]: opts.ID of the nsqd that owns f
    NodeSize,       \* 2^nodeIDBits
    SeqSize,        \* 2^sequenceBits
    Time,           \* the readings of time.Now().UnixNano() >> 20
    Twepoch         \* the origin of the timestamps

\* nsqd.New refuses an ID outside [0, 1024).
ASSUME GuidAssumption ==
    /\ NodeSize \in Nat \ {0}
    /\ SeqSize \in Nat \ {0}
    /\ NodeID \in [Factory -> 0 .. NodeSize - 1]
    /\ Time \subseteq Nat
    /\ Twepoch \in Nat

VARIABLES
    clock,          \* clock[f]: what f's host would read now
    sequence,
    lastTimestamp,
    lastID,
    issued          \* history: the ids NewGUID has returned, in order

vars == <<clock, sequence, lastTimestamp, lastID, issued>>

-----------------------------------------------------------------------------
\* A plausible bug, for mutation: the timestamp is shifted past one field only.
Mut_Compose(ts, node, seq) == ((ts - Twepoch) + node) * SeqSize + seq

\* ((ts - twepoch) << timestampShift) | (nodeID << nodeIDShift) | sequence:
\* the three fields do not overlap, so the ors are additions.
Compose(ts, node, seq) == ((ts - Twepoch) * NodeSize + node) * SeqSize + seq

Init ==
    /\ clock \in [Factory -> Time]
    /\ sequence = [f \in Factory |-> 0]
    /\ lastTimestamp = [f \in Factory |-> 0]
    /\ lastID = [f \in Factory |-> 0]
    /\ issued = [f \in Factory |-> << >>]

\* The clock passes, or is adjusted in either direction.
Tick(f) ==
    /\ \E t \in Time : clock' = [clock EXCEPT ![f] = t]
    /\ UNCHANGED <<sequence, lastTimestamp, lastID, issued>>

\* A plausible bug, for mutation: the sequence is not masked.
Mut_NextSequence(f, ts) ==
    IF lastTimestamp[f] = ts THEN sequence[f] + 1 ELSE 0

\* The sequence number for a reading ts that is not before lastTimestamp.
NextSequence(f, ts) ==
    IF lastTimestamp[f] = ts THEN (sequence[f] + 1) % SeqSize ELSE 0

TimeBackwards(f) ==
    /\ clock[f] < lastTimestamp[f]
    /\ UNCHANGED vars

\* The wrapped sequence (0) stays in the factory.
SequenceExpired(f) ==
    /\ clock[f] = lastTimestamp[f]
    /\ NextSequence(f, clock[f]) = 0
    /\ sequence' = [sequence EXCEPT ![f] = 0]
    /\ UNCHANGED <<clock, lastTimestamp, lastID, issued>>

\* A plausible bug, for mutation: the last check of NewGUID is missing.
Mut_IDBackwards(f, id) == FALSE

\* The id is not greater than the last one: it is dropped, but sequence and
\* lastTimestamp keep their new values.
IDBackwards(f, id) == id <= lastID[f]

Issue(f) ==
    LET ts  == clock[f]
        seq == NextSequence(f, ts)
        id  == Compose(ts, NodeID[f], seq)
    IN  /\ ts >= lastTimestamp[f]
        /\ lastTimestamp[f] = ts => seq # 0
        /\ sequence' = [sequence EXCEPT ![f] = seq]
        /\ lastTimestamp' = [lastTimestamp EXCEPT ![f] = ts]
        /\ IF IDBackwards(f, id)
             THEN UNCHANGED <<lastID, issued>>
             ELSE /\ lastID' = [lastID EXCEPT ![f] = id]
                  /\ issued' = [issued EXCEPT ![f] = Append(@, id)]
        /\ UNCHANGED clock

NewGUID(f) == TimeBackwards(f) \/ SequenceExpired(f) \/ Issue(f)

Next == \E f \in Factory : Tick(f) \/ NewGUID(f)

Spec == Init /\ [][Next]_vars

-----------------------------------------------------------------------------
TypeOK ==
    /\ clock \in [Factory -> Time]
    /\ sequence \in [Factory -> 0 .. SeqSize - 1]
    /\ lastTimestamp \in [Factory -> Nat]
    /\ lastID \in [Factory -> Nat]
    /\ issued \in [Factory -> Seq(Nat)]

\* The ids one factory returns strictly increase, so no two messages of a
\* topic share an id: not when the clock is set back, and not in the
\* millisecond in which the sequence wraps and is counted through again.
StrictlyIncreasing ==
    \A f \in Factory : \A i, j \in 1 .. Len(issued[f]) :
        i < j => issued[f][i] < issued[f][j]

\* Factories of nsqds with different IDs never return the same id, however
\* their clocks relate: a consumer of one topic on several nsqds can tell
\* messages apart.
NoCollision ==
    \A f, g \in Factory :
        NodeID[f] # NodeID[g] =>
            \A i \in 1 .. Len(issued[f]), j \in 1 .. Len(issued[g]) :
                issued[f][i] # issued[g][j]

=============================================================================
