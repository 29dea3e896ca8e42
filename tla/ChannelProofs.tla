--------------------------- MODULE ChannelProofs ---------------------------
(***************************************************************************)
(* Channel for every set of messages and clients and every bound.  In this *)
(* order: the type invariant; RdyBound; OnePlace and EndedStays, which     *)
(* rest on Custody; ClosePersists; RemovesOwnEntry and TimeoutArmed, for a *)
(* channel that stays in memory; CountExact, for one that is not emptied   *)
(* and whose backend does not fail.                                        *)
(***************************************************************************)
EXTENDS Channel, FiniteSetTheorems, TLAPS

USE DEF queueVars, inFlightVars, deferredVars, storeVars, clientVars,
        consumerVars, boundVars, auxVars, goroutines, actors, ioOthers,
        pumpOthers, scanOthers

\* What a goroutine in the middle of something has in hand is a Message, and
\* a map holds a Message under its own ID.
Pointers ==
    /\ pub.pc # "idle" => pub.ptr \in Ptr
    /\ \A c \in Client : io[c].pc # "idle" => io[c].ptr \in Ptr
    /\ \A c \in Client : pump[c].pc \in {"push", "addPQ", "send"}
                            => pump[c].ptr \in Ptr
    /\ scan.pc # "idle" => scan.ptr \in Ptr
    /\ \A m \in Msg : inFlightMessages[m] # Nil => IDOf(inFlightMessages[m]) = m
    /\ \A m \in Msg : deferredMessages[m] # Nil => IDOf(deferredMessages[m]) = m

Wf == TypeOK /\ Pointers

LEMMA PtrFacts ==
    /\ \A p \in Ptr : IDOf(p) \in Msg
    /\ Nil \notin Ptr
BY ChannelAssumption DEF Ptr, IDOf

LEMMA HeadTail ==
    ASSUME NEW S, NEW q \in Seq(S), q # << >>
    PROVE  /\ Head(q) \in S /\ Tail(q) \in Seq(S)
           /\ Len(q) \in Nat /\ Len(Tail(q)) = Len(q) - 1
OBVIOUS

LEMMA MemoryHead ==
    ASSUME StoreType, memoryMsgChan # << >>
    PROVE  /\ Head(memoryMsgChan) \in Ptr /\ IDOf(Head(memoryMsgChan)) \in Msg
           /\ Tail(memoryMsgChan) \in Seq(Ptr)
           /\ Len(Tail(memoryMsgChan)) <= MemQueueSize
<1>1. memoryMsgChan \in Seq(Ptr) /\ Len(memoryMsgChan) <= MemQueueSize
        /\ MemQueueSize \in Nat
  BY ChannelAssumption DEF StoreType
<1>2. /\ Head(memoryMsgChan) \in Ptr /\ Tail(memoryMsgChan) \in Seq(Ptr)
      /\ Len(memoryMsgChan) \in Nat
      /\ Len(Tail(memoryMsgChan)) = Len(memoryMsgChan) - 1
  BY <1>1, HeadTail
<1> QED  BY <1>1, <1>2, PtrFacts

LEMMA ReindexedType ==
    ASSUME NEW pq \in [Ptr -> Nat], NEW idx \in [Ptr -> Index], NEW x
    PROVE  Reindexed(pq, idx, x) \subseteq [Ptr -> Index]
BY DEF Reindexed, Index

LEMMA PQPushType ==
    ASSUME TypeOK, NEW p \in Ptr, PQPush(p)
    PROVE  inFlightPQ' \in [Ptr -> Nat] /\ index' \in [Ptr -> Index]
<1>1. inFlightPQ' \in [Ptr -> Nat]
  BY DEF TypeOK, StoreType, PQPush
<1>2. [index EXCEPT ![p] = "in"] \in [Ptr -> Index]
  BY DEF TypeOK, StoreType, Index
<1> QED  BY <1>1, <1>2, ReindexedType DEF PQPush

LEMMA PQTakeType ==
    ASSUME TypeOK, NEW p \in Ptr, PQTake(p)
    PROVE  inFlightPQ' \in [Ptr -> Nat] /\ index' \in [Ptr -> Index]
<1>1. inFlightPQ' \in [Ptr -> Nat]
  BY DEF TypeOK, StoreType, PQTake
<1>2. [index EXCEPT ![p] = "none"] \in [Ptr -> Index]
  BY DEF TypeOK, StoreType, Index
<1> QED  BY <1>1, <1>2, ReindexedType DEF PQTake

LEMMA RemoveType ==
    ASSUME TypeOK, NEW p \in Ptr, removeFromInFlightPQ(p)
    PROVE  /\ inFlightPQ' \in [Ptr -> Nat] /\ index' \in [Ptr -> Index]
           /\ panicked' \in BOOLEAN
<1>1. CASE PQTake(p) /\ UNCHANGED panicked
  BY <1>1, PQTakeType DEF TypeOK, FlagType
<1>2. CASE (\E q \in Ptr : PQTake(q)) /\ UNCHANGED panicked
  BY <1>2, PQTakeType DEF TypeOK, FlagType
<1>3. CASE UNCHANGED <<inFlightPQ, index>> /\ panicked' \in {panicked, TRUE}
  BY <1>3 DEF TypeOK, StoreType, FlagType
<1> QED  BY <1>1, <1>2, <1>3 DEF removeFromInFlightPQ

LEMMA InitWf == Init => Wf
<1> SUFFICES ASSUME Init PROVE Wf
  OBVIOUS
<1> USE DEF Init, Idle, Hand
<1>1. StoreType
  BY ChannelAssumption DEF Index, StoreType
<1>2. ConsumerType
  BY ChannelAssumption DEF ConsumerType
<1>3. HandType
  BY DEF IoPC, PumpPC, ScanPC, HandType
<1>4. AdminType
  BY DEF AdminType
<1>5. AuxType
  BY ChannelAssumption DEF AuxType
<1>6. FlagType
  BY Zenon DEF FlagType
<1>7. LocType
  BY DEF Place, Ended, LocType
<1>8. Pointers
  BY DEF Pointers
<1> QED  BY <1>1, <1>2, <1>3, <1>4, <1>5, <1>6, <1>7, <1>8 DEF Wf, TypeOK

-----------------------------------------------------------------------------
(* Type correctness: every step preserves Wf.                              *)

LEMMA PutOKType ==
    ASSUME StoreType, LocType, NEW p \in Ptr, PutOK(p)
    PROVE  /\ memoryMsgChan' \in Seq(Ptr) /\ Len(memoryMsgChan') <= MemQueueSize
           /\ backend' \in Seq(Msg)
           /\ LocType'
<1>1. IDOf(p) \in Msg
  BY PtrFacts
<1>2. LocType'
  BY <1>1 DEF PutOK, At, LocType, Place
<1>3. MemQueueSize \in Nat /\ Len(memoryMsgChan) \in Nat
        /\ memoryMsgChan \in Seq(Ptr) /\ backend \in Seq(Msg)
        /\ Len(memoryMsgChan) <= MemQueueSize
  BY ChannelAssumption DEF StoreType
<1>4. CASE Len(memoryMsgChan) < MemQueueSize
  <2>1. memoryMsgChan' = Append(memoryMsgChan, p) /\ backend' = backend
    BY <1>4 DEF PutOK
  <2> QED  BY <1>2, <1>3, <1>4, <2>1
<1>5. CASE ~(Len(memoryMsgChan) < MemQueueSize)
  <2>1. backend' = Append(backend, IDOf(p)) /\ memoryMsgChan' = memoryMsgChan
    BY <1>5 DEF PutOK
  <2> QED  BY <1>1, <1>2, <1>3, <2>1
<1> QED  BY <1>4, <1>5

LEMMA AtType ==
    ASSUME LocType, NEW m \in Msg, NEW place \in Place,
           NEW who \in Client \cup {Nil}, At(m, place, who)
    PROVE  LocType'
BY DEF LocType, At

LEMMA FlushType ==
    ASSUME StoreType, LocType, NEW map, Flush(map)
    PROVE  backend' \in Seq(Msg) /\ LocType'
<1>1. PICK S \in SUBSET InMap(map) :
        /\ \E q \in [1 .. Cardinality(S) -> S] : backend' = backend \o q
        /\ AllAt(InMap(map) \ S, "lost")
  BY DEF Flush
<1>2. S \in SUBSET Msg /\ InMap(map) \in SUBSET Msg
  BY DEF InMap
<1>3. Cardinality(S) \in Nat
  BY <1>2, FS_Subset, FS_CardinalityType, ChannelAssumption
<1>4. PICK q \in [1 .. Cardinality(S) -> S] : backend' = backend \o q
  BY <1>1
<1>5. q \in Seq(Msg)
  BY <1>2, <1>3, <1>4
<1>6. backend' \in Seq(Msg)
  BY <1>4, <1>5 DEF StoreType
<1>7. LocType'
  BY <1>1, <1>2 DEF AllAt, LocType, Place, Ended
<1> QED  BY <1>6, <1>7

LEMMA PublishWf == ASSUME Wf, Publish PROVE Wf'
<1> USE DEF Wf, TypeOK
<1>1. ASSUME NEW m \in Msg, PutMessage(m) PROVE Wf'
  <2>1. PICK p \in Ptr : PutOK(p) \/ (PutFails(p) /\ At(m, "refused", Nil))
    BY <1>1 DEF PutMessage, Fresh
  <2>2. LocType' /\ memoryMsgChan' \in Seq(Ptr)
          /\ Len(memoryMsgChan') <= MemQueueSize /\ backend' \in Seq(Msg)
    <3>1. CASE PutOK(p)
      BY <3>1, PutOKType
    <3>2. CASE PutFails(p) /\ At(m, "refused", Nil)
      BY <3>2, AtType DEF PutFails, queueVars, StoreType, Place, Ended
    <3> QED  BY <2>1, <3>1, <3>2
  <2>3. UNCHANGED <<inFlightVars, deferredVars, consumerVars, actors, auxVars>>
    BY <1>1 DEF PutMessage
  <2>4. StoreType' /\ ConsumerType'
    BY <2>2, <2>3 DEF StoreType, ConsumerType, inFlightVars, deferredVars,
                      consumerVars, clientVars
  <2>5. HandType' /\ AdminType' /\ AuxType' /\ Pointers'
    BY <2>3 DEF HandType, AdminType, AuxType, Pointers, actors, goroutines,
                auxVars, boundVars, inFlightVars, deferredVars
  <2>6. FlagType'
    BY <2>3, Zenon DEF FlagType, auxVars, boundVars
  <2> QED  BY <2>2, <2>4, <2>5, <2>6
<1>2. ASSUME NEW m \in Msg, PutMessageDeferred(m) PROVE Wf'
  <2>1. StoreType'
    BY <1>2, PtrFacts
       DEF PutMessageDeferred, pushDeferredMessage, Fresh, StoreType
  <2>2. ConsumerType'
    BY <1>2 DEF PutMessageDeferred, ConsumerType
  <2>3. HandType' /\ Pointers'
    BY <1>2, PtrFacts
       DEF PutMessageDeferred, Fresh, Hand, pushDeferredMessage,
           HandType, Pointers
  <2>4. AdminType' /\ AuxType'
    BY <1>2 DEF PutMessageDeferred, AdminType, AuxType
  <2>5. FlagType'
    BY <1>2, Zenon DEF PutMessageDeferred, FlagType
  <2>6. LocType'
    BY <1>2, PtrFacts
       DEF PutMessageDeferred, Fresh, pushDeferredMessage, Hand, Place,
           At, LocType
  <2> QED  BY <2>1, <2>2, <2>3, <2>4, <2>5, <2>6
<1>3. ASSUME PutMessageDeferredPQ PROVE Wf'
  <2>1. StoreType'
    BY <1>3, PtrFacts
       DEF PutMessageDeferredPQ, addToDeferredPQ, HandType, Pointers,
           StoreType
  <2>2. ConsumerType'
    BY <1>3 DEF PutMessageDeferredPQ, ConsumerType
  <2>3. HandType' /\ Pointers'
    BY <1>3 DEF PutMessageDeferredPQ, Idle, Hand, HandType, Pointers
  <2>4. AdminType' /\ AuxType'
    BY <1>3 DEF PutMessageDeferredPQ, AdminType, AuxType
  <2>5. FlagType'
    BY <1>3, Zenon DEF PutMessageDeferredPQ, FlagType
  <2>6. LocType'
    BY <1>3 DEF PutMessageDeferredPQ, LocType
  <2> QED  BY <2>1, <2>2, <2>3, <2>4, <2>5, <2>6
<1> QED  BY <1>1, <1>2, <1>3 DEF Publish

LEMMA ConnectionWf == ASSUME Wf, NEW c \in Client, Connection(c) PROVE Wf'
<1> USE DEF Wf, TypeOK
<1>1. ASSUME SUB(c) PROVE Wf'
  <2>1. StoreType'
    BY <1>1 DEF SUB, StoreType
  <2>2. ConsumerType'
    BY <1>1 DEF SUB, ConsumerType
  <2>3. HandType' /\ Pointers'
    BY <1>1 DEF SUB, HandType, Pointers
  <2>4. AdminType' /\ AuxType'
    BY <1>1 DEF SUB, AdminType, AuxType
  <2>5. FlagType'
    BY <1>1, Zenon DEF SUB, FlagType
  <2>6. LocType'
    BY <1>1 DEF SUB, LocType
  <2> QED  BY <2>1, <2>2, <2>3, <2>4, <2>5, <2>6
<1>2. ASSUME NEW n \in 0 .. MaxRdy, RDY(c, n) PROVE Wf'
  <2>1. StoreType'
    BY <1>2 DEF RDY, StoreType
  <2>2. ConsumerType'
    BY <1>2 DEF RDY, ConsumerType
  <2>3. HandType' /\ Pointers'
    BY <1>2 DEF RDY, HandType, Pointers
  <2>4. AdminType' /\ AuxType'
    BY <1>2 DEF RDY, AdminType, AuxType
  <2>5. FlagType'
    BY <1>2, Zenon DEF RDY, FlagType
  <2>6. LocType'
    BY <1>2 DEF RDY, LocType
  <2> QED  BY <2>1, <2>2, <2>3, <2>4, <2>5, <2>6
<1>3. ASSUME CLS(c) PROVE Wf'
  <2>1. StoreType'
    BY <1>3 DEF CLS, StoreType
  <2>2. ConsumerType'
    BY <1>3, ChannelAssumption DEF CLS, ConsumerType
  <2>3. HandType' /\ Pointers'
    BY <1>3 DEF CLS, HandType, Pointers
  <2>4. AdminType' /\ AuxType'
    BY <1>3 DEF CLS, AdminType, AuxType
  <2>5. FlagType'
    BY <1>3, Zenon DEF CLS, FlagType
  <2>6. LocType'
    BY <1>3 DEF CLS, LocType
  <2> QED  BY <2>1, <2>2, <2>3, <2>4, <2>5, <2>6
<1>4. ASSUME ConnBreak(c) PROVE Wf'
  <2>1. StoreType'
    BY <1>4 DEF ConnBreak, StoreType
  <2>2. ConsumerType'
    BY <1>4 DEF ConnBreak, ConsumerType
  <2>3. HandType' /\ Pointers'
    BY <1>4 DEF ConnBreak, HandType, Pointers
  <2>4. AdminType' /\ AuxType'
    BY <1>4 DEF ConnBreak, AdminType, AuxType
  <2>5. FlagType'
    BY <1>4, Zenon DEF ConnBreak, FlagType
  <2>6. LocType'
    BY <1>4 DEF ConnBreak, LocType
  <2> QED  BY <2>1, <2>2, <2>3, <2>4, <2>5, <2>6
<1>5. ASSUME Disconnect(c) PROVE Wf'
  <2>1. StoreType'
    BY <1>5 DEF Disconnect, StoreType
  <2>2. ConsumerType'
    BY <1>5 DEF Disconnect, ConsumerType
  <2>3. HandType' /\ Pointers'
    BY <1>5 DEF Disconnect, HandType, Pointers
  <2>4. AdminType' /\ AuxType'
    BY <1>5 DEF Disconnect, AdminType, AuxType
  <2>5. FlagType'
    BY <1>5, Zenon DEF Disconnect, FlagType
  <2>6. LocType'
    BY <1>5 DEF Disconnect, LocType
  <2> QED  BY <2>1, <2>2, <2>3, <2>4, <2>5, <2>6
<1> QED  BY <1>1, <1>2, <1>3, <1>4, <1>5 DEF Connection

LEMMA RespondWf == ASSUME Wf, NEW c \in Client, Respond(c) PROVE Wf'
<1> USE DEF Wf, TypeOK
<1>1. ASSUME NEW m \in Msg, FIN(c, m) PROVE Wf'
  <2>1. StoreType'
    BY <1>1 DEF FIN, Answer, popInFlightMessage, StoreType
  <2>2. ConsumerType'
    BY <1>1 DEF FIN, Answer, ConsumerType
  <2>3. HandType' /\ Pointers'
    BY <1>1
       DEF FIN, Answer, popInFlightMessage, Owns, Hand, IoPC,
           StoreType, HandType, Pointers
  <2>4. AdminType' /\ AuxType'
    BY <1>1 DEF FIN, Answer, AdminType, AuxType
  <2>5. FlagType'
    BY <1>1, Zenon DEF FIN, Answer, FlagType
  <2>6. LocType'
    BY <1>1, AtType DEF FIN, Place, Ended, LocType
  <2> QED  BY <2>1, <2>2, <2>3, <2>4, <2>5, <2>6
<1>2. ASSUME NEW m \in Msg, REQ(c, m) PROVE Wf'
  <2>1. StoreType'
    BY <1>2 DEF REQ, Answer, popInFlightMessage, StoreType
  <2>2. ConsumerType'
    BY <1>2 DEF REQ, Answer, ConsumerType
  <2>3. HandType' /\ Pointers'
    BY <1>2
       DEF REQ, Answer, popInFlightMessage, Owns, Hand, IoPC,
           StoreType, HandType, Pointers
  <2>4. AdminType' /\ AuxType'
    BY <1>2 DEF REQ, Answer, AdminType, AuxType
  <2>5. FlagType'
    BY <1>2, Zenon DEF REQ, Answer, FlagType
  <2>6. LocType'
    BY <1>2, AtType DEF REQ, Place, Ended, LocType
  <2> QED  BY <2>1, <2>2, <2>3, <2>4, <2>5, <2>6
<1>3. ASSUME NEW m \in Msg, TOUCH(c, m) PROVE Wf'
  <2>1. StoreType'
    BY <1>3 DEF TOUCH, Answer, popInFlightMessage, StoreType
  <2>2. ConsumerType'
    BY <1>3 DEF TOUCH, Answer, ConsumerType
  <2>3. HandType' /\ Pointers'
    BY <1>3
       DEF TOUCH, Answer, popInFlightMessage, Owns, Hand, IoPC,
           StoreType, HandType, Pointers
  <2>4. AdminType' /\ AuxType'
    BY <1>3, ChannelAssumption DEF TOUCH, Answer, AdminType, AuxType
  <2>5. FlagType'
    BY <1>3, Zenon DEF TOUCH, Answer, FlagType
  <2>6. LocType'
    BY <1>3, AtType DEF TOUCH, Place, Ended, LocType
  <2> QED  BY <2>1, <2>2, <2>3, <2>4, <2>5, <2>6
<1> QED  BY <1>1, <1>2, <1>3 DEF Respond

LEMMA HandleWf == ASSUME Wf, NEW c \in Client, Handle(c) PROVE Wf'
<1> USE DEF Wf, TypeOK
<1>1. ASSUME AnswerPQ(c) PROVE Wf'
  <2>1. StoreType'
    BY <1>1, RemoveType DEF AnswerPQ, HandType, Pointers, NextPC, StoreType
  <2>2. ConsumerType'
    BY <1>1 DEF AnswerPQ, ConsumerType
  <2>3. HandType' /\ Pointers'
    BY <1>1 DEF AnswerPQ, NextPC, IoPC, HandType, Pointers
  <2>4. AdminType' /\ AuxType'
    BY <1>1 DEF AnswerPQ, AdminType, AuxType
  <2>5. FlagType'
    BY <1>1, RemoveType, Zenon
       DEF AnswerPQ, NextPC, HandType, Pointers, FlagType
  <2>6. LocType'
    BY <1>1 DEF AnswerPQ, LocType
  <2> QED  BY <2>1, <2>2, <2>3, <2>4, <2>5, <2>6
<1>2. ASSUME AnswerCount(c) PROVE Wf'
  <2>1. StoreType'
    BY <1>2 DEF AnswerCount, StoreType
  <2>2. ConsumerType'
    BY <1>2 DEF AnswerCount, ConsumerType
  <2>3. HandType' /\ Pointers'
    BY <1>2 DEF AnswerCount, Idle, Hand, IoPC, HandType, Pointers
  <2>4. AdminType' /\ AuxType'
    BY <1>2 DEF AnswerCount, AdminType, AuxType
  <2>5. FlagType'
    BY <1>2, Zenon DEF AnswerCount, FlagType
  <2>6. LocType'
    BY <1>2 DEF AnswerCount, LocType
  <2> QED  BY <2>1, <2>2, <2>3, <2>4, <2>5, <2>6
<1>3. ASSUME RequeueNow(c) PROVE Wf'
  <2>1. StoreType'
    BY <1>3, PutOKType DEF RequeueNow, PutFails, Pointers, StoreType
  <2>2. ConsumerType'
    BY <1>3 DEF RequeueNow, ConsumerType
  <2>3. HandType' /\ Pointers'
    <3>1. io' = [io EXCEPT ![c].pc = "reqCount"] \/ io' = [io EXCEPT ![c] = Idle]
      BY <1>3 DEF RequeueNow
    <3>2. UNCHANGED <<pub, pump, scan, inFlightMessages, deferredMessages>>
            /\ io[c].pc = "reqPut"
      BY <1>3 DEF RequeueNow
    <3>3. HandType'
      BY <3>1, <3>2 DEF Idle, Hand, IoPC, HandType
    <3>4. \A d \in Client : io'[d].pc # "idle" => io'[d].ptr \in Ptr
      BY <3>1, <3>2 DEF Idle, Hand, HandType, Pointers
    <3> QED  BY <3>2, <3>3, <3>4 DEF Pointers
  <2>4. AdminType' /\ AuxType'
    BY <1>3 DEF RequeueNow, AdminType, AuxType
  <2>5. FlagType'
    BY <1>3, Zenon DEF RequeueNow, FlagType
  <2>6. LocType'
    BY <1>3, PutOKType, AtType, PtrFacts
       DEF RequeueNow, Pointers, Place, Ended, LocType
  <2> QED  BY <2>1, <2>2, <2>3, <2>4, <2>5, <2>6
<1>4. ASSUME RequeueDeferred(c) PROVE Wf'
  <2>1. StoreType'
    BY <1>4, PtrFacts
       DEF RequeueDeferred, pushDeferredMessage, Pointers, StoreType
  <2>2. ConsumerType'
    BY <1>4 DEF RequeueDeferred, ConsumerType
  <2>3. HandType' /\ Pointers'
    BY <1>4, PtrFacts
       DEF RequeueDeferred, pushDeferredMessage, IoPC, StoreType,
           HandType, Pointers
  <2>4. AdminType' /\ AuxType'
    BY <1>4 DEF RequeueDeferred, AdminType, AuxType
  <2>5. FlagType'
    BY <1>4, Zenon DEF RequeueDeferred, FlagType
  <2>6. LocType'
    BY <1>4, PtrFacts
       DEF RequeueDeferred, pushDeferredMessage, At, Place, Pointers,
           LocType
  <2> QED  BY <2>1, <2>2, <2>3, <2>4, <2>5, <2>6
<1>5. ASSUME RequeueDeferredPQ(c) PROVE Wf'
  <2>1. StoreType'
    BY <1>5 DEF RequeueDeferredPQ, addToDeferredPQ, Pointers, StoreType
  <2>2. ConsumerType'
    BY <1>5 DEF RequeueDeferredPQ, ConsumerType
  <2>3. HandType' /\ Pointers'
    BY <1>5 DEF RequeueDeferredPQ, IoPC, HandType, Pointers
  <2>4. AdminType' /\ AuxType'
    BY <1>5 DEF RequeueDeferredPQ, AdminType, AuxType
  <2>5. FlagType'
    BY <1>5, Zenon DEF RequeueDeferredPQ, FlagType
  <2>6. LocType'
    BY <1>5 DEF RequeueDeferredPQ, LocType
  <2> QED  BY <2>1, <2>2, <2>3, <2>4, <2>5, <2>6
<1>6. ASSUME TouchPush(c) PROVE Wf'
  <2>1. StoreType'
    BY <1>6, PtrFacts
       DEF TouchPush, pushInFlightMessage, Pointers, StoreType
  <2>2. ConsumerType'
    BY <1>6 DEF TouchPush, ConsumerType
  <2>3. HandType' /\ Pointers'
    BY <1>6, PtrFacts
       DEF TouchPush, pushInFlightMessage, IoPC, StoreType, HandType,
           Pointers
  <2>4. AdminType' /\ AuxType'
    BY <1>6 DEF TouchPush, AdminType, AuxType
  <2>5. FlagType'
    BY <1>6, Zenon DEF TouchPush, FlagType
  <2>6. LocType'
    BY <1>6, PtrFacts
       DEF TouchPush, pushInFlightMessage, At, Place, Pointers, LocType
  <2> QED  BY <2>1, <2>2, <2>3, <2>4, <2>5, <2>6
<1>7. ASSUME TouchAddPQ(c) PROVE Wf'
  <2>1. StoreType'
    BY <1>7, PQPushType DEF TouchAddPQ, Pointers, StoreType
  <2>2. ConsumerType'
    BY <1>7 DEF TouchAddPQ, ConsumerType
  <2>3. HandType' /\ Pointers'
    BY <1>7 DEF TouchAddPQ, IoPC, Idle, Hand, HandType, Pointers
  <2>4. AdminType' /\ AuxType'
    BY <1>7 DEF TouchAddPQ, AdminType, AuxType
  <2>5. FlagType'
    BY <1>7, Zenon DEF TouchAddPQ, FlagType
  <2>6. LocType'
    BY <1>7 DEF TouchAddPQ, LocType
  <2> QED  BY <2>1, <2>2, <2>3, <2>4, <2>5, <2>6
<1> QED  BY <1>1, <1>2, <1>3, <1>4, <1>5, <1>6, <1>7 DEF Handle

LEMMA ArriveHand ==
    ASSUME HandType, Pointers, NEW c \in Client, NEW p \in Ptr, Arrive(c, p),
           UNCHANGED <<pub, io, scan, inFlightMessages, deferredMessages>>
    PROVE  HandType' /\ Pointers'
<1>1. pump' = [pump EXCEPT ![c] = Hand("push", p)]
        \/ pump' = [pump EXCEPT ![c] = Hand("wait", Nil)]
  BY DEF Arrive
<1>2. HandType'
  BY <1>1 DEF HandType, PumpPC, Hand
<1>3. Pointers'
  <2>1. \A d \in Client : pump'[d].pc \in {"push", "addPQ", "send"}
                            => pump'[d].ptr \in Ptr
    BY <1>1 DEF Pointers, HandType, Hand
  <2> QED  BY <2>1 DEF Pointers
<1> QED  BY <1>2, <1>3

LEMMA ArriveAux ==
    ASSUME AdminType, AuxType, LocType, NEW c \in Client, NEW p \in Ptr,
           Arrive(c, p)
    PROVE  /\ LocType'
           /\ UNCHANGED <<emp, ext, touches, empties>> => AdminType' /\ AuxType'
<1>1. IDOf(p) \in Msg
  BY PtrFacts
<1>2. LocType'
  BY <1>1, AtType DEF Arrive, Place, Ended
<1>3. Attempts' \in [Msg -> 0 .. MaxAttempts]
  BY <1>1, ChannelAssumption DEF Arrive, AuxType
<1> QED  BY <1>2, <1>3 DEF AdminType, AuxType

LEMMA PumpWf == ASSUME Wf, NEW c \in Client, Pump(c) PROVE Wf'
<1> USE DEF Wf, TypeOK
<1>1. ASSUME PumpLoop(c) PROVE Wf'
  <2>1. StoreType'
    BY <1>1 DEF PumpLoop, StoreType
  <2>2. ConsumerType'
    BY <1>1 DEF PumpLoop, ConsumerType
  <2>3. HandType' /\ Pointers'
    BY <1>1 DEF PumpLoop, PumpPC, HandType, Pointers
  <2>4. AdminType' /\ AuxType'
    BY <1>1 DEF PumpLoop, AdminType, AuxType
  <2>5. FlagType'
    BY <1>1, Zenon DEF PumpLoop, FlagType
  <2>6. LocType'
    BY <1>1 DEF PumpLoop, LocType
  <2> QED  BY <2>1, <2>2, <2>3, <2>4, <2>5, <2>6
<1>2. ASSUME PumpExit(c) PROVE Wf'
  <2>1. StoreType'
    BY <1>2 DEF PumpExit, StoreType
  <2>2. ConsumerType'
    BY <1>2 DEF PumpExit, ConsumerType
  <2>3. HandType' /\ Pointers'
    BY <1>2 DEF PumpExit, PumpPC, Hand, HandType, Pointers
  <2>4. AdminType' /\ AuxType'
    BY <1>2 DEF PumpExit, AdminType, AuxType
  <2>5. FlagType'
    BY <1>2, Zenon DEF PumpExit, FlagType
  <2>6. LocType'
    BY <1>2 DEF PumpExit, LocType
  <2> QED  BY <2>1, <2>2, <2>3, <2>4, <2>5, <2>6
<1>3. ASSUME PumpMemory(c) PROVE Wf'
  <2>0. PICK p \in Ptr : p = Head(memoryMsgChan) /\ IDOf(p) \in Msg
    BY <1>3, MemoryHead DEF PumpMemory
  <2>a. Arrive(c, p)
    BY <1>3, <2>0 DEF PumpMemory
  <2>1. StoreType'
    BY <1>3, MemoryHead DEF PumpMemory, StoreType
  <2>2. ConsumerType'
    BY <1>3 DEF PumpMemory, ConsumerType
  <2>3. HandType' /\ Pointers'
    <3>1. UNCHANGED <<pub, io, scan, inFlightMessages, deferredMessages>>
      BY <1>3 DEF PumpMemory
    <3> QED  BY <2>a, <3>1, ArriveHand
  <2>4. AdminType' /\ AuxType'
    BY <1>3, <2>0, <2>a, ArriveAux DEF PumpMemory
  <2>5. FlagType'
    BY <1>3, Zenon DEF PumpMemory, FlagType
  <2>6. LocType'
    BY <2>0, <2>a, ArriveAux
  <2> QED  BY <2>1, <2>2, <2>3, <2>4, <2>5, <2>6
<1>4. ASSUME PumpBackend(c) PROVE Wf'
  <2>0. PICK p \in Ptr : Arrive(c, p) /\ index' = [index EXCEPT ![p] = "fresh"]
    BY <1>4 DEF PumpBackend, Fresh
  <2>1. StoreType'
    BY <1>4 DEF PumpBackend, Index, Fresh, StoreType
  <2>2. ConsumerType'
    BY <1>4 DEF PumpBackend, ConsumerType
  <2>3. HandType' /\ Pointers'
    <3>1. UNCHANGED <<pub, io, scan, inFlightMessages, deferredMessages>>
      BY <1>4 DEF PumpBackend
    <3> QED  BY <2>0, <3>1, ArriveHand
  <2>4. AdminType' /\ AuxType'
    BY <1>4, <2>0, ArriveAux DEF PumpBackend
  <2>5. FlagType'
    BY <1>4, Zenon DEF PumpBackend, FlagType
  <2>6. LocType'
    BY <2>0, ArriveAux
  <2> QED  BY <2>1, <2>2, <2>3, <2>4, <2>5, <2>6
<1>5. ASSUME PumpPush(c) PROVE Wf'
  <2>1. StoreType'
    BY <1>5, PtrFacts DEF PumpPush, pushInFlightMessage, Pointers, StoreType
  <2>2. ConsumerType'
    BY <1>5 DEF PumpPush, ConsumerType
  <2>3. HandType' /\ Pointers'
    BY <1>5, PtrFacts
       DEF PumpPush, pushInFlightMessage, PumpPC, StoreType, HandType,
           Pointers
  <2>4. AdminType' /\ AuxType'
    BY <1>5 DEF PumpPush, AdminType, AuxType
  <2>5. FlagType'
    BY <1>5, Zenon DEF PumpPush, FlagType
  <2>6. LocType'
    BY <1>5, PtrFacts
       DEF PumpPush, pushInFlightMessage, At, Place, Pointers, LocType
  <2> QED  BY <2>1, <2>2, <2>3, <2>4, <2>5, <2>6
<1>6. ASSUME PumpAddPQ(c) PROVE Wf'
  <2>1. StoreType'
    BY <1>6, PQPushType DEF PumpAddPQ, Pointers, StoreType
  <2>2. ConsumerType'
    BY <1>6 DEF PumpAddPQ, ConsumerType
  <2>3. HandType' /\ Pointers'
    BY <1>6 DEF PumpAddPQ, PumpPC, HandType, Pointers
  <2>4. AdminType' /\ AuxType'
    BY <1>6 DEF PumpAddPQ, AdminType, AuxType
  <2>5. FlagType'
    BY <1>6, Zenon DEF PumpAddPQ, FlagType
  <2>6. LocType'
    BY <1>6 DEF PumpAddPQ, LocType
  <2> QED  BY <2>1, <2>2, <2>3, <2>4, <2>5, <2>6
<1>7. ASSUME PumpSend(c) PROVE Wf'
  <2>1. StoreType'
    BY <1>7 DEF PumpSend, StoreType
  <2>2. ConsumerType'
    BY <1>7, PtrFacts DEF PumpSend, Pointers, ConsumerType
  <2>3. HandType' /\ Pointers'
    <3>1. pump' = [pump EXCEPT ![c] = Hand("wait", Nil)]
            \/ pump' = [pump EXCEPT ![c] = Hand("exited", Nil)]
      BY <1>7 DEF PumpSend
    <3>2. UNCHANGED <<pub, io, scan, inFlightMessages, deferredMessages>>
      BY <1>7 DEF PumpSend
    <3> QED  BY <3>1, <3>2 DEF PumpPC, Hand, HandType, Pointers
  <2>4. AdminType' /\ AuxType'
    BY <1>7 DEF PumpSend, AdminType, AuxType
  <2>5. FlagType'
    BY <1>7, Zenon DEF PumpSend, FlagType
  <2>6. LocType'
    BY <1>7 DEF PumpSend, LocType
  <2> QED  BY <2>1, <2>2, <2>3, <2>4, <2>5, <2>6
<1> QED  BY <1>1, <1>2, <1>3, <1>4, <1>5, <1>6, <1>7 DEF Pump

LEMMA ScanWf == ASSUME Wf, Scan PROVE Wf'
<1> USE DEF Wf, TypeOK
<1>1. ASSUME NEW p \in Ptr, ScanShift(p) PROVE Wf'
  <2>1. StoreType'
    BY <1>1, PQTakeType DEF ScanShift, StoreType
  <2>2. ConsumerType'
    BY <1>1 DEF ScanShift, ConsumerType
  <2>3. HandType' /\ Pointers'
    BY <1>1 DEF ScanShift, ScanPC, Hand, HandType, Pointers
  <2>4. AdminType' /\ AuxType'
    BY <1>1 DEF ScanShift, AdminType, AuxType
  <2>5. FlagType'
    BY <1>1, Zenon DEF ScanShift, FlagType
  <2>6. LocType'
    BY <1>1 DEF ScanShift, LocType
  <2> QED  BY <2>1, <2>2, <2>3, <2>4, <2>5, <2>6
<1>2. ASSUME NEW p \in Ptr, ScanDeferredShift(p) PROVE Wf'
  <2>1. StoreType'
    BY <1>2 DEF ScanDeferredShift, StoreType
  <2>2. ConsumerType'
    BY <1>2 DEF ScanDeferredShift, ConsumerType
  <2>3. HandType' /\ Pointers'
    BY <1>2 DEF ScanDeferredShift, ScanPC, Hand, HandType, Pointers
  <2>4. AdminType' /\ AuxType'
    BY <1>2 DEF ScanDeferredShift, AdminType, AuxType
  <2>5. FlagType'
    BY <1>2, Zenon DEF ScanDeferredShift, FlagType
  <2>6. LocType'
    BY <1>2 DEF ScanDeferredShift, LocType
  <2> QED  BY <2>1, <2>2, <2>3, <2>4, <2>5, <2>6
<1>3. ASSUME ScanPop PROVE Wf'
  <2>1. StoreType'
    BY <1>3 DEF ScanPop, popInFlightMessage, Pointers, StoreType
  <2>2. ConsumerType'
    BY <1>3 DEF ScanPop, ConsumerType
  <2>3. HandType' /\ Pointers'
    <3>1. scan' = [scan EXCEPT !.pc = "popped"] \/ scan' = Idle
      BY <1>3 DEF ScanPop
    <3>2. inFlightMessages' = inFlightMessages
            \/ inFlightMessages' =
                  [inFlightMessages EXCEPT ![IDOf(scan.ptr)] = Nil]
      BY <1>3 DEF ScanPop, popInFlightMessage
    <3>3. UNCHANGED <<pub, io, pump, deferredMessages>> /\ scan.ptr \in Ptr
      BY <1>3 DEF ScanPop, Pointers
    <3>4. HandType'
      BY <3>1, <3>3 DEF HandType, ScanPC, Idle, Hand
    <3>5. scan'.pc # "idle" => scan'.ptr \in Ptr
      BY <3>1, <3>3 DEF HandType, Idle, Hand
    <3> QED  BY <3>2, <3>3, <3>4, <3>5 DEF StoreType, Pointers
  <2>4. AdminType' /\ AuxType'
    BY <1>3 DEF ScanPop, AdminType, AuxType
  <2>5. FlagType'
    BY <1>3, Zenon DEF ScanPop, FlagType
  <2>6. LocType'
    <3>1. IDOf(scan.ptr) \in Msg
      BY <1>3, PtrFacts DEF ScanPop, Pointers
    <3>2. At(IDOf(scan.ptr), "scan", Nil) \/ UNCHANGED loc
      BY <1>3 DEF ScanPop
    <3> QED  BY <3>1, <3>2 DEF At, Place, LocType
  <2> QED  BY <2>1, <2>2, <2>3, <2>4, <2>5, <2>6
<1>4. ASSUME ScanTimedOut PROVE Wf'
  <2>1. StoreType'
    BY <1>4 DEF ScanTimedOut, StoreType
  <2>2. ConsumerType'
    BY <1>4 DEF ScanTimedOut, ConsumerType
  <2>3. HandType' /\ Pointers'
    BY <1>4 DEF ScanTimedOut, ScanPC, HandType, Pointers
  <2>4. AdminType' /\ AuxType'
    BY <1>4 DEF ScanTimedOut, AdminType, AuxType
  <2>5. FlagType'
    BY <1>4, Zenon DEF ScanTimedOut, FlagType
  <2>6. LocType'
    BY <1>4 DEF ScanTimedOut, LocType
  <2> QED  BY <2>1, <2>2, <2>3, <2>4, <2>5, <2>6
<1>5. ASSUME ScanPut PROVE Wf'
  <2>1. StoreType'
    BY <1>5, PutOKType DEF ScanPut, PutFails, Pointers, StoreType
  <2>2. ConsumerType'
    BY <1>5 DEF ScanPut, ConsumerType
  <2>3. HandType' /\ Pointers'
    BY <1>5 DEF ScanPut, ScanPC, Idle, Hand, HandType, Pointers
  <2>4. AdminType' /\ AuxType'
    BY <1>5 DEF ScanPut, AdminType, AuxType
  <2>5. FlagType'
    BY <1>5, Zenon DEF ScanPut, FlagType
  <2>6. LocType'
    BY <1>5, PutOKType, AtType, PtrFacts
       DEF ScanPut, Pointers, Place, Ended, LocType
  <2> QED  BY <2>1, <2>2, <2>3, <2>4, <2>5, <2>6
<1>6. ASSUME ScanDeferredPop PROVE Wf'
  <2>1. StoreType'
    BY <1>6 DEF ScanDeferredPop, StoreType
  <2>2. ConsumerType'
    BY <1>6 DEF ScanDeferredPop, ConsumerType
  <2>3. HandType' /\ Pointers'
    <3>1. scan' = [scan EXCEPT !.pc = "put"] \/ scan' = Idle
      BY <1>6 DEF ScanDeferredPop
    <3>2. deferredMessages' = deferredMessages
            \/ deferredMessages' =
                  [deferredMessages EXCEPT ![IDOf(scan.ptr)] = Nil]
      BY <1>6 DEF ScanDeferredPop
    <3>3. UNCHANGED <<pub, io, pump, inFlightMessages>> /\ scan.ptr \in Ptr
      BY <1>6 DEF ScanDeferredPop, Pointers
    <3>4. HandType'
      BY <3>1, <3>3 DEF HandType, ScanPC, Idle, Hand
    <3>5. scan'.pc # "idle" => scan'.ptr \in Ptr
      BY <3>1, <3>3 DEF HandType, Idle, Hand
    <3> QED  BY <3>2, <3>3, <3>4, <3>5 DEF StoreType, Pointers
  <2>4. AdminType' /\ AuxType'
    BY <1>6 DEF ScanDeferredPop, AdminType, AuxType
  <2>5. FlagType'
    BY <1>6, Zenon DEF ScanDeferredPop, FlagType
  <2>6. LocType'
    <3>1. IDOf(scan.ptr) \in Msg
      BY <1>6, PtrFacts DEF ScanDeferredPop, Pointers
    <3>2. At(IDOf(scan.ptr), "scan", Nil) \/ UNCHANGED loc
      BY <1>6 DEF ScanDeferredPop
    <3> QED  BY <3>1, <3>2 DEF At, Place, LocType
  <2> QED  BY <2>1, <2>2, <2>3, <2>4, <2>5, <2>6
<1> QED  BY <1>1, <1>2, <1>3, <1>4, <1>5, <1>6 DEF Scan, ScanRest

LEMMA EmptyWf == ASSUME Wf, Empty PROVE Wf'
<1> USE DEF Wf, TypeOK
<1>1. ASSUME EmptyInFlight PROVE Wf'
  <2>1. StoreType'
    BY <1>1 DEF EmptyInFlight, Index, StoreType
  <2>2. ConsumerType'
    BY <1>1 DEF EmptyInFlight, ConsumerType
  <2>3. HandType' /\ Pointers'
    BY <1>1 DEF EmptyInFlight, HandType, Pointers
  <2>4. AdminType' /\ AuxType'
    <3>1. empties' \in 0 .. MaxEmpties
      BY <1>1, ChannelAssumption DEF EmptyInFlight, AuxType
    <3> QED  BY <1>1, <3>1 DEF EmptyInFlight, Deleting, AdminType, AuxType
  <2>5. FlagType'
    BY <1>1, Zenon DEF EmptyInFlight, FlagType
  <2>6. LocType'
    BY <1>1 DEF EmptyInFlight, DropAll, AllAt, Place, Ended, LocType
  <2> QED  BY <2>1, <2>2, <2>3, <2>4, <2>5, <2>6
<1>2. ASSUME EmptyDeferred PROVE Wf'
  <2>1. StoreType'
    BY <1>2 DEF EmptyDeferred, StoreType
  <2>2. ConsumerType'
    BY <1>2 DEF EmptyDeferred, ConsumerType
  <2>3. HandType' /\ Pointers'
    BY <1>2 DEF EmptyDeferred, HandType, Pointers
  <2>4. AdminType' /\ AuxType'
    BY <1>2 DEF EmptyDeferred, AdminType, AuxType
  <2>5. FlagType'
    BY <1>2, Zenon DEF EmptyDeferred, FlagType
  <2>6. LocType'
    BY <1>2 DEF EmptyDeferred, DropAll, AllAt, Place, Ended, LocType
  <2> QED  BY <2>1, <2>2, <2>3, <2>4, <2>5, <2>6
<1>3. ASSUME EmptyClients PROVE Wf'
  <2>1. StoreType'
    BY <1>3 DEF EmptyClients, StoreType
  <2>2. ConsumerType'
    BY <1>3 DEF EmptyClients, ConsumerType
  <2>3. HandType' /\ Pointers'
    BY <1>3 DEF EmptyClients, HandType, Pointers
  <2>4. AdminType' /\ AuxType'
    BY <1>3 DEF EmptyClients, AdminType, AuxType
  <2>5. FlagType'
    BY <1>3, Zenon DEF EmptyClients, FlagType
  <2>6. LocType'
    BY <1>3 DEF EmptyClients, LocType
  <2> QED  BY <2>1, <2>2, <2>3, <2>4, <2>5, <2>6
<1>4. ASSUME EmptyDrain PROVE Wf'
  <2>1. StoreType'
    BY <1>4, MemoryHead DEF EmptyDrain, StoreType
  <2>2. ConsumerType'
    BY <1>4 DEF EmptyDrain, ConsumerType
  <2>3. HandType' /\ Pointers'
    BY <1>4 DEF EmptyDrain, HandType, Pointers
  <2>4. AdminType' /\ AuxType'
    BY <1>4 DEF EmptyDrain, AdminType, AuxType
  <2>5. FlagType'
    BY <1>4, Zenon DEF EmptyDrain, FlagType
  <2>6. LocType'
    BY <1>4, MemoryHead DEF EmptyDrain, At, Place, Ended, LocType
  <2> QED  BY <2>1, <2>2, <2>3, <2>4, <2>5, <2>6
<1>5. ASSUME EmptyBackend PROVE Wf'
  <2>1. StoreType'
    BY <1>5 DEF EmptyBackend, StoreType
  <2>2. ConsumerType'
    BY <1>5 DEF EmptyBackend, ConsumerType
  <2>3. HandType' /\ Pointers'
    BY <1>5 DEF EmptyBackend, HandType, Pointers
  <2>4. AdminType' /\ AuxType'
    BY <1>5 DEF EmptyBackend, Deleting, AdminType, AuxType
  <2>5. FlagType'
    BY <1>5, Zenon DEF EmptyBackend, FlagType
  <2>6. LocType'
    BY <1>5 DEF EmptyBackend, DropAll, AllAt, Place, Ended, LocType
  <2> QED  BY <2>1, <2>2, <2>3, <2>4, <2>5, <2>6
<1> QED  BY <1>1, <1>2, <1>3, <1>4, <1>5 DEF Empty

LEMMA ExitWf == ASSUME Wf, Exit PROVE Wf'
<1> USE DEF Wf, TypeOK
<1>1. ASSUME NEW kind \in ExitKinds, ExitBegin(kind) PROVE Wf'
  <2>1. StoreType'
    BY <1>1 DEF ExitBegin, StoreType
  <2>2. ConsumerType'
    BY <1>1 DEF ExitBegin, ConsumerType
  <2>3. HandType' /\ Pointers'
    BY <1>1 DEF ExitBegin, HandType, Pointers
  <2>4. AdminType' /\ AuxType'
    BY <1>1, ChannelAssumption DEF ExitBegin, Deleting, AdminType, AuxType
  <2>5. FlagType'
    BY <1>1, Zenon DEF ExitBegin, FlagType
  <2>6. LocType'
    BY <1>1 DEF ExitBegin, LocType
  <2> QED  BY <2>1, <2>2, <2>3, <2>4, <2>5, <2>6
<1>2. ASSUME ExitClients PROVE Wf'
  <2>1. StoreType'
    BY <1>2 DEF ExitClients, StoreType
  <2>2. ConsumerType'
    BY <1>2 DEF ExitClients, ConsumerType
  <2>3. HandType' /\ Pointers'
    BY <1>2 DEF ExitClients, HandType, Pointers
  <2>4. AdminType' /\ AuxType'
    BY <1>2 DEF ExitClients, Deleting, AdminType, AuxType
  <2>5. FlagType'
    BY <1>2, Zenon DEF ExitClients, FlagType
  <2>6. LocType'
    BY <1>2 DEF ExitClients, LocType
  <2> QED  BY <2>1, <2>2, <2>3, <2>4, <2>5, <2>6
<1>3. ASSUME FlushMemory PROVE Wf'
  <2>1. StoreType'
    <3>1. CASE memoryMsgChan = << >>
      BY <1>3, <3>1 DEF FlushMemory, StoreType
    <3>2. CASE memoryMsgChan # << >>
      <4>1. /\ memoryMsgChan' \in Seq(Ptr) /\ Len(memoryMsgChan') <= MemQueueSize
            /\ IDOf(Head(memoryMsgChan)) \in Msg
        BY <1>3, <3>2, MemoryHead DEF FlushMemory
      <4>2. backend' \in Seq(Msg)
        <5>1. backend' = Append(backend, IDOf(Head(memoryMsgChan)))
                \/ backend' = backend
          BY <1>3, <3>2 DEF FlushMemory
        <5>2. backend \in Seq(Msg)
          BY DEF StoreType
        <5> QED  BY <4>1, <5>1, <5>2
      <4> QED  BY <1>3, <4>1, <4>2 DEF FlushMemory, StoreType
    <3> QED  BY <3>1, <3>2
  <2>2. ConsumerType'
    BY <1>3 DEF FlushMemory, ConsumerType
  <2>3. HandType' /\ Pointers'
    BY <1>3 DEF FlushMemory, HandType, Pointers
  <2>4. AdminType' /\ AuxType'
    BY <1>3 DEF FlushMemory, AdminType, AuxType
  <2>5. FlagType'
    BY <1>3, Zenon DEF FlushMemory, FlagType
  <2>6. LocType'
    BY <1>3, MemoryHead DEF FlushMemory, At, Place, Ended, LocType
  <2> QED  BY <2>1, <2>2, <2>3, <2>4, <2>5, <2>6
<1>4. ASSUME FlushInFlight PROVE Wf'
  <2>1. StoreType'
    BY <1>4, FlushType DEF FlushInFlight, FlushMap, StoreType
  <2>2. ConsumerType'
    BY <1>4 DEF FlushInFlight, FlushMap, ConsumerType
  <2>3. HandType' /\ Pointers'
    BY <1>4 DEF FlushInFlight, FlushMap, HandType, Pointers
  <2>4. AdminType' /\ AuxType'
    BY <1>4 DEF FlushInFlight, FlushMap, AdminType, AuxType
  <2>5. FlagType'
    BY <1>4, Zenon DEF FlushInFlight, FlushMap, FlagType
  <2>6. LocType'
    BY <1>4, FlushType DEF FlushInFlight, FlushMap, LocType
  <2> QED  BY <2>1, <2>2, <2>3, <2>4, <2>5, <2>6
<1>5. ASSUME FlushDeferred PROVE Wf'
  <2>1. StoreType'
    BY <1>5, FlushType DEF FlushDeferred, FlushMap, StoreType
  <2>2. ConsumerType'
    BY <1>5 DEF FlushDeferred, FlushMap, ConsumerType
  <2>3. HandType' /\ Pointers'
    BY <1>5 DEF FlushDeferred, FlushMap, HandType, Pointers
  <2>4. AdminType' /\ AuxType'
    BY <1>5 DEF FlushDeferred, FlushMap, AdminType, AuxType
  <2>5. FlagType'
    BY <1>5, Zenon DEF FlushDeferred, FlushMap, FlagType
  <2>6. LocType'
    BY <1>5, FlushType DEF FlushDeferred, FlushMap, LocType
  <2> QED  BY <2>1, <2>2, <2>3, <2>4, <2>5, <2>6
<1>6. ASSUME CloseBackend PROVE Wf'
  <2>1. StoreType'
    BY <1>6 DEF CloseBackend, StoreType
  <2>2. ConsumerType'
    BY <1>6 DEF CloseBackend, ConsumerType
  <2>3. HandType' /\ Pointers'
    BY <1>6 DEF CloseBackend, HandType, Pointers
  <2>4. AdminType' /\ AuxType'
    BY <1>6 DEF CloseBackend, AdminType, AuxType
  <2>5. FlagType'
    BY <1>6, Zenon DEF CloseBackend, FlagType
  <2>6. LocType'
    BY <1>6 DEF CloseBackend, LocType
  <2> QED  BY <2>1, <2>2, <2>3, <2>4, <2>5, <2>6
<1> QED  BY <1>1, <1>2, <1>3, <1>4, <1>5, <1>6 DEF Exit

LEMMA NextWf == Wf /\ [Next]_vars => Wf'
<1> SUFFICES ASSUME Wf, [Next]_vars PROVE Wf'
  OBVIOUS
<1>1. CASE UNCHANGED vars
  <2>1. StoreType' /\ ConsumerType' /\ LocType'
    BY <1>1 DEF Wf, TypeOK, vars, StoreType, ConsumerType, LocType
  <2>2. HandType' /\ AdminType' /\ AuxType' /\ Pointers'
    BY <1>1 DEF Wf, TypeOK, vars, HandType, AdminType, AuxType, Pointers
  <2>3. FlagType'
    BY <1>1, Zenon DEF Wf, TypeOK, vars, FlagType
  <2> QED  BY <2>1, <2>2, <2>3 DEF Wf, TypeOK
<1>2. CASE Next
  BY <1>2, PublishWf, ConnectionWf, RespondWf, HandleWf, PumpWf, ScanWf,
     EmptyWf, ExitWf DEF Next
<1> QED  BY <1>1, <1>2

\* Every variable of the channel keeps its type.
THEOREM TypeCorrect == Spec => []TypeOK
<1>1. Spec => []Wf
  BY InitWf, NextWf, PTL DEF Spec
<1> QED  BY <1>1, PTL DEF Wf

-----------------------------------------------------------------------------
(* The flow control.  A pump that has chosen to select, and whatever it has  *)
(* taken since, is for a client below the largest RDY: only the pump itself  *)
(* counts up, once, before it decides again.                                 *)

Chosen == {"select", "push", "addPQ", "send"}

RdyInv ==
    \A c \in Client : /\ InFlightCount[c] <= MaxRdy
                      /\ pump[c].pc \in Chosen => InFlightCount[c] < MaxRdy

LEMMA RdyStep ==
    ASSUME Wf, RdyInv,
           \A c \in Client : /\ InFlightCount'[c] \in Int
                             /\ InFlightCount'[c] <= InFlightCount[c] \/ InFlightCount'[c] = 0,
           \A c \in Client : pump'[c].pc \in Chosen => pump[c].pc \in Chosen \/ IsReadyForMessages(c)
    PROVE  RdyInv'
<1>1. MaxRdy \in Nat \ {0}  BY ChannelAssumption
<1>2. ASSUME NEW c \in Client
      PROVE  /\ InFlightCount'[c] <= MaxRdy
             /\ pump'[c].pc \in Chosen => InFlightCount'[c] < MaxRdy
  <2>1. InFlightCount[c] \in Int /\ ReadyCount[c] \in 0 .. MaxRdy
    BY DEF Wf, TypeOK, ConsumerType
  <2>2. /\ InFlightCount[c] <= MaxRdy
        /\ pump[c].pc \in Chosen => InFlightCount[c] < MaxRdy
        /\ InFlightCount'[c] \in Int
        /\ InFlightCount'[c] <= InFlightCount[c] \/ InFlightCount'[c] = 0
    BY DEF RdyInv
  <2>3. IsReadyForMessages(c) => InFlightCount[c] < MaxRdy
    BY <1>1, <2>1 DEF IsReadyForMessages
  <2>4. pump'[c].pc \in Chosen => InFlightCount[c] < MaxRdy
    BY <2>2, <2>3
  <2> QED  BY <1>1, <2>1, <2>2, <2>4
<1> QED  BY <1>2 DEF RdyInv

LEMMA RdySame ==
    ASSUME Wf, RdyInv, UNCHANGED <<InFlightCount, pump>>
    PROVE  RdyInv'
BY DEF RdyInv

LEMMA RdyPump ==
    ASSUME Wf, RdyInv, NEW c \in Client, Pump(c)
    PROVE  RdyInv'
<1>1. /\ pump \in [Client -> [pc : PumpPC, ptr : Ptr \cup {Nil}]]
      /\ InFlightCount \in [Client -> Int]
  BY DEF Wf, TypeOK, HandType, ConsumerType
<1>2. CASE PumpSend(c)
  <2>1. /\ InFlightCount' = [InFlightCount EXCEPT ![c] = @ + 1]
        /\ \A d \in Client : d # c => pump'[d] = pump[d]
        /\ pump'[c].pc \notin Chosen
    BY <1>1, <1>2 DEF PumpSend, Hand, Chosen
  <2>2. pump[c].pc \in Chosen  BY <1>2 DEF PumpSend, Chosen
  <2>3. MaxRdy \in Nat  BY ChannelAssumption
  <2>4. InFlightCount[c] < MaxRdy /\ InFlightCount[c] \in Int  BY <1>1, <2>2 DEF RdyInv
  <2>5. InFlightCount'[c] = InFlightCount[c] + 1
        /\ \A d \in Client : d # c => InFlightCount'[d] = InFlightCount[d]
    BY <1>1, <2>1
  <2>6. ASSUME NEW d \in Client
        PROVE  /\ InFlightCount'[d] <= MaxRdy
               /\ pump'[d].pc \in Chosen => InFlightCount'[d] < MaxRdy
    <3>1. CASE d = c  BY <2>1, <2>3, <2>4, <2>5, <3>1
    <3>2. CASE d # c  BY <2>1, <2>5, <3>2 DEF RdyInv
    <3> QED  BY <3>1, <3>2
  <2> QED  BY <2>6 DEF RdyInv
<1>3. CASE ~PumpSend(c)
  <2>1. UNCHANGED InFlightCount /\ pump[c].pc \in PumpPC
        /\ \A d \in Client : d # c => pump'[d] = pump[d]
    BY <1>1, <1>3 DEF Pump, PumpLoop, PumpExit, PumpMemory, PumpBackend, Arrive,
                      PumpPush, PumpAddPQ
  <2>2. pump'[c].pc \in Chosen => pump[c].pc \in Chosen \/ IsReadyForMessages(c)
    <3>1. CASE PumpLoop(c)
      BY <1>1, <3>1 DEF PumpLoop, Chosen
    <3>2. CASE ~PumpLoop(c)
      BY <1>1, <1>3, <3>2 DEF Pump, PumpExit, PumpMemory, PumpBackend, Arrive,
                              PumpPush, PumpAddPQ, Hand, Chosen
    <3> QED  BY <3>1, <3>2
  <2>3. \A d \in Client : /\ InFlightCount'[d] \in Int
                          /\ InFlightCount'[d] <= InFlightCount[d] \/ InFlightCount'[d] = 0
    BY <1>1, <2>1
  <2>4. \A d \in Client : pump'[d].pc \in Chosen => pump[d].pc \in Chosen \/ IsReadyForMessages(d)
    BY <2>1, <2>2
  <2> QED  BY <2>3, <2>4, RdyStep
<1> QED  BY <1>2, <1>3

LEMMA RdyDown ==
    ASSUME Wf, RdyInv, UNCHANGED pump,
           \/ \E c \in Client : InFlightCount' = [InFlightCount EXCEPT ![c] = @ - 1]
           \/ InFlightCount' = [c \in Client |-> IF c \in clients THEN 0 ELSE InFlightCount[c]]
    PROVE  RdyInv'
<1>1. InFlightCount \in [Client -> Int]  BY DEF Wf, TypeOK, ConsumerType
<1>2. \A c \in Client : /\ InFlightCount'[c] \in Int
                        /\ InFlightCount'[c] <= InFlightCount[c] \/ InFlightCount'[c] = 0
  BY <1>1
<1>3. \A c \in Client : pump'[c].pc \in Chosen => pump[c].pc \in Chosen \/ IsReadyForMessages(c)
  OBVIOUS
<1> QED  BY <1>2, <1>3, RdyStep

LEMMA NextRdy == Wf /\ RdyInv /\ [Next]_vars => RdyInv'
<1> SUFFICES ASSUME Wf, RdyInv, [Next]_vars PROVE RdyInv'
  OBVIOUS
<1>1. CASE UNCHANGED vars
  BY <1>1, RdySame DEF vars
<1>2. CASE Publish
  BY <1>2, RdySame DEF Publish, PutMessage, PutMessageDeferred, PutMessageDeferredPQ
<1>3. CASE Scan
  <2>1. CASE ScanTimedOut
    <3>1. clients \subseteq Client  BY DEF Wf, TypeOK, ConsumerType
    <3>2. UNCHANGED pump  BY <2>1 DEF ScanTimedOut
    <3>3. \/ UNCHANGED InFlightCount
          \/ \E c \in Client : InFlightCount' = [InFlightCount EXCEPT ![c] = @ - 1]
      BY <2>1, <3>1 DEF ScanTimedOut
    <3> QED  BY <3>2, <3>3, RdySame, RdyDown
  <2>2. CASE ~ScanTimedOut
    BY <1>3, <2>2, RdySame DEF Scan, ScanRest, ScanShift, ScanDeferredShift, ScanPop,
                               ScanPut, ScanDeferredPop
  <2> QED  BY <2>1, <2>2
<1>4. CASE Empty
  <2>1. CASE EmptyClients
    BY <2>1, RdyDown DEF EmptyClients
  <2>2. CASE ~EmptyClients
    BY <1>4, <2>2, RdySame DEF Empty, EmptyInFlight, EmptyDeferred, EmptyDrain, EmptyBackend
  <2> QED  BY <2>1, <2>2
<1>5. CASE Exit
  BY <1>5, RdySame DEF Exit, ExitBegin, ExitClients, FlushMemory, FlushInFlight,
                       FlushDeferred, FlushMap, CloseBackend
<1>6. ASSUME NEW c \in Client, Connection(c)  PROVE RdyInv'
  BY <1>6, RdySame DEF Connection, SUB, RDY, CLS, ConnBreak, Disconnect
<1>7. ASSUME NEW c \in Client, Respond(c)  PROVE RdyInv'
  BY <1>7, RdySame DEF Respond, FIN, REQ, TOUCH, Answer
<1>8. ASSUME NEW c \in Client, Handle(c)  PROVE RdyInv'
  <2>1. CASE AnswerCount(c)
    BY <2>1, RdyDown DEF AnswerCount
  <2>2. CASE ~AnswerCount(c)
    BY <1>8, <2>2, RdySame DEF Handle, AnswerPQ, RequeueNow, RequeueDeferred,
                               RequeueDeferredPQ, TouchPush, TouchAddPQ
  <2> QED  BY <2>1, <2>2
<1>9. ASSUME NEW c \in Client, Pump(c)  PROVE RdyInv'
  BY <1>9, RdyPump
<1> QED  BY <1>1, <1>2, <1>3, <1>4, <1>5, <1>6, <1>7, <1>8, <1>9 DEF Next

\* SendingMessage never takes a client's InFlightCount beyond the largest RDY it asked
\* for, although the pump acts on an IsReadyForMessages it evaluated before it took the
\* message, and although FIN, REQ, time-outs and Empty() update the counter meanwhile.
THEOREM RdyRespected == Spec => []RdyBound
<1>1. Init => RdyInv
  <2>1. MaxRdy \in Nat \ {0}  BY ChannelAssumption
  <2>2. Init => \A c \in Client : InFlightCount[c] = 0  BY DEF Init
  <2> QED  BY <2>1, <2>2 DEF RdyInv
<1>2. Spec => []Wf
  BY InitWf, NextWf, PTL DEF Spec
<1>3. Spec => []RdyInv
  BY <1>1, <1>2, NextRdy, PTL DEF Spec
<1>4. RdyInv => RdyBound  BY DEF RdyInv, RdyBound
<1> QED  BY <1>3, <1>4, PTL

-----------------------------------------------------------------------------
(* The history variable loc says where each message is; Custody says that    *)
(* it tells the truth of every place, and that no queue holds a message      *)
(* twice.                                                                    *)

InMemory(m) == \E i \in 1 .. Len(memoryMsgChan) : IDOf(memoryMsgChan[i]) = m
InBackend(m) == \E i \in 1 .. Len(backend) : backend[i] = m

Shapes == ((Place \ {"pump", "io"}) \X {Nil}) \cup ({"pump", "io"} \X Client)

LocShape == \A m \in Msg : loc[m] \in Shapes
MemoryLoc == \A m \in Msg : InMemory(m) <=> loc[m] = <<"memory", Nil>>
BackendLoc == \A m \in Msg : InBackend(m) <=> loc[m] = <<"backend", Nil>>
MemoryOnce == \A i, j \in 1 .. Len(memoryMsgChan) :
                 IDOf(memoryMsgChan[i]) = IDOf(memoryMsgChan[j]) => i = j
BackendOnce == \A i, j \in 1 .. Len(backend) : backend[i] = backend[j] => i = j
InFlightLoc ==
    \A m \in Msg : inFlightMessages[m] # Nil <=> loc[m] = <<"inflight", Nil>>
DeferredLoc ==
    \A m \in Msg : deferredMessages[m] # Nil <=> loc[m] = <<"deferred", Nil>>
PumpLoc ==
    \A c \in Client, m \in Msg : InPump(c, m) <=> loc[m] = <<"pump", c>>
IoLoc == \A c \in Client, m \in Msg : InIo(c, m) <=> loc[m] = <<"io", c>>
ScanLoc == \A m \in Msg : InScan(m) <=> loc[m] = <<"scan", Nil>>

Held == /\ LocShape /\ MemoryLoc /\ BackendLoc /\ MemoryOnce /\ BackendOnce
        /\ InFlightLoc /\ DeferredLoc /\ PumpLoc /\ IoLoc /\ ScanLoc
Custody == ext = "idle" => Held

\* What a step may not do to a message that has ended.
EndedKept == \A m \in Msg : loc[m][1] \in Ended \ {"new"} => loc'[m] = loc[m]

\* What is to be shown of a step.
Good == Held' /\ EndedKept

-----------------------------------------------------------------------------
(* The two queues.                                                         *)

LEMMA MemoryAppend ==
    ASSUME StoreType, MemoryOnce, NEW p \in Ptr, ~InMemory(IDOf(p)),
           memoryMsgChan' = Append(memoryMsgChan, p)
    PROVE  /\ MemoryOnce'
           /\ \A k \in Msg : InMemory(k)' <=> InMemory(k) \/ k = IDOf(p)
<1>1. /\ Len(memoryMsgChan) \in Nat /\ Len(memoryMsgChan') = Len(memoryMsgChan) + 1
      /\ \A i \in 1 .. Len(memoryMsgChan) : memoryMsgChan'[i] = memoryMsgChan[i]
      /\ memoryMsgChan'[Len(memoryMsgChan) + 1] = p
  BY DEF StoreType
<1>2. MemoryOnce'
  BY <1>1 DEF MemoryOnce, InMemory
<1>3. ASSUME NEW k \in Msg PROVE InMemory(k)' <=> InMemory(k) \/ k = IDOf(p)
  BY <1>1 DEF InMemory
<1> QED  BY <1>2, <1>3

LEMMA MemoryTail ==
    ASSUME StoreType, MemoryOnce, memoryMsgChan # << >>,
           memoryMsgChan' = Tail(memoryMsgChan)
    PROVE  /\ MemoryOnce'
           /\ InMemory(IDOf(Head(memoryMsgChan)))
           /\ \A k \in Msg : InMemory(k)' <=>
                 InMemory(k) /\ k # IDOf(Head(memoryMsgChan))
<1>1. /\ Len(memoryMsgChan) \in Nat \ {0}
      /\ Len(memoryMsgChan') = Len(memoryMsgChan) - 1
      /\ \A i \in 1 .. Len(memoryMsgChan) - 1 :
            memoryMsgChan'[i] = memoryMsgChan[i + 1]
      /\ Head(memoryMsgChan) = memoryMsgChan[1]
  BY DEF StoreType
<1>2. MemoryOnce'
  BY <1>1 DEF MemoryOnce
<1>3. InMemory(IDOf(Head(memoryMsgChan)))
  BY <1>1 DEF InMemory
<1>4. ASSUME NEW k \in Msg, InMemory(k)'
      PROVE  InMemory(k) /\ k # IDOf(Head(memoryMsgChan))
  <2>1. PICK i \in 1 .. Len(memoryMsgChan') : IDOf(memoryMsgChan'[i]) = k
    BY <1>4 DEF InMemory
  <2>2. i + 1 \in 1 .. Len(memoryMsgChan) /\ IDOf(memoryMsgChan[i + 1]) = k
          /\ 1 \in 1 .. Len(memoryMsgChan) /\ i + 1 # 1
    BY <1>1, <2>1
  <2> QED  BY <1>1, <2>2 DEF InMemory, MemoryOnce
<1>5. ASSUME NEW k \in Msg, InMemory(k), k # IDOf(Head(memoryMsgChan))
      PROVE  InMemory(k)'
  <2>1. PICK i \in 1 .. Len(memoryMsgChan) : IDOf(memoryMsgChan[i]) = k
    BY <1>5 DEF InMemory
  <2>2. i # 1 /\ i - 1 \in 1 .. Len(memoryMsgChan')
          /\ memoryMsgChan'[i - 1] = memoryMsgChan[i - 1 + 1]
    BY <1>1, <1>5, <2>1
  <2> QED  BY <2>1, <2>2 DEF InMemory
<1> QED  BY <1>2, <1>3, <1>4, <1>5

LEMMA BackendAppend ==
    ASSUME StoreType, BackendOnce, NEW m \in Msg, ~InBackend(m),
           backend' = Append(backend, m)
    PROVE  /\ BackendOnce'
           /\ \A k \in Msg : InBackend(k)' <=> InBackend(k) \/ k = m
<1>1. /\ Len(backend) \in Nat /\ Len(backend') = Len(backend) + 1
      /\ \A i \in 1 .. Len(backend) : backend'[i] = backend[i]
      /\ backend'[Len(backend) + 1] = m
  BY DEF StoreType
<1>2. BackendOnce'
  BY <1>1 DEF BackendOnce, InBackend
<1>3. ASSUME NEW k \in Msg PROVE InBackend(k)' <=> InBackend(k) \/ k = m
  BY <1>1 DEF InBackend
<1> QED  BY <1>2, <1>3

LEMMA BackendTail ==
    ASSUME StoreType, BackendOnce, backend # << >>, backend' = Tail(backend)
    PROVE  /\ BackendOnce'
           /\ Head(backend) \in Msg /\ InBackend(Head(backend))
           /\ \A k \in Msg : InBackend(k)' <=> InBackend(k) /\ k # Head(backend)
<1>1. /\ Len(backend) \in Nat \ {0}
      /\ Len(backend') = Len(backend) - 1
      /\ \A i \in 1 .. Len(backend) - 1 : backend'[i] = backend[i + 1]
      /\ Head(backend) = backend[1] /\ Head(backend) \in Msg
  BY DEF StoreType
<1>2. BackendOnce'
  BY <1>1 DEF BackendOnce
<1>3. InBackend(Head(backend))
  BY <1>1 DEF InBackend
<1>4. ASSUME NEW k \in Msg, InBackend(k)'
      PROVE  InBackend(k) /\ k # Head(backend)
  <2>1. PICK i \in 1 .. Len(backend') : backend'[i] = k
    BY <1>4 DEF InBackend
  <2>2. i + 1 \in 1 .. Len(backend) /\ backend[i + 1] = k
          /\ 1 \in 1 .. Len(backend) /\ i + 1 # 1
    BY <1>1, <2>1
  <2> QED  BY <1>1, <2>2 DEF InBackend, BackendOnce
<1>5. ASSUME NEW k \in Msg, InBackend(k), k # Head(backend)
      PROVE  InBackend(k)'
  <2>1. PICK i \in 1 .. Len(backend) : backend[i] = k
    BY <1>5 DEF InBackend
  <2>2. i # 1 /\ i - 1 \in 1 .. Len(backend')
          /\ backend'[i - 1] = backend[i - 1 + 1]
    BY <1>1, <1>5, <2>1
  <2> QED  BY <2>1, <2>2 DEF InBackend
<1> QED  BY <1>1, <1>2, <1>3, <1>4, <1>5

-----------------------------------------------------------------------------
(* Steps that move no message, and steps that move one.                    *)

SamePump == \A c \in Client, m \in Msg : InPump(c, m)' <=> InPump(c, m)
SameIo == \A c \in Client, m \in Msg : InIo(c, m)' <=> InIo(c, m)
SameScan == \A m \in Msg : InScan(m)' <=> InScan(m)

Moved(m, v) == m \in Msg /\ v \in Shapes /\ loc' = [loc EXCEPT ![m] = v]

LEMMA Still ==
    ASSUME Held, SamePump, SameIo, SameScan,
           UNCHANGED <<loc, memoryMsgChan, backend, inFlightMessages,
                       deferredMessages>>
    PROVE  Good
<1>1. LocShape' /\ MemoryLoc' /\ BackendLoc' /\ MemoryOnce' /\ BackendOnce'
  BY DEF Held, LocShape, MemoryLoc, BackendLoc, MemoryOnce, BackendOnce,
         InMemory, InBackend
<1>2. InFlightLoc' /\ DeferredLoc' /\ EndedKept
  BY DEF Held, InFlightLoc, DeferredLoc, EndedKept
<1>3. PumpLoc' /\ IoLoc' /\ ScanLoc'
  BY DEF Held, PumpLoc, IoLoc, ScanLoc, SamePump, SameIo, SameScan
<1> QED  BY <1>1, <1>2, <1>3 DEF Good, Held

\* Message m goes to place v.  Of each place it is known what it holds now,
\* or the place is not concerned.
LEMMA Move ==
    ASSUME Held, LocType, NEW m, NEW v, Moved(m, v),
           loc[m][1] \notin Ended \ {"new"},
           \/ MemoryLoc' /\ MemoryOnce'
           \/ /\ UNCHANGED memoryMsgChan
              /\ loc[m] # <<"memory", Nil>> /\ v # <<"memory", Nil>>,
           \/ BackendLoc' /\ BackendOnce'
           \/ /\ UNCHANGED backend
              /\ loc[m] # <<"backend", Nil>> /\ v # <<"backend", Nil>>,
           \/ InFlightLoc'
           \/ /\ UNCHANGED inFlightMessages
              /\ loc[m] # <<"inflight", Nil>> /\ v # <<"inflight", Nil>>,
           \/ DeferredLoc'
           \/ /\ UNCHANGED deferredMessages
              /\ loc[m] # <<"deferred", Nil>> /\ v # <<"deferred", Nil>>,
           PumpLoc' \/ (SamePump /\ loc[m][1] # "pump" /\ v[1] # "pump"),
           IoLoc' \/ (SameIo /\ loc[m][1] # "io" /\ v[1] # "io"),
           ScanLoc' \/ (SameScan /\ loc[m][1] # "scan" /\ v[1] # "scan")
    PROVE  Good
<1>1. /\ \A k \in Msg : loc'[k] = IF k = m THEN v ELSE loc[k]
      /\ m \in Msg /\ v \in Shapes
  BY DEF LocType, Moved
<1>2. LocShape' /\ EndedKept
  BY <1>1 DEF Held, LocShape, EndedKept
<1>3. MemoryLoc' /\ MemoryOnce'
  <2>1. UNCHANGED memoryMsgChan
          => MemoryOnce' /\ \A k \in Msg : InMemory(k)' <=> InMemory(k)
    BY DEF Held, MemoryOnce, InMemory
  <2> QED  BY <1>1, <2>1 DEF Held, MemoryLoc
<1>4. BackendLoc' /\ BackendOnce'
  <2>1. UNCHANGED backend
          => BackendOnce' /\ \A k \in Msg : InBackend(k)' <=> InBackend(k)
    BY DEF Held, BackendOnce, InBackend
  <2> QED  BY <1>1, <2>1 DEF Held, BackendLoc
<1>5. InFlightLoc'
  BY <1>1 DEF Held, InFlightLoc
<1>6. DeferredLoc'
  BY <1>1 DEF Held, DeferredLoc
<1>7. PumpLoc'
  BY <1>1 DEF Held, PumpLoc, SamePump
<1>8. IoLoc'
  BY <1>1 DEF Held, IoLoc, SameIo
<1>9. ScanLoc'
  BY <1>1 DEF Held, ScanLoc, SameScan
<1> QED  BY <1>2, <1>3, <1>4, <1>5, <1>6, <1>7, <1>8, <1>9 DEF Good, Held

\* A goroutine's step that neither takes a message in hand nor puts one away.
LEMMA Hands ==
    ASSUME HandType
    PROVE  /\ UNCHANGED pump => SamePump
           /\ UNCHANGED io => SameIo
           /\ UNCHANGED scan => SameScan
           /\ \A c \in Client : \A h : /\ pump' = [pump EXCEPT ![c] = h]
                                       /\ pump[c].pc # "push" /\ h.pc # "push"
                                       => SamePump
           /\ \A c \in Client : \A h : /\ io' = [io EXCEPT ![c] = h]
                                       /\ io[c].pc \notin Holding
                                       /\ h.pc \notin Holding
                                       => SameIo
           /\ scan.pc \notin {"popped", "put"} /\ scan'.pc \notin {"popped", "put"}
              => SameScan
<1>1. /\ UNCHANGED pump => SamePump
      /\ UNCHANGED io => SameIo
      /\ UNCHANGED scan => SameScan
  BY DEF SamePump, SameIo, SameScan, InPump, InIo, InScan
<1>2. ASSUME NEW c \in Client, NEW h, pump' = [pump EXCEPT ![c] = h],
             pump[c].pc # "push", h.pc # "push"
      PROVE  SamePump
  BY <1>2 DEF HandType, SamePump, InPump
<1>3. ASSUME NEW c \in Client, NEW h, io' = [io EXCEPT ![c] = h],
             io[c].pc \notin Holding, h.pc \notin Holding
      PROVE  SameIo
  BY <1>3 DEF HandType, SameIo, InIo
<1>4. scan.pc \notin {"popped", "put"} /\ scan'.pc \notin {"popped", "put"}
      => SameScan
  BY DEF SameScan, InScan
<1> QED  BY <1>1, <1>2, <1>3, <1>4

\* put() of a message that is in neither queue.
LEMMA PutMoves ==
    ASSUME Held, StoreType, LocType, NEW p \in Ptr, PutOK(p),
           loc[IDOf(p)] # <<"memory", Nil>>, loc[IDOf(p)] # <<"backend", Nil>>
    PROVE  /\ MemoryLoc' /\ MemoryOnce' /\ BackendLoc' /\ BackendOnce'
           /\ \E v \in {<<"memory", Nil>>, <<"backend", Nil>>} :
                 loc' = [loc EXCEPT ![IDOf(p)] = v]
<1>1. IDOf(p) \in Msg
  BY PtrFacts
<1>2. ~InMemory(IDOf(p)) /\ ~InBackend(IDOf(p))
  BY <1>1 DEF Held, MemoryLoc, BackendLoc
<1>3. CASE /\ memoryMsgChan' = Append(memoryMsgChan, p) /\ UNCHANGED backend
           /\ At(IDOf(p), "memory", Nil)
  <2>1. loc' = [loc EXCEPT ![IDOf(p)] = <<"memory", Nil>>]
    BY <1>3 DEF At
  <2>2. \A k \in Msg : loc'[k] = IF k = IDOf(p) THEN <<"memory", Nil>> ELSE loc[k]
    BY <1>1, <2>1 DEF LocType
  <2>3. /\ MemoryOnce'
        /\ \A k \in Msg : InMemory(k)' <=> InMemory(k) \/ k = IDOf(p)
    BY <1>2, <1>3, MemoryAppend DEF Held
  <2>4. MemoryLoc'
    BY <2>2, <2>3 DEF Held, MemoryLoc
  <2>5. BackendLoc' /\ BackendOnce'
    BY <1>2, <1>3, <2>2 DEF Held, BackendLoc, BackendOnce, InBackend
  <2> QED  BY <2>1, <2>3, <2>4, <2>5
<1>4. CASE /\ backend' = Append(backend, IDOf(p)) /\ UNCHANGED memoryMsgChan
           /\ At(IDOf(p), "backend", Nil)
  <2>1. loc' = [loc EXCEPT ![IDOf(p)] = <<"backend", Nil>>]
    BY <1>4 DEF At
  <2>2. \A k \in Msg : loc'[k] = IF k = IDOf(p) THEN <<"backend", Nil>> ELSE loc[k]
    BY <1>1, <2>1 DEF LocType
  <2>3. /\ BackendOnce'
        /\ \A k \in Msg : InBackend(k)' <=> InBackend(k) \/ k = IDOf(p)
    BY <1>1, <1>2, <1>4, BackendAppend DEF Held
  <2>4. BackendLoc'
    BY <2>2, <2>3 DEF Held, BackendLoc
  <2>5. MemoryLoc' /\ MemoryOnce'
    BY <1>2, <1>4, <2>2 DEF Held, MemoryLoc, MemoryOnce, InMemory
  <2> QED  BY <2>1, <2>3, <2>4, <2>5
<1> QED  BY <1>3, <1>4 DEF PutOK

-----------------------------------------------------------------------------
(* One lemma per goroutine.                                                *)

LEMMA ShapeFacts ==
    /\ \A place \in Place \ {"pump", "io"} : <<place, Nil>> \in Shapes
    /\ \A place \in {"pump", "io"}, c \in Client : <<place, c>> \in Shapes
BY DEF Shapes

LEMMA PublishGood == ASSUME Wf, Held, Publish PROVE Good
<1> USE DEF Wf, TypeOK
<1>1. ASSUME NEW m \in Msg, PutMessage(m) PROVE Good
  <2>1. PICK p \in Ptr : /\ IDOf(p) = m
                         /\ PutOK(p) \/ (PutFails(p) /\ At(m, "refused", Nil))
    BY <1>1 DEF PutMessage, Fresh
  <2>2. loc[m] = <<"new", Nil>>
    BY <1>1 DEF PutMessage
  <2>3. UNCHANGED <<inFlightMessages, deferredMessages, pump, io, scan>>
    BY <1>1 DEF PutMessage
  <2>4. SamePump /\ SameIo /\ SameScan
    BY <2>3, Hands
  <2>5. CASE PutOK(p)
    <3>1. PICK v \in {<<"memory", Nil>>, <<"backend", Nil>>} :
            loc' = [loc EXCEPT ![m] = v]
      BY <2>1, <2>2, <2>5, PutMoves
    <3>2. MemoryLoc' /\ MemoryOnce' /\ BackendLoc' /\ BackendOnce'
      BY <2>1, <2>2, <2>5, PutMoves
    <3>3. Moved(m, v)
      BY <3>1, ShapeFacts DEF Place, Ended, Moved
    <3> QED  BY <2>2, <2>3, <2>4, <3>1, <3>2, <3>3, Move DEF Ended
  <2>6. CASE PutFails(p) /\ At(m, "refused", Nil)
    <3>1. /\ loc' = [loc EXCEPT ![m] = <<"refused", Nil>>]
          /\ UNCHANGED <<memoryMsgChan, backend>>
      BY <2>6 DEF At, PutFails
    <3>2. Moved(m, <<"refused", Nil>>)
      BY <3>1, ShapeFacts DEF Place, Ended, Moved
    <3> QED  BY <2>2, <2>3, <2>4, <3>1, <3>2, Move DEF Ended
  <2> QED  BY <2>1, <2>5, <2>6
<1>2. ASSUME NEW m \in Msg, PutMessageDeferred(m) PROVE Good
  <2>1. PICK p \in Ptr : IDOf(p) = m /\ pushDeferredMessage(p)
    BY <1>2 DEF PutMessageDeferred, Fresh
  <2>2. /\ loc[m] = <<"new", Nil>>
        /\ deferredMessages' = [deferredMessages EXCEPT ![m] = p]
        /\ loc' = [loc EXCEPT ![m] = <<"deferred", Nil>>]
    BY <1>2, <2>1 DEF PutMessageDeferred, pushDeferredMessage, At
  <2>3. UNCHANGED <<memoryMsgChan, backend, inFlightMessages, pump, io, scan>>
    BY <1>2 DEF PutMessageDeferred
  <2>4. SamePump /\ SameIo /\ SameScan
    BY <2>3, Hands
  <2>5. DeferredLoc'
    BY <2>2, PtrFacts DEF Held, DeferredLoc, StoreType, LocType
  <2>6. Moved(m, <<"deferred", Nil>>)
    BY <2>2, ShapeFacts DEF Place, Moved
  <2> QED  BY <2>2, <2>3, <2>4, <2>5, <2>6, Move DEF Ended
<1>3. ASSUME PutMessageDeferredPQ PROVE Good
  <2>1. UNCHANGED <<loc, memoryMsgChan, backend, inFlightMessages,
                    deferredMessages, pump, io, scan>>
    BY <1>3 DEF PutMessageDeferredPQ
  <2> QED  BY <2>1, Hands, Still
<1> QED  BY <1>1, <1>2, <1>3 DEF Publish

LEMMA ConnectionGood ==
    ASSUME Wf, Held, NEW c \in Client, Connection(c) PROVE Good
<1>1. UNCHANGED <<loc, memoryMsgChan, backend, inFlightMessages,
                  deferredMessages, pump, io, scan>>
  BY DEF Connection, SUB, RDY, CLS, ConnBreak, Disconnect
<1> QED  BY <1>1, Hands, Still DEF Wf, TypeOK

LEMMA RespondGood ==
    ASSUME Wf, Held, NEW c \in Client, Respond(c) PROVE Good
<1> USE DEF Wf, TypeOK
<1>1. PICK m \in Msg : FIN(c, m) \/ REQ(c, m) \/ TOUCH(c, m)
  BY DEF Respond
<1>2. PICK pc \in {"finPQ", "reqPQ", "touchPQ"} :
        /\ Answer(c, m, pc)
        /\ loc' = [loc EXCEPT ![m] = IF pc = "finPQ" THEN <<"finished", Nil>>
                                                     ELSE <<"io", c>>]
  BY <1>1 DEF FIN, REQ, TOUCH, At
<1>3. /\ inFlightMessages[m] # Nil
      /\ inFlightMessages' = [inFlightMessages EXCEPT ![m] = Nil]
      /\ io[c].pc = "idle"
      /\ io' = [io EXCEPT ![c] = [pc |-> pc, ptr |-> inFlightMessages[m]]]
      /\ UNCHANGED <<memoryMsgChan, backend, deferredMessages, pump, scan>>
  BY <1>2 DEF Answer, popInFlightMessage, Owns, Hand, Idle
<1>4. loc[m] = <<"inflight", Nil>> /\ IDOf(inFlightMessages[m]) = m
  BY <1>3 DEF Held, InFlightLoc, Pointers
<1>5. InFlightLoc'
  BY <1>2, <1>3 DEF Held, InFlightLoc, StoreType, LocType
<1>6. IoLoc'
  <2>1. \A k \in Msg : loc'[k] =
            IF k # m THEN loc[k]
            ELSE IF pc = "finPQ" THEN <<"finished", Nil>> ELSE <<"io", c>>
    BY <1>2 DEF LocType
  <2>2. \A d \in Client, k \in Msg : d # c => (InIo(d, k)' <=> InIo(d, k))
    BY <1>3 DEF InIo, HandType
  <2>3. \A k \in Msg : InIo(c, k)' <=> pc # "finPQ" /\ k = m
    BY <1>3, <1>4 DEF InIo, HandType, Holding
  <2>4. \A k \in Msg : ~InIo(c, k)
    BY <1>3 DEF InIo, Holding
  <2> QED  BY <1>4, <2>1, <2>2, <2>3, <2>4 DEF Held, IoLoc
<1>7. SamePump /\ SameScan
  BY <1>3, Hands
<1>8. CASE pc = "finPQ"
  <2>1. Moved(m, <<"finished", Nil>>)
    BY <1>2, <1>8, ShapeFacts DEF Place, Ended, Moved
  <2> QED  BY <1>3, <1>4, <1>5, <1>6, <1>7, <2>1, Move DEF Ended
<1>9. CASE pc # "finPQ"
  <2>1. Moved(m, <<"io", c>>)
    BY <1>2, <1>9, ShapeFacts DEF Moved
  <2> QED  BY <1>3, <1>4, <1>5, <1>6, <1>7, <2>1, Move DEF Ended
<1> QED  BY <1>8, <1>9

\* Client c's IOLoop puts away message m, which it holds.
LEMMA IoReleases ==
    ASSUME Held, HandType, LocType, NEW c \in Client, NEW m, NEW v, Moved(m, v),
           InIo(c, m), v[1] # "io", io'[c].pc \notin Holding,
           \A d \in Client \ {c} : io'[d] = io[d]
    PROVE  IoLoc'
<1>1. /\ \A k \in Msg : loc'[k] = IF k = m THEN v ELSE loc[k]
      /\ m \in Msg
  BY DEF LocType, Moved
<1>2. \A d \in Client, k \in Msg : d # c => (InIo(d, k)' <=> InIo(d, k))
  BY DEF InIo
<1>3. \A k \in Msg : ~InIo(c, k)'
  BY DEF InIo
<1>4. \A k \in Msg : InIo(c, k) => k = m
  BY DEF InIo
<1> QED  BY <1>1, <1>2, <1>3, <1>4 DEF Held, IoLoc

LEMMA HandleGood ==
    ASSUME Wf, Held, NEW c \in Client, Handle(c) PROVE Good
<1> USE DEF Wf, TypeOK
<1>1. ASSUME AnswerPQ(c) PROVE Good
  <2>1. /\ io[c].pc \in {"finPQ", "reqPQ", "touchPQ"}
        /\ io' = [io EXCEPT ![c].pc = NextPC[@]]
        /\ UNCHANGED <<loc, memoryMsgChan, backend, inFlightMessages,
                       deferredMessages, pump, scan>>
    BY <1>1 DEF AnswerPQ, NextPC
  <2>2. io'[c].pc \in Holding <=> io[c].pc \in Holding
    BY <2>1 DEF Holding, NextPC, HandType
  <2>3. SameIo
    BY <2>1, <2>2 DEF SameIo, InIo, HandType
  <2> QED  BY <2>1, <2>3, Hands, Still
<1>2. ASSUME AnswerCount(c) PROVE Good
  <2>1. /\ io[c].pc \notin Holding /\ Idle.pc \notin Holding
        /\ io' = [io EXCEPT ![c] = Idle]
        /\ UNCHANGED <<loc, memoryMsgChan, backend, inFlightMessages,
                       deferredMessages, pump, scan>>
    BY <1>2 DEF AnswerCount, Holding, Idle, Hand
  <2> QED  BY <2>1, Hands, Still
<1>3. ASSUME RequeueNow(c) PROVE Good
  <2> DEFINE p == io[c].ptr
  <2>1. /\ io[c].pc = "reqPut" /\ p \in Ptr /\ IDOf(p) \in Msg
        /\ UNCHANGED <<inFlightMessages, deferredMessages, pump, scan>>
    BY <1>3, PtrFacts DEF RequeueNow, Pointers
  <2>2. InIo(c, IDOf(p)) /\ loc[IDOf(p)] = <<"io", c>>
    BY <2>1 DEF Held, IoLoc, InIo, Holding
  <2>3. io'[c].pc \notin Holding /\ \A d \in Client \ {c} : io'[d] = io[d]
    <3>1. io' = [io EXCEPT ![c].pc = "reqCount"] \/ io' = [io EXCEPT ![c] = Idle]
      BY <1>3 DEF RequeueNow
    <3> QED  BY <3>1 DEF HandType, Holding, Idle, Hand
  <2>4. SamePump /\ SameScan
    BY <2>1, Hands
  <2>5. CASE PutOK(p)
    <3>1. PICK v \in {<<"memory", Nil>>, <<"backend", Nil>>} :
            loc' = [loc EXCEPT ![IDOf(p)] = v]
      BY <2>1, <2>2, <2>5, PutMoves
    <3>2. MemoryLoc' /\ MemoryOnce' /\ BackendLoc' /\ BackendOnce'
      BY <2>1, <2>2, <2>5, PutMoves
    <3>3. Moved(IDOf(p), v)
      BY <2>1, <3>1, ShapeFacts DEF Place, Ended, Moved
    <3>4. IoLoc'
      BY <2>2, <2>3, <3>3, IoReleases
    <3> QED  BY <2>1, <2>2, <2>4, <3>2, <3>3, <3>4, Move DEF Ended
  <2>6. CASE UNCHANGED <<memoryMsgChan, backend>> /\ At(IDOf(p), "lost", Nil)
    <3>1. Moved(IDOf(p), <<"lost", Nil>>)
      BY <2>1, <2>6, ShapeFacts DEF Place, Ended, Moved, At
    <3>2. IoLoc'
      BY <2>2, <2>3, <3>1, IoReleases
    <3> QED  BY <2>1, <2>2, <2>4, <2>6, <3>1, <3>2, Move DEF Ended
  <2> QED  BY <1>3, <2>5, <2>6 DEF RequeueNow, PutFails
<1>4. ASSUME RequeueDeferred(c) PROVE Good
  <2> DEFINE p == io[c].ptr
  <2>1. /\ io[c].pc = "reqPut" /\ p \in Ptr /\ IDOf(p) \in Msg
        /\ io' = [io EXCEPT ![c].pc = "reqDeferPQ"]
        /\ deferredMessages' = [deferredMessages EXCEPT ![IDOf(p)] = p]
        /\ loc' = [loc EXCEPT ![IDOf(p)] = <<"deferred", Nil>>]
        /\ UNCHANGED <<memoryMsgChan, backend, inFlightMessages, pump, scan>>
    BY <1>4, PtrFacts DEF RequeueDeferred, pushDeferredMessage, At, Pointers
  <2>2. InIo(c, IDOf(p)) /\ loc[IDOf(p)] = <<"io", c>>
    BY <2>1 DEF Held, IoLoc, InIo, Holding
  <2>3. io'[c].pc \notin Holding /\ \A d \in Client \ {c} : io'[d] = io[d]
    BY <2>1 DEF HandType, Holding
  <2>4. SamePump /\ SameScan
    BY <2>1, Hands
  <2>5. Moved(IDOf(p), <<"deferred", Nil>>)
    BY <2>1, ShapeFacts DEF Place, Moved
  <2>6. DeferredLoc'
    BY <2>1, PtrFacts DEF Held, DeferredLoc, StoreType, LocType
  <2>7. IoLoc'
    BY <2>2, <2>3, <2>5, IoReleases
  <2> QED  BY <2>1, <2>2, <2>4, <2>5, <2>6, <2>7, Move DEF Ended
<1>5. ASSUME RequeueDeferredPQ(c) PROVE Good
  <2>1. /\ io[c].pc = "reqDeferPQ" /\ io' = [io EXCEPT ![c].pc = "reqCount"]
        /\ UNCHANGED <<loc, memoryMsgChan, backend, inFlightMessages,
                       deferredMessages, pump, scan>>
    BY <1>5 DEF RequeueDeferredPQ
  <2>2. SameIo
    BY <2>1 DEF SameIo, InIo, HandType, Holding
  <2> QED  BY <2>1, <2>2, Hands, Still
<1>6. ASSUME TouchPush(c) PROVE Good
  <2> DEFINE p == io[c].ptr
  <2>1. /\ io[c].pc = "touchPush" /\ p \in Ptr /\ IDOf(p) \in Msg
        /\ io' = [io EXCEPT ![c].pc = "touchAddPQ"]
        /\ inFlightMessages' = [inFlightMessages EXCEPT ![IDOf(p)] = p]
        /\ loc' = [loc EXCEPT ![IDOf(p)] = <<"inflight", Nil>>]
        /\ UNCHANGED <<memoryMsgChan, backend, deferredMessages, pump, scan>>
    BY <1>6, PtrFacts DEF TouchPush, pushInFlightMessage, At, Pointers
  <2>2. InIo(c, IDOf(p)) /\ loc[IDOf(p)] = <<"io", c>>
    BY <2>1 DEF Held, IoLoc, InIo, Holding
  <2>3. io'[c].pc \notin Holding /\ \A d \in Client \ {c} : io'[d] = io[d]
    BY <2>1 DEF HandType, Holding
  <2>4. SamePump /\ SameScan
    BY <2>1, Hands
  <2>5. Moved(IDOf(p), <<"inflight", Nil>>)
    BY <2>1, ShapeFacts DEF Place, Moved
  <2>6. InFlightLoc'
    BY <2>1, PtrFacts DEF Held, InFlightLoc, StoreType, LocType
  <2>7. IoLoc'
    BY <2>2, <2>3, <2>5, IoReleases
  <2> QED  BY <2>1, <2>2, <2>4, <2>5, <2>6, <2>7, Move DEF Ended
<1>7. ASSUME TouchAddPQ(c) PROVE Good
  <2>1. /\ io[c].pc \notin Holding /\ Idle.pc \notin Holding
        /\ io' = [io EXCEPT ![c] = Idle]
        /\ UNCHANGED <<loc, memoryMsgChan, backend, inFlightMessages,
                       deferredMessages, pump, scan>>
    BY <1>7 DEF TouchAddPQ, Holding, Idle, Hand
  <2> QED  BY <2>1, Hands, Still
<1> QED  BY <1>1, <1>2, <1>3, <1>4, <1>5, <1>6, <1>7 DEF Handle

\* Client c's messagePump, with nothing in hand, takes message p from a queue:
\* it holds the message, or drops it by sampling.
LEMMA ArriveGood ==
    ASSUME Held, HandType, LocType, NEW c \in Client, NEW p \in Ptr,
           Arrive(c, p), pump[c].pc = "select",
           loc[IDOf(p)][1] \in {"memory", "backend"},
           UNCHANGED <<inFlightMessages, deferredMessages, io, scan>>,
           \/ MemoryLoc' /\ MemoryOnce'
           \/ UNCHANGED memoryMsgChan /\ loc[IDOf(p)] # <<"memory", Nil>>,
           \/ BackendLoc' /\ BackendOnce'
           \/ UNCHANGED backend /\ loc[IDOf(p)] # <<"backend", Nil>>
    PROVE  Good
<1>1. IDOf(p) \in Msg
  BY PtrFacts
<1>2. SameIo /\ SameScan
  BY Hands
<1>3. CASE pump' = [pump EXCEPT ![c] = Hand("push", p)] /\ At(IDOf(p), "pump", c)
  <2>1. Moved(IDOf(p), <<"pump", c>>)
    BY <1>1, <1>3, ShapeFacts DEF At, Moved
  <2>2. PumpLoc'
    <3>1. \A k \in Msg : loc'[k] = IF k = IDOf(p) THEN <<"pump", c>> ELSE loc[k]
      BY <1>1, <1>3 DEF LocType, At
    <3>2. \A d \in Client, k \in Msg : d # c => (InPump(d, k)' <=> InPump(d, k))
      BY <1>3 DEF InPump, HandType
    <3>3. \A k \in Msg : ~InPump(c, k) /\ (InPump(c, k)' <=> k = IDOf(p))
      BY <1>3 DEF InPump, HandType, Hand
    <3> QED  BY <3>1, <3>2, <3>3 DEF Held, PumpLoc
  <2> QED  BY <1>2, <2>1, <2>2, Move DEF Ended
<1>4. CASE /\ pump' = [pump EXCEPT ![c] = Hand("wait", Nil)]
           /\ At(IDOf(p), "dropped", Nil)
  <2>1. Moved(IDOf(p), <<"dropped", Nil>>)
    BY <1>1, <1>4, ShapeFacts DEF At, Moved, Place, Ended
  <2>2. SamePump
    BY <1>4 DEF SamePump, InPump, HandType, Hand
  <2> QED  BY <1>2, <2>1, <2>2, Move DEF Ended
<1> QED  BY <1>3, <1>4 DEF Arrive

LEMMA PumpGood ==
    ASSUME Wf, Held, NEW c \in Client, Pump(c) PROVE Good
<1> USE DEF Wf, TypeOK
<1>1. ASSUME PumpLoop(c) \/ PumpAddPQ(c) PROVE Good
  <2>1. PICK pc \in {"select", "wait", "send"} :
          /\ pump[c].pc # "push" /\ pump' = [pump EXCEPT ![c].pc = pc]
          /\ UNCHANGED <<loc, memoryMsgChan, backend, inFlightMessages,
                         deferredMessages, io, scan>>
    BY <1>1 DEF PumpLoop, PumpAddPQ
  <2>2. SamePump
    BY <2>1 DEF SamePump, InPump, HandType
  <2> QED  BY <2>1, <2>2, Hands, Still
<1>2. ASSUME PumpExit(c) \/ PumpSend(c) PROVE Good
  <2>1. PICK pc \in {"exited", "wait"} :
          /\ pump[c].pc # "push" /\ pump' = [pump EXCEPT ![c] = Hand(pc, Nil)]
          /\ UNCHANGED <<loc, memoryMsgChan, backend, inFlightMessages,
                         deferredMessages, io, scan>>
    BY <1>2 DEF PumpExit, PumpSend
  <2>2. SamePump
    BY <2>1 DEF SamePump, InPump, HandType, Hand
  <2> QED  BY <2>1, <2>2, Hands, Still
<1>3. ASSUME PumpMemory(c) PROVE Good
  <2>1. /\ pump[c].pc = "select" /\ memoryMsgChan # << >>
        /\ memoryMsgChan' = Tail(memoryMsgChan)
        /\ Arrive(c, Head(memoryMsgChan))
        /\ UNCHANGED <<backend, inFlightMessages, deferredMessages, io, scan>>
    BY <1>3 DEF PumpMemory
  <2>2. PICK p \in Ptr : p = Head(memoryMsgChan) /\ IDOf(p) \in Msg
    BY <2>1, MemoryHead
  <2>3. /\ MemoryOnce' /\ InMemory(IDOf(p))
        /\ \A k \in Msg : InMemory(k)' <=> InMemory(k) /\ k # IDOf(p)
    BY <2>1, <2>2, MemoryTail DEF Held
  <2>4. loc[IDOf(p)] = <<"memory", Nil>>
    BY <2>2, <2>3 DEF Held, MemoryLoc
  <2>5. \E v \in {<<"pump", c>>, <<"dropped", Nil>>} :
          loc' = [loc EXCEPT ![IDOf(p)] = v]
    BY <2>1, <2>2 DEF Arrive, At
  <2>6. MemoryLoc'
    BY <2>2, <2>3, <2>5 DEF Held, MemoryLoc, LocType
  <2> QED  BY <2>1, <2>2, <2>3, <2>4, <2>6, ArriveGood
<1>4. ASSUME PumpBackend(c) PROVE Good
  <2>1. /\ pump[c].pc = "select" /\ backend # << >>
        /\ backend' = Tail(backend)
        /\ UNCHANGED <<memoryMsgChan, inFlightMessages, deferredMessages, io,
                       scan>>
    BY <1>4 DEF PumpBackend
  <2>2. PICK p \in Ptr : IDOf(p) = Head(backend) /\ Arrive(c, p)
    BY <1>4 DEF PumpBackend, Fresh
  <2>3. /\ BackendOnce' /\ IDOf(p) \in Msg /\ InBackend(IDOf(p))
        /\ \A k \in Msg : InBackend(k)' <=> InBackend(k) /\ k # IDOf(p)
    BY <2>1, <2>2, BackendTail DEF Held
  <2>4. loc[IDOf(p)] = <<"backend", Nil>>
    BY <2>3 DEF Held, BackendLoc
  <2>5. \E v \in {<<"pump", c>>, <<"dropped", Nil>>} :
          loc' = [loc EXCEPT ![IDOf(p)] = v]
    BY <2>2 DEF Arrive, At
  <2>6. BackendLoc'
    BY <2>3, <2>5 DEF Held, BackendLoc, LocType
  <2> QED  BY <2>1, <2>2, <2>3, <2>4, <2>6, ArriveGood
<1>5. ASSUME PumpPush(c) PROVE Good
  <2> DEFINE p == pump[c].ptr
  <2>1. /\ pump[c].pc = "push" /\ p \in Ptr /\ IDOf(p) \in Msg
        /\ pump' = [pump EXCEPT ![c].pc = "addPQ"]
        /\ inFlightMessages' = [inFlightMessages EXCEPT ![IDOf(p)] = p]
        /\ loc' = [loc EXCEPT ![IDOf(p)] = <<"inflight", Nil>>]
        /\ UNCHANGED <<memoryMsgChan, backend, deferredMessages, io, scan>>
    BY <1>5, PtrFacts DEF PumpPush, pushInFlightMessage, At, Pointers
  <2>2. loc[IDOf(p)] = <<"pump", c>>
    BY <2>1 DEF Held, PumpLoc, InPump
  <2>3. SameIo /\ SameScan
    BY <2>1, Hands
  <2>4. Moved(IDOf(p), <<"inflight", Nil>>)
    BY <2>1, ShapeFacts DEF Place, Moved
  <2>5. InFlightLoc'
    BY <2>1, PtrFacts DEF Held, InFlightLoc, StoreType, LocType
  <2>6. PumpLoc'
    <3>1. \A k \in Msg : loc'[k] =
              IF k = IDOf(p) THEN <<"inflight", Nil>> ELSE loc[k]
      BY <2>1 DEF LocType
    <3>2. \A d \in Client, k \in Msg : d # c => (InPump(d, k)' <=> InPump(d, k))
      BY <2>1 DEF InPump, HandType
    <3>3. \A k \in Msg : ~InPump(c, k)' /\ (InPump(c, k) <=> k = IDOf(p))
      BY <2>1 DEF InPump, HandType
    <3> QED  BY <3>1, <3>2, <3>3 DEF Held, PumpLoc
  <2> QED  BY <2>1, <2>2, <2>3, <2>4, <2>5, <2>6, Move DEF Ended
<1> QED  BY <1>1, <1>2, <1>3, <1>4, <1>5 DEF Pump

LEMMA ScanGood == ASSUME Wf, Held, Scan PROVE Good
<1> USE DEF Wf, TypeOK
<1>1. ASSUME NEW p \in Ptr, ScanShift(p) \/ ScanDeferredShift(p) PROVE Good
  <2>1. /\ scan.pc = "idle" /\ scan'.pc \in {"shifted", "deferred"}
        /\ UNCHANGED <<loc, memoryMsgChan, backend, inFlightMessages,
                       deferredMessages, io, pump>>
    BY <1>1 DEF ScanShift, ScanDeferredShift, Hand, Idle
  <2> QED  BY <2>1, Hands, Still
<1>2. ASSUME ScanTimedOut PROVE Good
  <2>1. /\ scan.pc = "popped" /\ scan' = [scan EXCEPT !.pc = "put"]
        /\ UNCHANGED <<loc, memoryMsgChan, backend, inFlightMessages,
                       deferredMessages, io, pump>>
    BY <1>2 DEF ScanTimedOut
  <2>2. SameScan
    BY <2>1 DEF SameScan, InScan, HandType
  <2> QED  BY <2>1, <2>2, Hands, Still
<1>3. ASSUME ScanPop PROVE Good
  <2> DEFINE m == IDOf(scan.ptr)
  <2>1. /\ scan.pc = "shifted" /\ m \in Msg
        /\ UNCHANGED <<memoryMsgChan, backend, deferredMessages, io, pump>>
    BY <1>3, PtrFacts DEF ScanPop, Pointers
  <2>2. SamePump /\ SameIo
    BY <2>1, Hands
  <2>3. CASE UNCHANGED <<inFlightMessages, loc>> /\ scan' = Idle
    BY <2>1, <2>2, <2>3, Hands, Still DEF Idle, Hand
  <2>4. CASE /\ inFlightMessages[m] # Nil
             /\ inFlightMessages' = [inFlightMessages EXCEPT ![m] = Nil]
             /\ scan' = [scan EXCEPT !.pc = "popped"] /\ At(m, "scan", Nil)
    <3>1. loc[m] = <<"inflight", Nil>>
      BY <2>1, <2>4 DEF Held, InFlightLoc
    <3>2. Moved(m, <<"scan", Nil>>)
      BY <2>1, <2>4, ShapeFacts DEF At, Moved, Place
    <3>3. \A k \in Msg : loc'[k] = IF k = m THEN <<"scan", Nil>> ELSE loc[k]
      BY <2>1, <2>4 DEF LocType, At
    <3>4. InFlightLoc'
      BY <2>1, <2>4, <3>3 DEF Held, InFlightLoc, StoreType
    <3>5. \A k \in Msg : ~InScan(k) /\ (InScan(k)' <=> k = m)
      BY <2>1, <2>4 DEF InScan, HandType
    <3>6. ScanLoc'
      BY <3>3, <3>5 DEF Held, ScanLoc
    <3> QED  BY <2>1, <2>2, <3>1, <3>2, <3>4, <3>6, Move DEF Ended
  <2> QED  BY <1>3, <2>3, <2>4 DEF ScanPop, popInFlightMessage, Owns
<1>4. ASSUME ScanDeferredPop PROVE Good
  <2> DEFINE m == IDOf(scan.ptr)
  <2>1. /\ scan.pc = "deferred" /\ m \in Msg
        /\ UNCHANGED <<memoryMsgChan, backend, inFlightMessages, io, pump>>
    BY <1>4, PtrFacts DEF ScanDeferredPop, Pointers
  <2>2. SamePump /\ SameIo
    BY <2>1, Hands
  <2>3. CASE UNCHANGED <<deferredMessages, loc>> /\ scan' = Idle
    BY <2>1, <2>2, <2>3, Hands, Still DEF Idle, Hand
  <2>4. CASE /\ deferredMessages[m] # Nil
             /\ deferredMessages' = [deferredMessages EXCEPT ![m] = Nil]
             /\ scan' = [scan EXCEPT !.pc = "put"] /\ At(m, "scan", Nil)
    <3>1. loc[m] = <<"deferred", Nil>>
      BY <2>1, <2>4 DEF Held, DeferredLoc
    <3>2. Moved(m, <<"scan", Nil>>)
      BY <2>1, <2>4, ShapeFacts DEF At, Moved, Place
    <3>3. \A k \in Msg : loc'[k] = IF k = m THEN <<"scan", Nil>> ELSE loc[k]
      BY <2>1, <2>4 DEF LocType, At
    <3>4. DeferredLoc'
      <4>1. \A k \in Msg : deferredMessages'[k] =
                IF k = m THEN Nil ELSE deferredMessages[k]
        BY <2>1, <2>4 DEF StoreType
      <4> QED  BY <3>3, <4>1 DEF Held, DeferredLoc
    <3>5. \A k \in Msg : ~InScan(k) /\ (InScan(k)' <=> k = m)
      BY <2>1, <2>4 DEF InScan, HandType
    <3>6. ScanLoc'
      BY <3>3, <3>5 DEF Held, ScanLoc
    <3> QED  BY <2>1, <2>2, <3>1, <3>2, <3>4, <3>6, Move DEF Ended
  <2> QED  BY <1>4, <2>3, <2>4 DEF ScanDeferredPop
<1>5. ASSUME ScanPut PROVE Good
  <2> DEFINE p == scan.ptr
  <2>1. /\ scan.pc = "put" /\ p \in Ptr /\ IDOf(p) \in Msg /\ scan' = Idle
        /\ UNCHANGED <<inFlightMessages, deferredMessages, io, pump>>
    BY <1>5, PtrFacts DEF ScanPut, Pointers
  <2>2. loc[IDOf(p)] = <<"scan", Nil>>
    BY <2>1 DEF Held, ScanLoc, InScan
  <2>3. SamePump /\ SameIo
    BY <2>1, Hands
  <2>4. ASSUME NEW v, Moved(IDOf(p), v), v # <<"scan", Nil>> PROVE ScanLoc'
    <3>1. \A k \in Msg : loc'[k] = IF k = IDOf(p) THEN v ELSE loc[k]
      BY <2>4 DEF LocType, Moved
    <3>2. \A k \in Msg : ~InScan(k)' /\ (InScan(k) <=> k = IDOf(p))
      BY <2>1 DEF InScan, Idle, Hand
    <3> QED  BY <2>4, <3>1, <3>2 DEF Held, ScanLoc
  <2>5. CASE PutOK(p)
    <3>1. PICK v \in {<<"memory", Nil>>, <<"backend", Nil>>} :
            loc' = [loc EXCEPT ![IDOf(p)] = v]
      BY <2>1, <2>2, <2>5, PutMoves
    <3>2. MemoryLoc' /\ MemoryOnce' /\ BackendLoc' /\ BackendOnce'
      BY <2>1, <2>2, <2>5, PutMoves
    <3>3. Moved(IDOf(p), v)
      BY <2>1, <3>1, ShapeFacts DEF Place, Ended, Moved
    <3> QED  BY <2>1, <2>2, <2>3, <2>4, <3>2, <3>3, Move DEF Ended
  <2>6. CASE UNCHANGED <<memoryMsgChan, backend>> /\ At(IDOf(p), "lost", Nil)
    <3>1. Moved(IDOf(p), <<"lost", Nil>>)
      BY <2>1, <2>6, ShapeFacts DEF Place, Ended, Moved, At
    <3> QED  BY <2>1, <2>2, <2>3, <2>4, <2>6, <3>1, Move DEF Ended
  <2> QED  BY <1>5, <2>5, <2>6 DEF ScanPut, PutFails
<1> QED  BY <1>1, <1>2, <1>3, <1>4, <1>5 DEF Scan, ScanRest

\* A place is emptied: every message of S is dropped from it.
LEMMA DropFacts ==
    ASSUME LocType, NEW S, DropAll(S)
    PROVE  \A k \in Msg : loc'[k] = IF k \in S THEN <<"dropped", Nil>> ELSE loc[k]
BY DEF DropAll, AllAt, LocType

\* Every message of place u is dropped.
LEMMA Emptied ==
    ASSUME Held, HandType, NEW u,
           u \in {<<"inflight", Nil>>, <<"deferred", Nil>>, <<"backend", Nil>>},
           \A k \in Msg : loc'[k] = IF loc[k] = u THEN <<"dropped", Nil>>
                                                  ELSE loc[k],
           UNCHANGED <<memoryMsgChan, io, pump, scan>>,
           InFlightLoc' /\ DeferredLoc',
           \/ BackendLoc' /\ BackendOnce'
           \/ UNCHANGED backend /\ u # <<"backend", Nil>>
    PROVE  Good
<1>1. <<"dropped", Nil>> \in Shapes
  BY ShapeFacts DEF Place, Ended
<1>2. LocShape' /\ EndedKept
  BY <1>1 DEF Held, LocShape, EndedKept, Ended
<1>3. MemoryLoc' /\ MemoryOnce'
  <2>1. MemoryOnce' /\ \A k \in Msg : InMemory(k)' <=> InMemory(k)
    BY DEF Held, MemoryOnce, InMemory
  <2> QED  BY <2>1 DEF Held, MemoryLoc
<1>4. BackendLoc' /\ BackendOnce'
  <2>1. UNCHANGED backend
          => BackendOnce' /\ \A k \in Msg : InBackend(k)' <=> InBackend(k)
    BY DEF Held, BackendOnce, InBackend
  <2> QED  BY <2>1 DEF Held, BackendLoc
<1>5. PumpLoc' /\ IoLoc' /\ ScanLoc'
  BY Hands DEF Held, PumpLoc, IoLoc, ScanLoc, SamePump, SameIo, SameScan
<1> QED  BY <1>2, <1>3, <1>4, <1>5 DEF Good, Held

LEMMA EmptyGood == ASSUME Wf, Held, Empty PROVE Good
<1> USE DEF Wf, TypeOK
<1>0. <<"dropped", Nil>> \in Shapes
  BY ShapeFacts DEF Place, Ended
<1>1. ASSUME EmptyInFlight PROVE Good
  <2>1. /\ inFlightMessages' = [k \in Msg |-> Nil]
        /\ DropAll(InMap(inFlightMessages))
        /\ UNCHANGED <<memoryMsgChan, backend, deferredMessages, io, pump, scan>>
    BY <1>1 DEF EmptyInFlight
  <2>2. \A k \in Msg : /\ k \in InMap(inFlightMessages)
                            <=> loc[k] = <<"inflight", Nil>>
                       /\ loc'[k] = IF k \in InMap(inFlightMessages)
                                      THEN <<"dropped", Nil>> ELSE loc[k]
    BY <2>1, DropFacts DEF InMap, Held, InFlightLoc
  <2>3. InFlightLoc'
    BY <2>1, <2>2 DEF InFlightLoc
  <2>4. DeferredLoc'
    BY <2>1, <2>2 DEF Held, DeferredLoc
  <2> QED  BY <1>0, <2>1, <2>2, <2>3, <2>4, Emptied DEF Ended
<1>2. ASSUME EmptyDeferred PROVE Good
  <2>1. /\ deferredMessages' = [k \in Msg |-> Nil]
        /\ DropAll(InMap(deferredMessages))
        /\ UNCHANGED <<memoryMsgChan, backend, inFlightMessages, io, pump, scan>>
    BY <1>2 DEF EmptyDeferred
  <2>2. \A k \in Msg : /\ k \in InMap(deferredMessages)
                            <=> loc[k] = <<"deferred", Nil>>
                       /\ loc'[k] = IF k \in InMap(deferredMessages)
                                      THEN <<"dropped", Nil>> ELSE loc[k]
    BY <2>1, DropFacts DEF InMap, Held, DeferredLoc
  <2>3. DeferredLoc'
    BY <2>1, <2>2 DEF DeferredLoc
  <2>4. InFlightLoc'
    BY <2>1, <2>2 DEF Held, InFlightLoc
  <2> QED  BY <1>0, <2>1, <2>2, <2>3, <2>4, Emptied DEF Ended
<1>3. ASSUME EmptyClients PROVE Good
  <2>1. UNCHANGED <<loc, memoryMsgChan, backend, inFlightMessages,
                    deferredMessages, io, pump, scan>>
    BY <1>3 DEF EmptyClients
  <2> QED  BY <2>1, Hands, Still
<1>4. ASSUME EmptyDrain PROVE Good
  <2>1. UNCHANGED <<backend, inFlightMessages, deferredMessages, io, pump, scan>>
    BY <1>4 DEF EmptyDrain
  <2>2. SamePump /\ SameIo /\ SameScan
    BY <2>1, Hands
  <2>3. CASE UNCHANGED <<memoryMsgChan, loc>>
    BY <2>1, <2>2, <2>3, Still
  <2>4. CASE /\ memoryMsgChan # << >> /\ memoryMsgChan' = Tail(memoryMsgChan)
             /\ At(IDOf(Head(memoryMsgChan)), "dropped", Nil)
    <3>1. PICK m \in Msg : m = IDOf(Head(memoryMsgChan))
      BY <2>4, MemoryHead
    <3>2. /\ MemoryOnce' /\ InMemory(m)
          /\ \A k \in Msg : InMemory(k)' <=> InMemory(k) /\ k # m
      BY <2>4, <3>1, MemoryTail DEF Held
    <3>3. loc[m] = <<"memory", Nil>>
      BY <3>2 DEF Held, MemoryLoc
    <3>4. Moved(m, <<"dropped", Nil>>)
      BY <1>0, <2>4, <3>1 DEF Moved, At
    <3>5. MemoryLoc'
      BY <3>2, <3>4 DEF Held, MemoryLoc, Moved, LocType
    <3> QED  BY <2>1, <2>2, <3>2, <3>3, <3>4, <3>5, Move DEF Ended
  <2> QED  BY <1>4, <2>3, <2>4 DEF EmptyDrain
<1>5. ASSUME EmptyBackend PROVE Good
  <2> DEFINE S == {backend[i] : i \in 1 .. Len(backend)}
  <2>1. /\ backend' = << >> /\ DropAll(S)
        /\ UNCHANGED <<memoryMsgChan, inFlightMessages, deferredMessages, io,
                       pump, scan>>
    BY <1>5 DEF EmptyBackend
  <2>2. \A k \in Msg : /\ k \in S <=> loc[k] = <<"backend", Nil>>
                       /\ loc'[k] = IF k \in S THEN <<"dropped", Nil>> ELSE loc[k]
    BY <2>1, DropFacts DEF Held, BackendLoc, InBackend
  <2>3. BackendLoc' /\ BackendOnce'
    BY <2>1, <2>2 DEF BackendLoc, BackendOnce, InBackend
  <2>4. InFlightLoc' /\ DeferredLoc'
    BY <2>1, <2>2 DEF Held, InFlightLoc, DeferredLoc
  <2> QED  BY <1>0, <2>1, <2>2, <2>3, <2>4, Emptied DEF Ended
<1> QED  BY <1>1, <1>2, <1>3, <1>4, <1>5 DEF Empty

-----------------------------------------------------------------------------
(* The theorems.                                                           *)

LEMMA InitCustody == Init => Custody
<1> SUFFICES ASSUME Init PROVE Held
  BY DEF Custody
<1>1. LocShape
  BY ShapeFacts DEF Init, LocShape, Place, Ended
<1>2. MemoryLoc /\ BackendLoc /\ MemoryOnce /\ BackendOnce
  BY DEF Init, MemoryLoc, BackendLoc, MemoryOnce, BackendOnce, InMemory, InBackend
<1>3. InFlightLoc /\ DeferredLoc
  BY DEF Init, InFlightLoc, DeferredLoc
<1>4. PumpLoc /\ IoLoc /\ ScanLoc
  BY DEF Init, PumpLoc, IoLoc, ScanLoc, InPump, InIo, InScan, Hand, Idle, Holding
<1> QED  BY <1>1, <1>2, <1>3, <1>4 DEF Held

\* Only exit() leaves "idle", and nothing returns to it.
LEMMA StepGood ==
    ASSUME Wf, Custody, Next, ext' = "idle" PROVE ext = "idle" /\ Good
<1>1. CASE Exit
  BY <1>1, ChannelAssumption
     DEF Exit, ExitBegin, ExitClients, FlushMemory, FlushInFlight,
         FlushDeferred, FlushMap, CloseBackend
<1>2. CASE Publish
  <2>1. ext = "idle"
    BY <1>2 DEF Publish, PutMessage, PutMessageDeferred, PutMessageDeferredPQ
  <2> QED  BY <1>2, <2>1, PublishGood DEF Custody
<1>3. CASE Scan
  <2>1. ext = "idle"
    BY <1>3 DEF Scan, ScanRest, ScanShift, ScanDeferredShift, ScanPop,
                ScanTimedOut, ScanPut, ScanDeferredPop
  <2> QED  BY <1>3, <2>1, ScanGood DEF Custody
<1>4. CASE Empty
  <2>1. ext = "idle"
    BY <1>4 DEF Empty, EmptyInFlight, EmptyDeferred, EmptyClients, EmptyDrain,
                EmptyBackend
  <2> QED  BY <1>4, <2>1, EmptyGood DEF Custody
<1>5. ASSUME NEW c \in Client,
             Connection(c) \/ Respond(c) \/ Handle(c) \/ Pump(c)
      PROVE  ext = "idle" /\ Good
  <2>1. Connection(c) => ext = "idle"
    BY DEF Connection, SUB, RDY, CLS, ConnBreak, Disconnect
  <2>2. Respond(c) => ext = "idle"
    BY DEF Respond, FIN, REQ, TOUCH, Answer
  <2>3. Handle(c) => ext = "idle"
    BY DEF Handle, AnswerPQ, AnswerCount, RequeueNow, RequeueDeferred,
           RequeueDeferredPQ, TouchPush, TouchAddPQ
  <2>4. Pump(c) => ext = "idle"
    BY DEF Pump, PumpLoop, PumpExit, PumpMemory, PumpBackend, PumpPush,
           PumpAddPQ, PumpSend
  <2> QED  BY <1>5, <2>1, <2>2, <2>3, <2>4, ConnectionGood, RespondGood,
              HandleGood, PumpGood DEF Custody
<1> QED  BY <1>1, <1>2, <1>3, <1>4, <1>5 DEF Next

LEMMA NextCustody == Wf /\ Custody /\ [Next]_vars => Custody'
<1> SUFFICES ASSUME Wf, Custody, [Next]_vars PROVE Custody'
  OBVIOUS
<1>1. CASE Next
  BY <1>1, StepGood DEF Custody, Good
<1>2. CASE UNCHANGED vars
  <2>1. UNCHANGED <<loc, memoryMsgChan, backend, inFlightMessages,
                    deferredMessages, io, pump, scan, ext>>
    BY <1>2 DEF vars
  <2> QED  BY <2>1, Hands, Still DEF Custody, Good, Wf, TypeOK
<1> QED  BY <1>1, <1>2

\* The ghost loc is truthful: the channel's inductive invariant.
THEOREM CustodyInvariant == Spec => [](Wf /\ Custody)
<1>1. Init => Wf /\ Custody
  BY InitWf, InitCustody
<1>2. (Wf /\ Custody) /\ [Next]_vars => (Wf /\ Custody)'
  BY NextWf, NextCustody
<1> QED  BY <1>1, <1>2, PTL DEF Spec

\* A message that the channel has is in one place only, and one that it has
\* not is in none.
LEMMA PlacesCounted ==
    ASSUME Held, LocType, NEW m \in Msg
    PROVE  Cardinality(Places(m)) = Count(loc[m][1] \notin Ended)
<1> DEFINE Fixed == {place \in {<<"inflight", Nil>>, <<"deferred", Nil>>,
                                <<"scan", Nil>>} :
               CASE place[1] = "inflight" -> inFlightMessages[m] # Nil
                 [] place[1] = "deferred" -> deferredMessages[m] # Nil
                 [] place[1] = "scan" -> InScan(m)}
           Mem == {k \in 1 .. Len(memoryMsgChan) : IDOf(memoryMsgChan[k]) = m}
           Back == {k \in 1 .. Len(backend) : backend[k] = m}
           Pumps == {d \in Client : InPump(d, m)}
           Ios == {d \in Client : InIo(d, m)}
<1>1. Places(m) = {<<"memory", i>> : i \in Mem} \cup {<<"backend", i>> : i \in Back}
                    \cup {<<"pump", c>> : c \in Pumps}
                    \cup {<<"io", c>> : c \in Ios} \cup Fixed
  BY DEF Places
<1>2. loc[m] \in Shapes
  BY DEF Held, LocShape
<1>3. /\ loc[m] # <<"memory", Nil>> => Mem = {}
      /\ loc[m] # <<"backend", Nil>> => Back = {}
  BY DEF Held, MemoryLoc, InMemory, BackendLoc, InBackend
<1>4. /\ loc[m][1] # "pump" => Pumps = {}
      /\ loc[m][1] # "io" => Ios = {}
  BY DEF Held, PumpLoc, IoLoc
<1>5. /\ <<"inflight", Nil>> \in Fixed <=> loc[m] = <<"inflight", Nil>>
      /\ <<"deferred", Nil>> \in Fixed <=> loc[m] = <<"deferred", Nil>>
      /\ <<"scan", Nil>> \in Fixed <=> loc[m] = <<"scan", Nil>>
  BY DEF Held, InFlightLoc, DeferredLoc, ScanLoc
<1>6. Fixed = IF loc[m] \in {<<"inflight", Nil>>, <<"deferred", Nil>>,
                             <<"scan", Nil>>} THEN {loc[m]} ELSE {}
  BY <1>5
<1> HIDE DEF Fixed, Mem, Back, Pumps, Ios
<1>7. CASE loc[m][1] \in Ended
  <2>1. Places(m) = {}
    BY <1>1, <1>3, <1>4, <1>6, <1>7 DEF Ended
  <2> QED  BY <1>7, <2>1, FS_EmptySet DEF Count
<1>8. CASE loc[m][1] \notin Ended
  <2>1. SUFFICES ASSUME TRUE PROVE \E x : Places(m) = {x}
    BY <1>8, FS_Singleton DEF Count
  <2>2. CASE loc[m] = <<"memory", Nil>>
    <3>1. PICK i \in 1 .. Len(memoryMsgChan) : IDOf(memoryMsgChan[i]) = m
      BY <2>2 DEF Held, MemoryLoc, InMemory
    <3>2. Mem = {i}
      BY <3>1 DEF Mem, Held, MemoryOnce
    <3>3. Back = {} /\ Pumps = {} /\ Ios = {} /\ Fixed = {}
      BY <1>3, <1>4, <1>6, <2>2
    <3>4. Places(m) = {<<"memory", i>>}
      BY <1>1, <3>2, <3>3
    <3> QED  BY <3>4
  <2>3. CASE loc[m] = <<"backend", Nil>>
    <3>1. PICK i \in 1 .. Len(backend) : backend[i] = m
      BY <2>3 DEF Held, BackendLoc, InBackend
    <3>2. Back = {i}
      BY <3>1 DEF Back, Held, BackendOnce
    <3>3. Mem = {} /\ Pumps = {} /\ Ios = {} /\ Fixed = {}
      BY <1>3, <1>4, <1>6, <2>3
    <3>4. Places(m) = {<<"backend", i>>}
      BY <1>1, <3>2, <3>3
    <3> QED  BY <3>4
  <2>4. CASE loc[m][1] = "pump"
    <3>1. PICK c \in Client : loc[m] = <<"pump", c>>
      BY <1>2, <2>4 DEF Shapes
    <3>2. Pumps = {c}
      BY <3>1 DEF Pumps, Held, PumpLoc
    <3>3. Mem = {} /\ Back = {} /\ Ios = {} /\ Fixed = {}
      BY <1>3, <1>4, <1>6, <3>1
    <3>4. Places(m) = {<<"pump", c>>}
      BY <1>1, <3>2, <3>3
    <3> QED  BY <3>4
  <2>5. CASE loc[m][1] = "io"
    <3>1. PICK c \in Client : loc[m] = <<"io", c>>
      BY <1>2, <2>5 DEF Shapes
    <3>2. Ios = {c}
      BY <3>1 DEF Ios, Held, IoLoc
    <3>3. Mem = {} /\ Back = {} /\ Pumps = {} /\ Fixed = {}
      BY <1>3, <1>4, <1>6, <3>1
    <3>4. Places(m) = {<<"io", c>>}
      BY <1>1, <3>2, <3>3
    <3> QED  BY <3>4
  <2>6. CASE loc[m] \in {<<"inflight", Nil>>, <<"deferred", Nil>>,
                         <<"scan", Nil>>}
    BY <1>1, <1>3, <1>4, <1>6, <2>6
  <2>7. CASE loc[m][1] \in Place \ {"pump", "io"}
    <3>1. loc[m] = <<loc[m][1], Nil>>
      BY <1>2, <2>7 DEF Shapes
    <3> QED  BY <1>8, <2>2, <2>3, <2>6, <2>7, <3>1 DEF Place
  <2> QED  BY <1>2, <2>4, <2>5, <2>7 DEF Shapes
<1> QED  BY <1>7, <1>8

\* Whatever the interleaving of consumers, time-outs, publisher and Empty(),
\* a channel that is not exiting has each message in exactly one place.
THEOREM EachInOnePlace == Spec => []OnePlace
<1>1. Wf /\ Custody => OnePlace
  BY PlacesCounted DEF Wf, TypeOK, Custody, OnePlace
<1> QED  BY <1>1, CustodyInvariant, PTL

\* A message that a consumer finished, or that was dropped or lost, never
\* comes back.
THEOREM FinishedForGood == Spec => EndedStays
<1> DEFINE Step == ext' = "idle" =>
              \A m \in Msg : loc[m][1] \in Ended \ {"new"} => loc'[m] = loc[m]
<1>1. Wf /\ Custody /\ [Next]_vars => [Step]_vars
  <2> SUFFICES ASSUME Wf, Custody, Next PROVE Step
    OBVIOUS
  <2> QED  BY StepGood DEF Good, EndedKept
<1> QED  BY <1>1, CustodyInvariant, PTL DEF Spec, EndedStays

-----------------------------------------------------------------------------
(* Close() without consumers.  The publisher and the scanner are idle and    *)
(* stay so; each stage of flush() leaves in the backend what it found, or    *)
(* says that it is lost; an Empty() that interferes drops what it removes.   *)

Serving == {"subscribed", "closing"}

\* A client that is not subscribed has no command under way, and its pump nothing in hand.
ClientInv ==
    \A c \in Client :
        /\ state[c] \notin Serving => io[c] = Idle
        /\ state[c] = "init" => pump[c].pc \in {"wait", "exited"}

QuietInv ==
    quiet => /\ ext # "idle"
             /\ \A c \in Client : /\ state[c] \notin Serving
                                  /\ pump[c].pc \in {"wait", "exited"}
                                  /\ state[c] = "gone" => pump[c].pc = "exited"

\* The stages up to the one that flushes a queue or map.
BeforeMemory == {"close", "flushMemory"}
BeforeInFlight == BeforeMemory \cup {"flushInFlight"}
BeforeDeferred == BeforeInFlight \cup {"flushDeferred"}
CloseStages == BeforeDeferred \cup {"closeBackend", "closed"}

Kept(m) ==
    \/ loc[m][1] \in Ended
    \/ InBackend(m)
    \/ ext \in BeforeMemory /\ InMemory(m)
    \/ ext \in BeforeInFlight /\ inFlightMessages[m] # Nil
    \/ ext \in BeforeDeferred /\ deferredMessages[m] # Nil

Closing == quiet /\ ext \in CloseStages
CloseInv == Closing => pub = Idle /\ scan = Idle /\ \A m \in Msg : Kept(m)

LEMMA NextClient == Wf /\ ClientInv /\ [Next]_vars => ClientInv'
<1> SUFFICES ASSUME Wf, ClientInv, [Next]_vars PROVE ClientInv'
  OBVIOUS
<1>1. /\ state \in [Client -> {"init", "subscribed", "closing", "gone"}]
      /\ io \in [Client -> [pc : IoPC, ptr : Ptr \cup {Nil}]]
      /\ pump \in [Client -> [pc : PumpPC, ptr : Ptr \cup {Nil}]]
  BY DEF Wf, TypeOK, ConsumerType, HandType
<1>2. CASE UNCHANGED <<state, io, pump>>
  BY <1>2 DEF ClientInv
<1>3. ASSUME NEW c \in Client, Connection(c)  PROVE ClientInv'
  <2>1. /\ UNCHANGED <<io, pump>> /\ \A d \in Client : d # c => state'[d] = state[d]
    BY <1>1, <1>3 DEF Connection, SUB, RDY, CLS, ConnBreak, Disconnect
  <2>2. /\ state'[c] \notin Serving => io[c] = Idle
        /\ state'[c] = "init" => state[c] = "init"
    BY <1>1, <1>3 DEF Connection, SUB, RDY, CLS, ConnBreak, Disconnect, Serving, ClientInv
  <2> QED  BY <2>1, <2>2 DEF ClientInv
<1>4. ASSUME NEW c \in Client, Respond(c) \/ Handle(c)  PROVE ClientInv'
  <2>1. UNCHANGED <<state, pump>> /\ \A d \in Client : d # c => io'[d] = io[d]
    BY <1>1, <1>4 DEF Respond, FIN, REQ, TOUCH, Answer, Handle, AnswerPQ, AnswerCount,
         RequeueNow, RequeueDeferred, RequeueDeferredPQ, TouchPush, TouchAddPQ
  <2>2. state[c] \in Serving
    <3>1. Respond(c) => state[c] \in Serving
      BY DEF Respond, FIN, REQ, TOUCH, Answer, Serving
    <3>2. Handle(c) => io[c] # Idle
      BY DEF Handle, AnswerPQ, AnswerCount, RequeueNow, RequeueDeferred, RequeueDeferredPQ,
             TouchPush, TouchAddPQ, Idle, Hand, NextPC
    <3> QED  BY <1>4, <3>1, <3>2 DEF ClientInv
  <2> QED  BY <2>1, <2>2 DEF ClientInv
<1>5. ASSUME NEW c \in Client, Pump(c)  PROVE ClientInv'
  <2>1. UNCHANGED <<state, io>> /\ \A d \in Client : d # c => pump'[d] = pump[d]
    BY <1>1, <1>5 DEF Pump, PumpLoop, PumpExit, PumpMemory, PumpBackend, Arrive, PumpPush,
                      PumpAddPQ, PumpSend
  <2>2. state[c] = "init" => pump'[c].pc \in {"wait", "exited"}
    <3> HAVE state[c] = "init"
    <3>1. pump[c].pc \in {"wait", "exited"}  BY DEF ClientInv
    <3>2. PumpExit(c)
      BY <1>5, <3>1 DEF Pump, PumpLoop, PumpMemory, PumpBackend, PumpPush, PumpAddPQ, PumpSend
    <3> QED  BY <1>1, <3>2 DEF PumpExit, Hand
  <2> QED  BY <2>1, <2>2 DEF ClientInv
<1>6. CASE UNCHANGED vars
  BY <1>2, <1>6 DEF vars
<1>7. CASE Publish
  BY <1>2, <1>7 DEF Publish, PutMessage, PutMessageDeferred, PutMessageDeferredPQ
<1>8. CASE Scan
  BY <1>2, <1>8 DEF Scan, ScanRest, ScanShift, ScanDeferredShift, ScanPop, ScanTimedOut,
                    ScanPut, ScanDeferredPop
<1>9. CASE Empty
  BY <1>2, <1>9 DEF Empty, EmptyInFlight, EmptyDeferred, EmptyClients, EmptyDrain, EmptyBackend
<1>10. CASE Exit
  BY <1>2, <1>10 DEF Exit, ExitBegin, ExitClients, FlushMemory, FlushInFlight, FlushDeferred,
                     FlushMap, CloseBackend
<1> QED  BY <1>3, <1>4, <1>5, <1>6, <1>7, <1>8, <1>9, <1>10 DEF Next

\* What consumers can still do when none was there as the channel began to exit.
LEMMA QuietConsumers ==
    ASSUME Wf, ClientInv, QuietInv, quiet, NEW c \in Client,
           Connection(c) \/ Respond(c) \/ Handle(c) \/ Pump(c)
    PROVE  /\ ~quiet' \/ UNCHANGED <<state, quiet>>
           /\ UNCHANGED <<storeVars, ext, pub, scan, loc>>
           /\ UNCHANGED pump \/ pump' = [pump EXCEPT ![c] = Hand("exited", Nil)]
<1>1. /\ state[c] \notin Serving /\ pump[c].pc \in {"wait", "exited"} /\ io[c] = Idle
      /\ state[c] = "gone" => pump[c].pc = "exited"
      /\ state[c] \in {"init", "subscribed", "closing", "gone"}
  BY DEF QuietInv, ClientInv, Wf, TypeOK, ConsumerType
<1>2. ~Respond(c) /\ ~Handle(c)
  <2>1. ~Respond(c)
    BY <1>1 DEF Respond, FIN, REQ, TOUCH, Answer, Serving
  <2>2. io[c].pc = "idle" /\ io[c].pc \notin DOMAIN NextPC  BY <1>1 DEF Idle, Hand, NextPC
  <2>3. ~Handle(c)
    BY <2>2 DEF Handle, AnswerPQ, AnswerCount, RequeueNow, RequeueDeferred, RequeueDeferredPQ,
                TouchPush, TouchAddPQ
  <2> QED  BY <2>1, <2>3
<1>3. CASE Pump(c)
  <2>1. PumpExit(c)
    BY <1>1, <1>3 DEF Pump, PumpLoop, PumpMemory, PumpBackend, PumpPush, PumpAddPQ, PumpSend,
                      Serving
  <2> QED  BY <2>1 DEF PumpExit
<1>4. CASE Connection(c)
  <2>1. SUB(c) \/ ConnBreak(c)
    BY <1>1, <1>4 DEF Connection, RDY, CLS, Disconnect, Serving
  <2> QED  BY <2>1 DEF SUB, ConnBreak
<1> QED  BY <1>2, <1>3, <1>4

LEMMA NextQuiet == Wf /\ ClientInv /\ QuietInv /\ [Next]_vars => QuietInv'
<1> SUFFICES ASSUME Wf, ClientInv, QuietInv, [Next]_vars PROVE QuietInv'
  OBVIOUS
<1>1. pump \in [Client -> [pc : PumpPC, ptr : Ptr \cup {Nil}]]
      /\ state \in [Client -> {"init", "subscribed", "closing", "gone"}]
  BY DEF Wf, TypeOK, HandType, ConsumerType
<1>2. CASE UNCHANGED <<state, pump, quiet>> /\ (ext' = "idle" => ext = "idle")
  BY <1>2 DEF QuietInv
<1>3. ASSUME NEW c \in Client, Connection(c) \/ Respond(c) \/ Handle(c) \/ Pump(c)
      PROVE  QuietInv'
  <2>1. ASSUME ~quiet  PROVE ~quiet'
    BY <1>3, <2>1 DEF Connection, SUB, RDY, CLS, ConnBreak, Disconnect, Respond, FIN, REQ, TOUCH,
         Answer, Handle, AnswerPQ, AnswerCount, RequeueNow, RequeueDeferred, RequeueDeferredPQ,
         TouchPush, TouchAddPQ, Pump, PumpLoop, PumpExit, PumpMemory, PumpBackend, Arrive,
         PumpPush, PumpAddPQ, PumpSend
  <2>2. CASE quiet
    <3>1. /\ ~quiet' \/ UNCHANGED <<state, quiet>>
          /\ UNCHANGED ext
          /\ UNCHANGED pump \/ pump' = [pump EXCEPT ![c] = Hand("exited", Nil)]
      BY <1>3, <2>2, QuietConsumers
    <3>2. \A d \in Client : pump'[d].pc = pump[d].pc \/ pump'[d].pc = "exited"
      BY <1>1, <3>1 DEF Hand
    <3> QED  BY <2>2, <3>1, <3>2 DEF QuietInv
  <2> QED  BY <2>1, <2>2 DEF QuietInv
<1>4. ASSUME NEW kind \in ExitKinds, ExitBegin(kind)  PROVE QuietInv'
  <2>1. ext' # "idle" /\ UNCHANGED <<state, pump>>  BY <1>4, ChannelAssumption DEF ExitBegin
  <2>2. quiet' => \A c \in Client : state[c] = "init" \/ (state[c] = "gone" /\ pump[c].pc = "exited")
    BY <1>4 DEF ExitBegin
  <2> QED  BY <2>1, <2>2 DEF QuietInv, ClientInv, Serving
<1>5. CASE UNCHANGED vars
  BY <1>2, <1>5 DEF vars
<1>6. CASE Publish
  BY <1>2, <1>6 DEF Publish, PutMessage, PutMessageDeferred, PutMessageDeferredPQ
<1>7. CASE Scan
  BY <1>2, <1>7 DEF Scan, ScanRest, ScanShift, ScanDeferredShift, ScanPop, ScanTimedOut,
                    ScanPut, ScanDeferredPop
<1>8. CASE Empty
  BY <1>2, <1>8 DEF Empty, EmptyInFlight, EmptyDeferred, EmptyClients, EmptyDrain, EmptyBackend
<1>9. CASE Exit
  BY <1>2, <1>4, <1>9 DEF Exit, ExitClients, FlushMemory, FlushInFlight, FlushDeferred,
                          FlushMap, CloseBackend
<1> QED  BY <1>3, <1>5, <1>6, <1>7, <1>8, <1>9 DEF Next

\* What is left of the memory queue when its head is taken.
LEMMA MemoryRest ==
    ASSUME StoreType, memoryMsgChan # << >>, memoryMsgChan' = Tail(memoryMsgChan)
    PROVE  \A k \in Msg : InMemory(k) => k = IDOf(Head(memoryMsgChan)) \/ InMemory(k)'
<1>1. /\ Len(memoryMsgChan) \in Nat \ {0}
      /\ Len(memoryMsgChan') = Len(memoryMsgChan) - 1
      /\ \A i \in 1 .. Len(memoryMsgChan) - 1 :
            memoryMsgChan'[i] = memoryMsgChan[i + 1]
      /\ Head(memoryMsgChan) = memoryMsgChan[1]
  BY DEF StoreType
<1>2. ASSUME NEW k \in Msg, InMemory(k), k # IDOf(Head(memoryMsgChan))
      PROVE  InMemory(k)'
  <2>1. PICK i \in 1 .. Len(memoryMsgChan) : IDOf(memoryMsgChan[i]) = k
    BY <1>2 DEF InMemory
  <2>2. i # 1 /\ i - 1 \in 1 .. Len(memoryMsgChan')
          /\ memoryMsgChan'[i - 1] = memoryMsgChan[i - 1 + 1]
    BY <1>1, <1>2, <2>1
  <2> QED  BY <2>1, <2>2 DEF InMemory
<1> QED  BY <1>2

LEMMA KeptSame ==
    ASSUME CloseInv, Closing, UNCHANGED <<storeVars, ext, pub, scan, loc>>
    PROVE  CloseInv'
<1>1. \A m \in Msg : Kept(m) => Kept(m)'  BY DEF Kept, InBackend, InMemory
<1> QED  BY <1>1 DEF CloseInv

\* A map, or the backend, that is emptied.
LEMMA DroppedEnd ==
    ASSUME Wf, NEW S, NEW place \in Ended, AllAt(S, place)
    PROVE  \A m \in Msg : /\ m \in S => loc'[m][1] \in Ended
                          /\ loc[m][1] \in Ended => loc'[m][1] \in Ended
BY DEF AllAt

LEMMA EmptyClose == ASSUME Wf, CloseInv, Closing, Empty, ext' = ext PROVE CloseInv'
<1>1. /\ pub = Idle /\ scan = Idle /\ \A m \in Msg : Kept(m)
      /\ UNCHANGED <<pub, scan>>
  BY DEF CloseInv, Empty, EmptyInFlight, EmptyDeferred, EmptyClients, EmptyDrain, EmptyBackend
<1>2. SUFFICES ASSUME NEW m \in Msg, Kept(m)  PROVE Kept(m)'
  BY <1>1 DEF CloseInv
<1>3. "dropped" \in Ended  BY DEF Ended
<1>4. CASE EmptyInFlight
  <2>1. UNCHANGED <<memoryMsgChan, backend, deferredMessages>>  BY <1>4 DEF EmptyInFlight
  <2>2. /\ inFlightMessages[m] # Nil => loc'[m][1] \in Ended
        /\ loc[m][1] \in Ended => loc'[m][1] \in Ended
    BY <1>3, <1>4, DroppedEnd DEF EmptyInFlight, DropAll, InMap
  <2> QED  BY <1>2, <2>1, <2>2 DEF Kept, InBackend, InMemory
<1>5. CASE EmptyDeferred
  <2>1. UNCHANGED <<memoryMsgChan, backend, inFlightMessages>>  BY <1>5 DEF EmptyDeferred
  <2>2. /\ deferredMessages[m] # Nil => loc'[m][1] \in Ended
        /\ loc[m][1] \in Ended => loc'[m][1] \in Ended
    BY <1>3, <1>5, DroppedEnd DEF EmptyDeferred, DropAll, InMap
  <2> QED  BY <1>2, <2>1, <2>2 DEF Kept, InBackend, InMemory
<1>6. CASE EmptyClients
  BY <1>2, <1>6 DEF EmptyClients, Kept, InBackend, InMemory
<1>7. CASE EmptyDrain
  <2>1. UNCHANGED <<backend, inFlightMessages, deferredMessages>>  BY <1>7 DEF EmptyDrain
  <2>2. CASE memoryMsgChan = << >>
    BY <1>2, <1>7, <2>1, <2>2 DEF EmptyDrain, Kept, InBackend, InMemory
  <2>3. CASE memoryMsgChan # << >>
    <3> DEFINE k == IDOf(Head(memoryMsgChan))
    <3>1. memoryMsgChan' = Tail(memoryMsgChan) /\ At(k, "dropped", Nil)
      BY <1>7, <2>3 DEF EmptyDrain
    <3>2. k \in Msg  BY <2>3, MemoryHead DEF Wf, TypeOK
    <3>3. loc'[m] = IF m = k THEN <<"dropped", Nil>> ELSE loc[m]
      BY <3>1, <3>2 DEF At, Wf, TypeOK, LocType
    <3>4. InMemory(m) => m = k \/ InMemory(m)'
      BY <2>3, <3>1, MemoryRest DEF Wf, TypeOK
    <3> QED  BY <1>2, <1>3, <2>1, <3>3, <3>4 DEF Kept, InBackend
  <2> QED  BY <2>2, <2>3
<1>8. CASE EmptyBackend
  <2>1. UNCHANGED <<memoryMsgChan, inFlightMessages, deferredMessages>>  BY <1>8 DEF EmptyBackend
  <2>2. /\ InBackend(m) => loc'[m][1] \in Ended
        /\ loc[m][1] \in Ended => loc'[m][1] \in Ended
    BY <1>3, <1>8, DroppedEnd DEF EmptyBackend, DropAll, InBackend
  <2> QED  BY <1>2, <2>1, <2>2 DEF Kept, InMemory
<1> QED  BY <1>4, <1>5, <1>6, <1>7, <1>8 DEF Empty

\* flush() of a map: what was written is in the backend, and the rest is lost.
LEMMA FlushKeeps ==
    ASSUME Wf, NEW map, Flush(map)
    PROVE  \A m \in Msg : /\ map[m] # Nil => InBackend(m)' \/ loc'[m][1] \in Ended
                          /\ InBackend(m) => InBackend(m)'
                          /\ loc[m][1] \in Ended => loc'[m][1] \in Ended
<1>1. PICK S \in SUBSET InMap(map) :
        /\ \E q \in [1 .. Cardinality(S) -> S] :
              /\ \A i, j \in DOMAIN q : q[i] = q[j] => i = j
              /\ backend' = backend \o q
        /\ AllAt(InMap(map) \ S, "lost")
  BY DEF Flush
<1>2. PICK q \in [1 .. Cardinality(S) -> S] :
        (\A i, j \in DOMAIN q : q[i] = q[j] => i = j) /\ backend' = backend \o q
  BY <1>1
<1>3. IsFiniteSet(S) /\ S \subseteq Msg
  BY FS_Subset, ChannelAssumption DEF InMap
<1> DEFINE N == Cardinality(S)
<1>4. N \in Nat /\ IsFiniteSet(1 .. N) /\ Cardinality(1 .. N) = N
  BY <1>3, FS_CardinalityType, FS_Interval
<1>5. q \in Injection(1 .. N, S)
  BY <1>2 DEF Injection, IsInjective
<1>6. q \in Surjection(1 .. N, S)
  BY <1>3, <1>4, <1>5, FS_Injection
<1>7. \A m \in S : \E i \in 1 .. N : q[i] = m  BY <1>6 DEF Surjection
<1> HIDE DEF N
<1>8. q \in Seq(Msg) /\ Len(q) = N
  BY <1>2, <1>3, <1>4 DEF N
<1>9. backend \in Seq(Msg)  BY DEF Wf, TypeOK, StoreType
<1>10. /\ Len(backend) \in Nat /\ Len(backend') = Len(backend) + N
       /\ \A i \in 1 .. Len(backend) : backend'[i] = backend[i]
       /\ \A i \in 1 .. N : backend'[Len(backend) + i] = q[i]
  <2> DEFINE b == backend
             c == b \o q
  <2>1. b \in Seq(Msg) /\ q \in Seq(Msg) /\ c = b \o q  BY <1>8, <1>9
  <2> HIDE DEF b
  <2>2. Len(b) \in Nat /\ Len(c) = Len(b) + Len(q)  BY <2>1
  <2>3. \A i \in 1 .. Len(b) : c[i] = b[i]  BY <2>1
  <2>4. \A i \in 1 .. Len(q) : c[Len(b) + i] = q[i]  BY <2>1
  <2>5. backend' = c  BY <1>2 DEF b
  <2> HIDE DEF c
  <2> QED  BY <1>8, <2>2, <2>3, <2>4, <2>5 DEF b
<1>11. \A m \in Msg : InBackend(m) => InBackend(m)'
  BY <1>4, <1>10 DEF InBackend
<1>12. ASSUME NEW m \in S  PROVE InBackend(m)'
  <2>1. PICK i \in 1 .. N : q[i] = m  BY <1>7
  <2>2. Len(backend) + i \in 1 .. Len(backend') /\ backend'[Len(backend) + i] = m
    BY <1>4, <1>10, <2>1
  <2> QED  BY <2>2 DEF InBackend
<1>13. \A m \in Msg : /\ m \in InMap(map) \ S => loc'[m][1] \in Ended
                      /\ loc[m][1] \in Ended => loc'[m][1] \in Ended
  BY <1>1, DroppedEnd DEF Ended
<1> QED  BY <1>11, <1>12, <1>13 DEF InMap

LEMMA ExitClose ==
    ASSUME Wf, Custody, ClientInv, QuietInv, CloseInv, Exit, Closing'
    PROVE  CloseInv'
<1> USE DEF BeforeMemory, BeforeInFlight, BeforeDeferred, CloseStages
<1>1. ASSUME NEW kind \in ExitKinds, ExitBegin(kind)  PROVE CloseInv'
  <2>1. /\ ext = "idle" /\ ext' = kind /\ kind = "close" /\ scan = Idle /\ pub = Idle
        /\ UNCHANGED <<storeVars, goroutines, loc>>
    BY <1>1, ChannelAssumption DEF ExitBegin, Closing
  <2>2. Held  BY <2>1 DEF Custody
  <2>3. \A c \in Client : state[c] = "init" \/ (state[c] = "gone" /\ pump[c].pc = "exited")
    BY <1>1 DEF ExitBegin, Closing
  <2>4. \A c \in Client : pump[c].pc \in {"wait", "exited"} /\ io[c].pc = "idle"
    BY <2>3 DEF ClientInv, Serving, Idle, Hand
  <2>5. ASSUME NEW m \in Msg  PROVE Kept(m)'
    <3>1. \A c \in Client : loc[m] # <<"pump", c>> /\ loc[m] # <<"io", c>>
      BY <2>2, <2>4 DEF Held, PumpLoc, IoLoc, InPump, InIo, Holding
    <3>2. loc[m] # <<"scan", Nil>>
      BY <2>1, <2>2 DEF Held, ScanLoc, InScan, Idle, Hand
    <3>3. \/ loc[m][1] \in Ended
          \/ loc[m] \in {<<"memory", Nil>>, <<"backend", Nil>>, <<"inflight", Nil>>, <<"deferred", Nil>>}
      <4>1. loc[m] \in Shapes  BY <2>2 DEF Held, LocShape
      <4> QED  BY <3>1, <3>2, <4>1 DEF Shapes, Place
    <3>4. /\ loc[m] = <<"memory", Nil>> => InMemory(m)
          /\ loc[m] = <<"backend", Nil>> => InBackend(m)
          /\ loc[m] = <<"inflight", Nil>> => inFlightMessages[m] # Nil
          /\ loc[m] = <<"deferred", Nil>> => deferredMessages[m] # Nil
      BY <2>2 DEF Held, MemoryLoc, BackendLoc, InFlightLoc, DeferredLoc
    <3>5. /\ InMemory(m)' <=> InMemory(m)
          /\ InBackend(m)' <=> InBackend(m)
          /\ UNCHANGED <<inFlightMessages, deferredMessages, loc>>
      BY <2>1 DEF InMemory, InBackend
    <3> QED  BY <2>1, <3>3, <3>4, <3>5 DEF Kept
  <2> QED  BY <2>1, <2>5 DEF CloseInv
<1>2. CASE ~\E kind \in ExitKinds : ExitBegin(kind)
  <2>1. ExitClients \/ FlushMemory \/ FlushInFlight \/ FlushDeferred \/ CloseBackend
    BY <1>2 DEF Exit
  <2>2. /\ quiet /\ UNCHANGED <<pub, scan>>
        /\ ext \in CloseStages
    BY <2>1 DEF ExitClients, FlushMemory, FlushInFlight, FlushDeferred, FlushMap, CloseBackend,
                Closing
  <2>3. pub = Idle /\ scan = Idle /\ \A m \in Msg : Kept(m)  BY <2>2 DEF CloseInv, Closing
  <2>4. SUFFICES ASSUME NEW m \in Msg, Kept(m)  PROVE Kept(m)'
    BY <2>2, <2>3 DEF CloseInv
  <2>5. CASE ExitClients
    BY <2>4, <2>5 DEF ExitClients, Closing, Kept, InBackend, InMemory
  <2>6. CASE FlushMemory
    <3>1. UNCHANGED <<inFlightMessages, deferredMessages>> /\ ext = "flushMemory"
      BY <2>6 DEF FlushMemory
    <3>2. CASE memoryMsgChan = << >>
      <4>1. ext' = "flushInFlight" /\ UNCHANGED <<queueVars, loc>> /\ ~InMemory(m)
        BY <2>6, <3>2 DEF FlushMemory, InMemory
      <4> QED  BY <2>4, <3>1, <4>1 DEF Kept, InBackend
    <3>3. CASE memoryMsgChan # << >>
      <4> DEFINE k == IDOf(Head(memoryMsgChan))
      <4>1. /\ memoryMsgChan' = Tail(memoryMsgChan) /\ UNCHANGED ext
            /\ \/ backend' = Append(backend, k) /\ UNCHANGED loc
               \/ At(k, "lost", Nil) /\ UNCHANGED backend
        BY <2>6, <3>3 DEF FlushMemory
      <4>2. k \in Msg  BY <3>3, MemoryHead DEF Wf, TypeOK
      <4>3. InMemory(m) => m = k \/ InMemory(m)'
        BY <3>3, <4>1, MemoryRest DEF Wf, TypeOK
      <4>4. CASE backend' = Append(backend, k) /\ UNCHANGED loc
        <5>1. backend \in Seq(Msg)  BY DEF Wf, TypeOK, StoreType
        <5>2. /\ Len(backend) \in Nat /\ Len(backend') = Len(backend) + 1
              /\ \A i \in 1 .. Len(backend) : backend'[i] = backend[i]
              /\ backend'[Len(backend) + 1] = k
          BY <4>2, <4>4, <5>1
        <5>3. (InBackend(m) => InBackend(m)') /\ (m = k => InBackend(m)')
          BY <5>2 DEF InBackend
        <5> QED  BY <2>4, <3>1, <4>1, <4>3, <4>4, <5>3 DEF Kept
      <4>5. CASE At(k, "lost", Nil) /\ UNCHANGED backend
        <5>1. loc'[m] = IF m = k THEN <<"lost", Nil>> ELSE loc[m]
          BY <4>2, <4>5 DEF At, Wf, TypeOK, LocType
        <5>2. "lost" \in Ended  BY DEF Ended
        <5> QED  BY <2>4, <3>1, <4>1, <4>3, <4>5, <5>1, <5>2 DEF Kept, InBackend
      <4> QED  BY <4>1, <4>4, <4>5
    <3> QED  BY <3>2, <3>3
  <2>7. CASE FlushInFlight
    <3>1. /\ ext = "flushInFlight" /\ ext' = "flushDeferred" /\ Flush(inFlightMessages)
          /\ UNCHANGED <<inFlightMessages, deferredMessages>>
      BY <2>7 DEF FlushInFlight, FlushMap
    <3>2. /\ inFlightMessages[m] # Nil => InBackend(m)' \/ loc'[m][1] \in Ended
          /\ InBackend(m) => InBackend(m)'
          /\ loc[m][1] \in Ended => loc'[m][1] \in Ended
      BY <3>1, FlushKeeps
    <3> QED  BY <2>4, <3>1, <3>2 DEF Kept
  <2>8. CASE FlushDeferred
    <3>1. /\ ext = "flushDeferred" /\ ext' = "closeBackend" /\ Flush(deferredMessages)
          /\ UNCHANGED <<inFlightMessages, deferredMessages>>
      BY <2>8 DEF FlushDeferred, FlushMap
    <3>2. /\ deferredMessages[m] # Nil => InBackend(m)' \/ loc'[m][1] \in Ended
          /\ InBackend(m) => InBackend(m)'
          /\ loc[m][1] \in Ended => loc'[m][1] \in Ended
      BY <3>1, FlushKeeps
    <3> QED  BY <2>4, <3>1, <3>2 DEF Kept
  <2>9. CASE CloseBackend
    BY <2>4, <2>9 DEF CloseBackend, Kept, InBackend, InMemory
  <2> QED  BY <2>1, <2>5, <2>6, <2>7, <2>8, <2>9
<1> QED  BY <1>1, <1>2

LEMMA NextClose ==
    Wf /\ Custody /\ ClientInv /\ QuietInv /\ CloseInv /\ [Next]_vars => CloseInv'
<1> SUFFICES ASSUME Wf, Custody, ClientInv, QuietInv, CloseInv, [Next]_vars, Closing'
             PROVE  CloseInv'
  BY DEF CloseInv
<1>1. CASE Exit
  BY <1>1, ExitClose
<1>2. CASE UNCHANGED vars
  <2>1. Closing  BY <1>2 DEF Closing, vars
  <2> QED  BY <1>2, <2>1, KeptSame DEF vars
<1>3. ASSUME ~(Exit \/ UNCHANGED vars)  PROVE Closing /\ ext' = ext
  <2> USE DEF Closing, CloseStages, BeforeMemory, BeforeInFlight, BeforeDeferred
  <2>1. CASE Publish
    BY <2>1 DEF Publish, PutMessage, PutMessageDeferred, PutMessageDeferredPQ
  <2>2. CASE Scan
    BY <2>2 DEF Scan, ScanRest, ScanShift, ScanDeferredShift, ScanPop, ScanTimedOut,
                ScanPut, ScanDeferredPop
  <2>3. CASE Empty
    BY <2>3 DEF Empty, EmptyInFlight, EmptyDeferred, EmptyClients, EmptyDrain, EmptyBackend
  <2>4. ASSUME NEW c \in Client, Connection(c) \/ Respond(c) \/ Handle(c) \/ Pump(c)
        PROVE  Closing /\ ext' = ext
    BY <2>4 DEF Connection, SUB, RDY, CLS, ConnBreak, Disconnect, Respond, FIN, REQ, TOUCH,
         Answer, Handle, AnswerPQ, AnswerCount, RequeueNow, RequeueDeferred, RequeueDeferredPQ,
         TouchPush, TouchAddPQ, Pump, PumpLoop, PumpExit, PumpMemory, PumpBackend, Arrive,
         PumpPush, PumpAddPQ, PumpSend
  <2> QED  BY <1>3, <2>1, <2>2, <2>3, <2>4 DEF Next
<1>4. ASSUME Closing  PROVE ~Publish /\ ~Scan
  <2>1. /\ pub = Idle /\ scan = Idle /\ ext \in CloseStages  BY <1>4 DEF CloseInv, Closing
  <2>2. pub.pc = "idle" /\ scan.pc = "idle" /\ ext # "idle" /\ ext \notin Deleting
    BY <2>1 DEF Idle, Hand, Deleting, CloseStages, BeforeMemory, BeforeInFlight, BeforeDeferred
  <2>3. ~Publish
    BY <2>2 DEF Publish, PutMessage, PutMessageDeferred, PutMessageDeferredPQ, Exiting
  <2>4. ~Scan
    BY <2>2 DEF Scan, ScanRest, ScanShift, ScanDeferredShift, ScanPop, ScanTimedOut,
                ScanPut, ScanDeferredPop, Exiting
  <2> QED  BY <2>3, <2>4
<1>5. CASE Empty
  <2>1. CASE Exit \/ UNCHANGED vars  BY <1>1, <1>2, <2>1
  <2>2. CASE ~(Exit \/ UNCHANGED vars)  BY <1>3, <1>5, <2>2, EmptyClose
  <2> QED  BY <2>1, <2>2
<1>6. ASSUME NEW c \in Client, Connection(c) \/ Respond(c) \/ Handle(c) \/ Pump(c)
      PROVE  CloseInv'
  <2>1. CASE Exit \/ UNCHANGED vars  BY <1>1, <1>2, <2>1
  <2>2. CASE ~(Exit \/ UNCHANGED vars)
    <3>1. Closing  BY <1>3, <2>2
    <3>2. UNCHANGED <<storeVars, ext, pub, scan, loc>>
      BY <1>6, <3>1, QuietConsumers DEF Closing
    <3> QED  BY <3>1, <3>2, KeptSame
  <2> QED  BY <2>1, <2>2
<1> QED  BY <1>1, <1>2, <1>3, <1>4, <1>5, <1>6 DEF Next

\* Close() with no consumer connected: when the backend is closed, flush() has written
\* every message that was waiting, deferred or in flight to a client that has gone, or has
\* logged that the write failed, whatever an Empty() that runs meanwhile removes.
THEOREM CloseWritesAll == Spec => []ClosePersists
<1> DEFINE All == Wf /\ Custody /\ ClientInv /\ QuietInv /\ CloseInv
<1>1. Init => All
  <2>1. Init => Wf /\ Custody  BY InitWf, InitCustody
  <2>2. Init => ClientInv /\ QuietInv /\ CloseInv
    BY DEF Init, ClientInv, QuietInv, CloseInv, Closing, Hand
  <2> QED  BY <2>1, <2>2
<1>2. All /\ [Next]_vars => All'
  BY NextWf, NextCustody, NextClient, NextQuiet, NextClose
<1>3. All => ClosePersists
  BY DEF CloseInv, Closing, CloseStages, Kept, InBackend, BeforeMemory, BeforeInFlight,
         BeforeDeferred, ClosePersists
<1> QED  BY <1>1, <1>2, <1>3, PTL DEF Spec

-----------------------------------------------------------------------------
(* A channel that stays in memory, and is neither emptied nor closed: there  *)
(* is one Message object for each ID, the one that was published.            *)

Resident == backend = << >> /\ emp = "idle" /\ ext = "idle"

New == <<"new", Nil>>
Objs == {p \in Ptr : p[2] = 1 /\ loc[IDOf(p)] # New}

QueueRef == /\ memoryMsgChan \in Seq(Objs)
            /\ \A p \in Ptr : inFlightPQ[p] > 0 \/ deferredPQ[p] > 0 => p \in Objs
MapRef == \A m \in Msg : /\ inFlightMessages[m] \in Objs \cup {Nil}
                         /\ deferredMessages[m] \in Objs \cup {Nil}
HandRef == /\ \A c \in Client : /\ io[c].ptr \in Objs \cup {Nil}
                                /\ pump[c].ptr \in Objs \cup {Nil}
           /\ scan.ptr \in Objs \cup {Nil} /\ pub.ptr \in Objs \cup {Nil}
RefInv == QueueRef /\ MapRef /\ HandRef

LEMMA SameObject ==
    ASSUME NEW p \in Objs, NEW q \in Objs, IDOf(p) = IDOf(q)
    PROVE  p = q
BY DEF Objs, Ptr, IDOf

\* What a step does when the channel is in memory before and after it.
Quietly == Wf /\ Resident /\ Resident' /\ ~panicked

LEMMA PutInMemory ==
    ASSUME Quietly, NEW p \in Ptr, PutOK(p)
    PROVE  memoryMsgChan' = Append(memoryMsgChan, p) /\ At(IDOf(p), "memory", Nil)
<1>1. backend = << >> /\ backend' = << >>  BY DEF Quietly, Resident
<1>2. IDOf(p) \in Msg  BY PtrFacts
<1>3. backend' # Append(backend, IDOf(p))  BY <1>1, <1>2
<1> QED  BY <1>3 DEF PutOK

LEMMA AtObjs ==
    ASSUME Wf, NEW m \in Msg, NEW place, NEW who, place # "new",
           At(m, place, who)
    PROVE  Objs \subseteq Objs' /\ \A p \in Ptr : p[2] = 1 /\ IDOf(p) = m => p \in Objs'
<1>1. loc' = [loc EXCEPT ![m] = <<place, who>>]  BY DEF At
<1>2. \A k \in Msg : k # m => loc'[k] = loc[k]  BY <1>1 DEF Wf, TypeOK, LocType
<1>3. loc'[m] # New  BY <1>1 DEF Wf, TypeOK, LocType, New
<1>4. \A k \in Msg : loc'[k] = New => loc[k] = New  BY <1>2, <1>3
<1> QED  BY <1>3, <1>4, PtrFacts DEF Objs

\* The first object of a message that is new to the channel.
LEMMA FreshOne ==
    ASSUME Wf, RefInv, NEW m \in Msg, loc[m] = New, NEW p \in Fresh(m)
    PROVE  p \in Ptr /\ IDOf(p) = m /\ p[2] = 1
<1>1. p \in Ptr /\ IDOf(p) = m /\ \A k \in 1 .. p[2] - 1 : Referenced(<<m, k>>)
  BY DEF Fresh
<1>2. p[2] \in 1 .. Copies /\ Copies \in Nat  BY <1>1, ChannelAssumption DEF Ptr
<1>3. SUFFICES ASSUME p[2] # 1  PROVE FALSE
  BY <1>1
<1>4. Referenced(<<m, 1>>)  BY <1>1, <1>2, <1>3
<1> DEFINE o == <<m, 1>>
<1>5. o \in Ptr /\ IDOf(o) = m /\ o # Nil
  BY <1>2, PtrFacts DEF Ptr, IDOf
<1>6. o \notin Objs  BY <1>5 DEF Objs
<1> HIDE DEF o
<1>7. ~\E i \in 1 .. Len(memoryMsgChan) : memoryMsgChan[i] = o
  BY <1>6 DEF RefInv, QueueRef
<1>8. ~(inFlightPQ[o] > 0) /\ ~(deferredPQ[o] > 0)  BY <1>5, <1>6 DEF RefInv, QueueRef
<1>9. inFlightMessages[m] # o /\ deferredMessages[m] # o
  BY <1>5, <1>6 DEF RefInv, MapRef
<1>10. /\ ~\E c \in Client : io[c].ptr = o \/ pump[c].ptr = o
       /\ scan.ptr # o /\ pub.ptr # o
  BY <1>5, <1>6 DEF RefInv, HandRef
<1>11. ~Referenced(o)
  BY <1>5, <1>7, <1>8, <1>9, <1>10 DEF Referenced
<1> QED  BY <1>4, <1>11 DEF o

LEMMA SeqObjs ==
    ASSUME Objs \subseteq Objs'
    PROVE  /\ \A q \in Seq(Objs) : q \in Seq(Objs')
           /\ \A q \in Seq(Objs), p \in Objs' : Append(q, p) \in Seq(Objs')
           /\ \A q \in Seq(Objs) : q # << >> => Tail(q) \in Seq(Objs')
<1> DEFINE A == Objs
           B == Objs'
<1> HIDE DEF A, B
<1>1. A \subseteq B  BY DEF A, B
<1>2. \A q \in Seq(A) : q \in Seq(B)  BY <1>1
<1>3. \A q \in Seq(A), p \in B : Append(q, p) \in Seq(B)  BY <1>2
<1>4. \A q \in Seq(A) : q # << >> => Tail(q) \in Seq(B)  BY <1>2
<1> QED  BY <1>2, <1>3, <1>4 DEF A, B

LEMMA RefSame ==
    ASSUME Wf, RefInv, UNCHANGED <<memoryMsgChan, inFlightPQ, deferredPQ, inFlightMessages,
                                   deferredMessages, io, pump, scan, pub, loc>>
    PROVE  RefInv'
<1>1. Objs' = Objs  BY DEF Objs
<1> QED  BY <1>1 DEF RefInv, QueueRef, MapRef, HandRef

\* put() of an object of the channel.
LEMMA PutRef ==
    ASSUME Quietly, RefInv, NEW p \in Ptr, PutOK(p), p[2] = 1,
           UNCHANGED <<inFlightPQ, deferredPQ, inFlightMessages, deferredMessages>>
    PROVE  Objs \subseteq Objs' /\ QueueRef' /\ MapRef'
<1>1. memoryMsgChan' = Append(memoryMsgChan, p) /\ At(IDOf(p), "memory", Nil)
  BY PutInMemory
<1>2. Objs \subseteq Objs' /\ p \in Objs'
  BY <1>1, AtObjs, PtrFacts DEF Quietly
<1>3. memoryMsgChan' \in Seq(Objs')
  BY <1>1, <1>2, SeqObjs DEF RefInv, QueueRef
<1> QED  BY <1>2, <1>3 DEF RefInv, QueueRef, MapRef

LEMMA ShrinkRef ==
    ASSUME RefInv, Objs \subseteq Objs', memoryMsgChan' = memoryMsgChan,
           \A p \in Ptr : (inFlightPQ'[p] > 0 => inFlightPQ[p] > 0 \/ p \in Objs)
                            /\ (deferredPQ'[p] > 0 => deferredPQ[p] > 0 \/ p \in Objs)
    PROVE  QueueRef'
<1>1. memoryMsgChan' \in Seq(Objs')  BY SeqObjs DEF RefInv, QueueRef
<1>2. \A p \in Ptr : inFlightPQ'[p] > 0 \/ deferredPQ'[p] > 0 => p \in Objs'
  BY DEF RefInv, QueueRef
<1> QED  BY <1>1, <1>2 DEF QueueRef

LEMMA PublishRef == ASSUME Quietly, RefInv, Publish PROVE RefInv'
<1>1. ASSUME NEW m \in Msg, PutMessage(m)  PROVE RefInv'
  <2>1. PICK p \in Fresh(m) : PutOK(p) \/ (PutFails(p) /\ At(m, "refused", Nil))
    BY <1>1 DEF PutMessage
  <2>2. p \in Ptr /\ IDOf(p) = m /\ p[2] = 1
    BY <1>1, FreshOne DEF PutMessage, New, Quietly
  <2>3. UNCHANGED <<inFlightPQ, deferredPQ, inFlightMessages, deferredMessages, io, pump, scan, pub>>
    BY <1>1 DEF PutMessage
  <2>4. CASE PutOK(p)
    <3>1. Objs \subseteq Objs' /\ QueueRef' /\ MapRef'  BY <2>2, <2>3, <2>4, PutRef
    <3> QED  BY <2>3, <3>1 DEF RefInv, HandRef
  <2>5. CASE PutFails(p) /\ At(m, "refused", Nil)
    <3>1. Objs \subseteq Objs'  BY <2>5, AtObjs DEF Quietly
    <3>2. memoryMsgChan' = memoryMsgChan  BY <2>5 DEF PutFails
    <3>3. QueueRef'  BY <2>3, <3>1, <3>2, ShrinkRef
    <3> QED  BY <2>3, <3>1, <3>3 DEF RefInv, MapRef, HandRef
  <2> QED  BY <2>1, <2>4, <2>5
<1>2. ASSUME NEW m \in Msg, PutMessageDeferred(m)  PROVE RefInv'
  <2>1. PICK p \in Fresh(m) : pushDeferredMessage(p) /\ pub' = Hand("addPQ", p)
    BY <1>2 DEF PutMessageDeferred
  <2>2. p \in Ptr /\ IDOf(p) = m /\ p[2] = 1
    BY <1>2, FreshOne DEF PutMessageDeferred, New, Quietly
  <2>3. UNCHANGED <<memoryMsgChan, inFlightPQ, deferredPQ, inFlightMessages, io, pump, scan>>
    BY <1>2 DEF PutMessageDeferred
  <2>4. deferredMessages' = [deferredMessages EXCEPT ![m] = p] /\ At(m, "deferred", Nil)
    BY <2>1, <2>2 DEF pushDeferredMessage
  <2>5. Objs \subseteq Objs' /\ p \in Objs'  BY <2>2, <2>4, AtObjs DEF Quietly
  <2>6. QueueRef'  BY <2>3, <2>5, ShrinkRef
  <2>7. MapRef'
    BY <2>3, <2>4, <2>5 DEF RefInv, MapRef, Quietly, Wf, TypeOK, StoreType
  <2>8. HandRef'
    BY <2>1, <2>3, <2>5 DEF RefInv, HandRef, Hand
  <2> QED  BY <2>6, <2>7, <2>8 DEF RefInv
<1>3. CASE PutMessageDeferredPQ
  <2>1. Objs' = Objs  BY <1>3 DEF PutMessageDeferredPQ, Objs
  <2>2. pub.ptr \in Ptr /\ pub.ptr \in Objs
    BY <1>3, PtrFacts DEF PutMessageDeferredPQ, RefInv, HandRef, Quietly, Wf, Pointers
  <2>3. QueueRef'
    BY <1>3, <2>1, <2>2, ShrinkRef
       DEF PutMessageDeferredPQ, addToDeferredPQ, Quietly, Wf, TypeOK, StoreType
  <2>4. MapRef' /\ HandRef'
    BY <1>3, <2>1 DEF PutMessageDeferredPQ, RefInv, MapRef, HandRef, Idle, Hand
  <2> QED  BY <2>3, <2>4 DEF RefInv
<1> QED  BY <1>1, <1>2, <1>3 DEF Publish

LEMMA RespondRef ==
    ASSUME Quietly, RefInv, NEW c \in Client, Respond(c)
    PROVE  RefInv'
<1>1. PICK m \in Msg : FIN(c, m) \/ REQ(c, m) \/ TOUCH(c, m)  BY DEF Respond
<1>2. /\ \E pc : io' = [io EXCEPT ![c] = Hand(pc, inFlightMessages[m])]
      /\ \E place, who : place # "new" /\ At(m, place, who)
      /\ inFlightMessages' = [inFlightMessages EXCEPT ![m] = Nil]
      /\ UNCHANGED <<memoryMsgChan, inFlightPQ, deferredPQ, deferredMessages, pump, scan, pub>>
  BY <1>1 DEF FIN, REQ, TOUCH, Answer, popInFlightMessage
<1>3. Objs \subseteq Objs'  BY <1>2, AtObjs DEF Quietly
<1>4. QueueRef'  BY <1>2, <1>3, ShrinkRef
<1>5. MapRef'
  BY <1>2, <1>3 DEF RefInv, MapRef, Quietly, Wf, TypeOK, StoreType
<1>6. HandRef'
  <2>1. inFlightMessages[m] \in Objs' \cup {Nil}  BY <1>3 DEF RefInv, MapRef
  <2>2. \A d \in Client : io'[d].ptr \in {io[d].ptr, inFlightMessages[m]}
    BY <1>2 DEF Hand, Quietly, Wf, TypeOK, HandType
  <2> QED  BY <1>2, <1>3, <2>1, <2>2 DEF RefInv, HandRef
<1> QED  BY <1>4, <1>5, <1>6 DEF RefInv

LEMMA TakeShrinks ==
    ASSUME Wf, NEW p \in Ptr, PQTake(p)
    PROVE  \A q \in Ptr : inFlightPQ'[q] > 0 => inFlightPQ[q] > 0
<1>1. inFlightPQ \in [Ptr -> Nat]  BY DEF Wf, TypeOK, StoreType
<1> QED  BY <1>1 DEF PQTake

LEMMA HandleRef ==
    ASSUME Quietly, RefInv, NEW c \in Client, Handle(c)
    PROVE  RefInv'
<1> DEFINE p == io[c].ptr
<1>1. /\ io[c].pc # "idle" /\ p \in Ptr /\ p \in Objs
  <2>1. io[c].pc # "idle"
    BY DEF Handle, AnswerPQ, AnswerCount, RequeueNow, RequeueDeferred, RequeueDeferredPQ,
           TouchPush, TouchAddPQ, NextPC
  <2> QED  BY <2>1, PtrFacts DEF RefInv, HandRef, Quietly, Wf, Pointers
<1>2. IDOf(p) \in Msg /\ p[2] = 1  BY <1>1, PtrFacts DEF Objs
<1>3. /\ UNCHANGED <<pump, scan, pub>>
      /\ \A d \in Client : io'[d].ptr \in {io[d].ptr, Nil}
  BY DEF Handle, AnswerPQ, AnswerCount, RequeueNow, RequeueDeferred, RequeueDeferredPQ,
         TouchPush, TouchAddPQ, Idle, Hand, Quietly, Wf, TypeOK, HandType
<1>4. ASSUME Objs \subseteq Objs'  PROVE HandRef'
  BY <1>3, <1>4 DEF RefInv, HandRef
<1>5. CASE AnswerPQ(c)
  <2>1. Objs' = Objs /\ UNCHANGED <<memoryMsgChan, deferredPQ, inFlightMessages, deferredMessages>>
    BY <1>5 DEF AnswerPQ, Objs
  <2>2. \A q \in Ptr : inFlightPQ'[q] > 0 => inFlightPQ[q] > 0
    <3>1. removeFromInFlightPQ(p)  BY <1>5 DEF AnswerPQ
    <3>2. UNCHANGED inFlightPQ \/ \E q \in Ptr : PQTake(q)
      BY <1>1, <3>1 DEF removeFromInFlightPQ
    <3> QED  BY <3>2, TakeShrinks DEF Quietly
  <2>3. QueueRef'  BY <2>1, <2>2, ShrinkRef
  <2> QED  BY <1>4, <2>1, <2>3 DEF RefInv, MapRef
<1>6. CASE AnswerCount(c)
  <2>1. Objs' = Objs
        /\ UNCHANGED <<memoryMsgChan, inFlightPQ, deferredPQ, inFlightMessages, deferredMessages>>
    BY <1>6 DEF AnswerCount, Objs
  <2>2. QueueRef'  BY <2>1, ShrinkRef
  <2> QED  BY <1>4, <2>1, <2>2 DEF RefInv, MapRef
<1>7. CASE RequeueNow(c)
  <2>1. UNCHANGED <<inFlightPQ, deferredPQ, inFlightMessages, deferredMessages>> /\ ~Exiting
    BY <1>7 DEF RequeueNow, Quietly, Resident, Exiting
  <2>2. PutOK(p) \/ (PutFails(p) /\ At(IDOf(p), "lost", Nil))  BY <1>7, <2>1 DEF RequeueNow
  <2>3. CASE PutOK(p)
    BY <1>1, <1>2, <1>4, <2>1, <2>3, PutRef DEF RefInv
  <2>4. CASE PutFails(p) /\ At(IDOf(p), "lost", Nil)
    <3>1. Objs \subseteq Objs'  BY <1>2, <2>4, AtObjs DEF Quietly
    <3>2. memoryMsgChan' = memoryMsgChan  BY <2>4 DEF PutFails
    <3>3. QueueRef'  BY <2>1, <3>1, <3>2, ShrinkRef
    <3> QED  BY <1>4, <2>1, <3>1, <3>3 DEF RefInv, MapRef
  <2> QED  BY <2>2, <2>3, <2>4
<1>8. CASE RequeueDeferred(c)
  <2>1. /\ UNCHANGED <<memoryMsgChan, inFlightPQ, deferredPQ, inFlightMessages>>
        /\ deferredMessages' = [deferredMessages EXCEPT ![IDOf(p)] = p]
        /\ At(IDOf(p), "deferred", Nil)
    BY <1>8 DEF RequeueDeferred, pushDeferredMessage
  <2>2. Objs \subseteq Objs'  BY <1>2, <2>1, AtObjs DEF Quietly
  <2>3. QueueRef'  BY <2>1, <2>2, ShrinkRef
  <2>4. MapRef'
    BY <1>1, <1>2, <2>1, <2>2 DEF RefInv, MapRef, Quietly, Wf, TypeOK, StoreType
  <2> QED  BY <1>4, <2>2, <2>3, <2>4 DEF RefInv
<1>9. CASE RequeueDeferredPQ(c)
  <2>1. /\ Objs' = Objs /\ UNCHANGED <<memoryMsgChan, inFlightPQ, inFlightMessages, deferredMessages>>
        /\ deferredPQ' = [deferredPQ EXCEPT ![p] = @ + 1]
    BY <1>9 DEF RequeueDeferredPQ, addToDeferredPQ, Objs
  <2>2. QueueRef'
    BY <1>1, <2>1, ShrinkRef DEF Quietly, Wf, TypeOK, StoreType
  <2> QED  BY <1>4, <2>1, <2>2 DEF RefInv, MapRef
<1>10. CASE TouchPush(c)
  <2>1. /\ UNCHANGED <<memoryMsgChan, inFlightPQ, deferredPQ, deferredMessages>>
        /\ inFlightMessages' = [inFlightMessages EXCEPT ![IDOf(p)] = p]
        /\ At(IDOf(p), "inflight", Nil)
    BY <1>10 DEF TouchPush, pushInFlightMessage
  <2>2. Objs \subseteq Objs'  BY <1>2, <2>1, AtObjs DEF Quietly
  <2>3. QueueRef'  BY <2>1, <2>2, ShrinkRef
  <2>4. MapRef'
    BY <1>1, <1>2, <2>1, <2>2 DEF RefInv, MapRef, Quietly, Wf, TypeOK, StoreType
  <2> QED  BY <1>4, <2>2, <2>3, <2>4 DEF RefInv
<1>11. CASE TouchAddPQ(c)
  <2>1. /\ Objs' = Objs /\ UNCHANGED <<memoryMsgChan, deferredPQ, inFlightMessages, deferredMessages>>
        /\ inFlightPQ' = [inFlightPQ EXCEPT ![p] = @ + 1]
    BY <1>11 DEF TouchAddPQ, PQPush, Objs
  <2>2. QueueRef'
    BY <1>1, <2>1, ShrinkRef DEF Quietly, Wf, TypeOK, StoreType
  <2> QED  BY <1>4, <2>1, <2>2 DEF RefInv, MapRef
<1> QED  BY <1>5, <1>6, <1>7, <1>8, <1>9, <1>10, <1>11 DEF Handle

LEMMA PumpRef ==
    ASSUME Quietly, RefInv, NEW c \in Client, Pump(c)
    PROVE  RefInv'
<1>0. /\ TypeOK /\ backend = << >>  BY DEF Quietly, Resident, Wf
<1>1. CASE PumpMemory(c)
  <2> DEFINE p == Head(memoryMsgChan)
  <2>1. /\ memoryMsgChan # << >> /\ memoryMsgChan' = Tail(memoryMsgChan) /\ Arrive(c, p)
        /\ UNCHANGED <<inFlightPQ, deferredPQ, inFlightMessages, deferredMessages, io, scan, pub>>
    BY <1>1 DEF PumpMemory
  <2>2. p \in Objs /\ p \in Ptr /\ IDOf(p) \in Msg
    BY <2>1, PtrFacts DEF RefInv, QueueRef, Objs
  <2>3. /\ \E place, who : place # "new" /\ At(IDOf(p), place, who)
        /\ \E pc, q : q \in {p, Nil} /\ pump' = [pump EXCEPT ![c] = Hand(pc, q)]
    BY <2>1 DEF Arrive
  <2>4. Objs \subseteq Objs'  BY <2>2, <2>3, AtObjs DEF Quietly
  <2>5. memoryMsgChan' \in Seq(Objs')  BY <2>1, <2>4, SeqObjs DEF RefInv, QueueRef
  <2>6. QueueRef' /\ MapRef'  BY <2>1, <2>4, <2>5 DEF RefInv, QueueRef, MapRef
  <2>7. \A d \in Client : pump'[d].ptr \in {pump[d].ptr, p, Nil}
    BY <1>0, <2>3 DEF Hand, TypeOK, HandType
  <2>8. HandRef'  BY <2>1, <2>2, <2>4, <2>7 DEF RefInv, HandRef
  <2> QED  BY <2>6, <2>8 DEF RefInv
<1>2. CASE PumpBackend(c)
  BY <1>0, <1>2 DEF PumpBackend
<1>3. CASE PumpPush(c)
  <2> DEFINE p == pump[c].ptr
  <2>1. /\ UNCHANGED <<memoryMsgChan, inFlightPQ, deferredPQ, deferredMessages, io, scan, pub>>
        /\ inFlightMessages' = [inFlightMessages EXCEPT ![IDOf(p)] = p]
        /\ At(IDOf(p), "inflight", Nil)
    BY <1>3 DEF PumpPush, pushInFlightMessage
  <2>2. p \in Ptr /\ p \in Objs /\ IDOf(p) \in Msg
    BY <1>3, PtrFacts DEF PumpPush, RefInv, HandRef, Quietly, Wf, Pointers
  <2>3. Objs \subseteq Objs'  BY <2>1, <2>2, AtObjs DEF Quietly
  <2>4. QueueRef'  BY <2>1, <2>3, ShrinkRef
  <2>5. MapRef'
    BY <1>0, <2>1, <2>2, <2>3 DEF RefInv, MapRef, TypeOK, StoreType
  <2>6. \A d \in Client : pump'[d].ptr = pump[d].ptr
    BY <1>0, <1>3 DEF PumpPush, TypeOK, HandType
  <2>7. HandRef'  BY <2>1, <2>3, <2>6 DEF RefInv, HandRef
  <2> QED  BY <2>4, <2>5, <2>7 DEF RefInv
<1>4. CASE PumpAddPQ(c)
  <2>1. /\ Objs' = Objs
        /\ UNCHANGED <<memoryMsgChan, deferredPQ, inFlightMessages, deferredMessages, io, scan, pub>>
        /\ inFlightPQ' = [inFlightPQ EXCEPT ![pump[c].ptr] = @ + 1]
    BY <1>4 DEF PumpAddPQ, PQPush, Objs
  <2>2. pump[c].ptr \in Ptr /\ pump[c].ptr \in Objs
    BY <1>4, PtrFacts DEF PumpAddPQ, RefInv, HandRef, Quietly, Wf, Pointers
  <2>3. QueueRef'
    BY <1>0, <2>1, <2>2, ShrinkRef DEF TypeOK, StoreType
  <2>4. \A d \in Client : pump'[d].ptr = pump[d].ptr
    BY <1>0, <1>4 DEF PumpAddPQ, TypeOK, HandType
  <2> QED  BY <2>1, <2>3, <2>4 DEF RefInv, MapRef, HandRef
<1>5. CASE PumpLoop(c) \/ PumpExit(c) \/ PumpSend(c)
  <2>1. /\ Objs' = Objs
        /\ UNCHANGED <<memoryMsgChan, inFlightPQ, deferredPQ, inFlightMessages,
                       deferredMessages, io, scan, pub>>
    BY <1>5 DEF PumpLoop, PumpExit, PumpSend, Objs
  <2>2. \A d \in Client : pump'[d].ptr \in {pump[d].ptr, Nil}
    <3>1. \/ \E pc : pump' = [pump EXCEPT ![c].pc = pc]
          \/ \E pc : pump' = [pump EXCEPT ![c] = Hand(pc, Nil)]
      BY <1>5 DEF PumpLoop, PumpExit, PumpSend
    <3> QED  BY <1>0, <3>1 DEF Hand, TypeOK, HandType
  <2>3. QueueRef'  BY <2>1, ShrinkRef
  <2> QED  BY <2>1, <2>2, <2>3 DEF RefInv, MapRef, HandRef
<1> QED  BY <1>1, <1>2, <1>3, <1>4, <1>5 DEF Pump

LEMMA ScanRef == ASSUME Quietly, RefInv, Scan PROVE RefInv'
<1>0. TypeOK  BY DEF Quietly, Wf
<1>1. ASSUME NEW p \in Ptr, ScanShift(p) \/ ScanDeferredShift(p)  PROVE RefInv'
  <2>1. /\ Objs' = Objs /\ scan'.ptr = p
        /\ UNCHANGED <<memoryMsgChan, inFlightMessages, deferredMessages, io, pump, pub>>
    BY <1>1 DEF ScanShift, ScanDeferredShift, Objs, Hand
  <2>2. /\ inFlightPQ[p] > 0 \/ deferredPQ[p] > 0
        /\ \A q \in Ptr : inFlightPQ'[q] > 0 => inFlightPQ[q] > 0
        /\ \A q \in Ptr : deferredPQ'[q] > 0 => deferredPQ[q] > 0
    <3>1. CASE ScanShift(p)
      BY <1>0, <3>1, TakeShrinks DEF ScanShift, PQTake, Quietly
    <3>2. CASE ScanDeferredShift(p)
      BY <1>0, <3>2 DEF ScanDeferredShift, TypeOK, StoreType
    <3> QED  BY <1>1, <3>1, <3>2
  <2>3. p \in Objs  BY <2>2 DEF RefInv, QueueRef
  <2>4. QueueRef'  BY <2>1, <2>2, ShrinkRef
  <2> QED  BY <2>1, <2>3, <2>4 DEF RefInv, MapRef, HandRef
<1>2. CASE ScanPut
  <2>1. scan.ptr \in Ptr /\ scan.ptr \in Objs /\ IDOf(scan.ptr) \in Msg /\ scan.ptr[2] = 1
    BY <1>2, PtrFacts DEF ScanPut, RefInv, HandRef, Quietly, Wf, Pointers, Objs
  <2>2. /\ scan'.ptr = Nil
        /\ UNCHANGED <<inFlightPQ, deferredPQ, inFlightMessages, deferredMessages, io, pump, pub>>
    BY <1>2 DEF ScanPut, Idle, Hand
  <2>3. CASE PutOK(scan.ptr)
    <3>1. Objs \subseteq Objs' /\ QueueRef' /\ MapRef'  BY <2>1, <2>2, <2>3, PutRef
    <3> QED  BY <2>2, <3>1 DEF RefInv, HandRef
  <2>4. CASE PutFails(scan.ptr) /\ At(IDOf(scan.ptr), "lost", Nil)
    <3>1. Objs \subseteq Objs'  BY <2>1, <2>4, AtObjs DEF Quietly
    <3>2. memoryMsgChan' = memoryMsgChan  BY <2>4 DEF PutFails
    <3>3. QueueRef'  BY <2>2, <3>1, <3>2, ShrinkRef
    <3> QED  BY <2>2, <3>1, <3>3 DEF RefInv, MapRef, HandRef
  <2> QED  BY <1>2, <2>3, <2>4 DEF ScanPut
<1>3. CASE ScanPop \/ ScanTimedOut \/ ScanDeferredPop
  <2>1. /\ UNCHANGED <<memoryMsgChan, inFlightPQ, deferredPQ, io, pump, pub>>
        /\ scan'.ptr \in {scan.ptr, Nil}
    BY <1>0, <1>3
       DEF ScanPop, ScanTimedOut, ScanDeferredPop, Idle, Hand, TypeOK, HandType
  <2>2. scan.ptr \in Ptr /\ IDOf(scan.ptr) \in Msg
    BY <1>3, PtrFacts DEF ScanPop, ScanTimedOut, ScanDeferredPop, Quietly, Wf, Pointers
  <2>3. \/ UNCHANGED loc
        \/ At(IDOf(scan.ptr), "scan", Nil)
    BY <1>3 DEF ScanPop, ScanTimedOut, ScanDeferredPop
  <2>4. Objs \subseteq Objs'
    <3>1. CASE UNCHANGED loc  BY <3>1 DEF Objs
    <3> QED  BY <2>2, <2>3, <3>1, AtObjs DEF Quietly
  <2>5. QueueRef'  BY <2>1, <2>4, ShrinkRef
  <2>6. \A m \in Msg : /\ inFlightMessages'[m] \in {inFlightMessages[m], Nil}
                       /\ deferredMessages'[m] \in {deferredMessages[m], Nil}
    BY <1>0, <1>3 DEF ScanPop, ScanTimedOut, ScanDeferredPop, popInFlightMessage,
                      TypeOK, StoreType
  <2> QED  BY <2>1, <2>4, <2>5, <2>6 DEF RefInv, MapRef, HandRef
<1> QED  BY <1>1, <1>2, <1>3 DEF Scan, ScanRest

\* A step before and after which the channel is not being emptied and does not exit is none
\* of Empty() or exit().
LEMMA Working ==
    ASSUME Next, emp = "idle", emp' = "idle", ext = "idle", ext' = "idle"
    PROVE  Publish \/ Scan \/ \E c \in Client : Connection(c) \/ Respond(c) \/ Handle(c) \/ Pump(c)
<1>1. ~Empty
  BY DEF Empty, EmptyInFlight, EmptyDeferred, EmptyClients, EmptyDrain, EmptyBackend
<1>2. ~Exit
  BY ChannelAssumption
     DEF Exit, ExitBegin, ExitClients, FlushMemory, FlushInFlight, FlushDeferred, FlushMap,
         CloseBackend
<1> QED  BY <1>1, <1>2 DEF Next

LEMMA Steps ==
    ASSUME Wf, Resident, Resident', Next
    PROVE  /\ Quietly
           /\ Publish \/ Scan
                \/ \E c \in Client : Connection(c) \/ Respond(c) \/ Handle(c) \/ Pump(c)
<1>1. Quietly  BY DEF Quietly, Next
<1> QED  BY <1>1, Working DEF Resident

LEMMA NextRef == Wf /\ Resident /\ Resident' /\ RefInv /\ [Next]_vars => RefInv'
<1> SUFFICES ASSUME Wf, Resident, Resident', RefInv, [Next]_vars  PROVE RefInv'
  OBVIOUS
<1>1. CASE UNCHANGED vars
  BY <1>1, RefSame DEF vars
<1>2. CASE Next
  <2>1. ASSUME NEW c \in Client, Connection(c)  PROVE RefInv'
    BY <2>1, RefSame DEF Connection, SUB, RDY, CLS, ConnBreak, Disconnect
  <2> QED  BY <1>2, <2>1, Steps, PublishRef, ScanRef, RespondRef, HandleRef, PumpRef
<1> QED  BY <1>1, <1>2

-----------------------------------------------------------------------------
(* The index field.  Once an object has been pushed on the time-out queue    *)
(* its index is right for as long as the queue is not replaced.              *)

Pushed(p) == index[p] \in {"none", "in"}

IndexInv ==
    /\ \A p \in Ptr : index[p] # "stale"
    /\ \A c \in Client : \A m \in received[c] : Pushed(<<m, 1>>)
    /\ \A c \in Client : pump[c].pc = "send" => Pushed(pump[c].ptr)
    /\ RemovesOwnEntry
FinInv == \A c \in Client : io[c].pc = "finPQ" => loc[IDOf(io[c].ptr)][1] = "finished"

LEMMA PushIndex ==
    ASSUME Wf, NEW p \in Ptr, PQPush(p)
    PROVE  /\ index'[p] = "in" /\ inFlightPQ'[p] > 0
           /\ \A q \in Ptr : index'[q] \in {index[q], "in"} /\ inFlightPQ'[q] >= inFlightPQ[q]
<1>1. index \in [Ptr -> Index] /\ inFlightPQ \in [Ptr -> Nat]
  BY DEF Wf, TypeOK, StoreType
<1> QED  BY <1>1 DEF PQPush, Reindexed

LEMMA TakeIndex ==
    ASSUME Wf, NEW p \in Ptr, PQTake(p)
    PROVE  /\ \A q \in Ptr : index'[q] \in {index[q], "none", "in"}
           /\ \A q \in Ptr : q # p => inFlightPQ'[q] = inFlightPQ[q]
           /\ index[p] \in {"none", "in"} => index'[p] \in {"none", "in"}
<1>1. index \in [Ptr -> Index] /\ inFlightPQ \in [Ptr -> Nat]
  BY DEF Wf, TypeOK, StoreType
<1> QED  BY <1>1 DEF PQTake, Reindexed

\* What a step does to the time-out queue.
QueueStep ==
    \/ UNCHANGED <<inFlightPQ, index>>
    \/ \E p \in Ptr : PQPush(p)
    \/ \E p \in Ptr : PQTake(p) /\ ScanShift(p)
    \/ \E c \in Client : AnswerPQ(c) /\ PQTake(io[c].ptr)

LEMMA QueueSteps ==
    ASSUME Quietly, IndexInv, Next
    PROVE  QueueStep
<1>1. Publish \/ Scan \/ \E c \in Client : Connection(c) \/ Respond(c) \/ Handle(c) \/ Pump(c)
  BY Steps DEF Quietly
<1>2. CASE Publish
  BY <1>2 DEF Publish, PutMessage, PutMessageDeferred, PutMessageDeferredPQ, QueueStep
<1>3. CASE Scan
  BY <1>3 DEF Scan, ScanRest, ScanShift, ScanPop, ScanTimedOut, ScanPut, ScanDeferredShift,
              ScanDeferredPop, QueueStep
<1>4. ASSUME NEW c \in Client, Connection(c)  PROVE QueueStep
  BY <1>4 DEF Connection, SUB, RDY, CLS, ConnBreak, Disconnect, QueueStep
<1>5. ASSUME NEW c \in Client, Respond(c)  PROVE QueueStep
  BY <1>5 DEF Respond, FIN, REQ, TOUCH, Answer, QueueStep
<1>6. ASSUME NEW c \in Client, Handle(c)  PROVE QueueStep
  <2>1. CASE AnswerPQ(c)
    <3>1. index[io[c].ptr] \in {"none", "in"} /\ removeFromInFlightPQ(io[c].ptr)
      BY <2>1 DEF AnswerPQ, IndexInv, RemovesOwnEntry
    <3>2. UNCHANGED <<inFlightPQ, index>> \/ PQTake(io[c].ptr)
      BY <3>1 DEF removeFromInFlightPQ
    <3> QED  BY <2>1, <3>2 DEF QueueStep
  <2>2. CASE TouchAddPQ(c)
    <3>1. io[c].ptr \in Ptr  BY <2>2 DEF TouchAddPQ, Quietly, Wf, Pointers
    <3> QED  BY <2>2, <3>1 DEF TouchAddPQ, QueueStep
  <2>3. CASE AnswerCount(c) \/ RequeueNow(c) \/ RequeueDeferred(c) \/ RequeueDeferredPQ(c)
               \/ TouchPush(c)
    BY <2>3 DEF AnswerCount, RequeueNow, RequeueDeferred, RequeueDeferredPQ, TouchPush, QueueStep
  <2> QED  BY <1>6, <2>1, <2>2, <2>3 DEF Handle
<1>7. ASSUME NEW c \in Client, Pump(c)  PROVE QueueStep
  <2>1. CASE PumpAddPQ(c)
    <3>1. pump[c].ptr \in Ptr  BY <2>1 DEF PumpAddPQ, Quietly, Wf, Pointers
    <3> QED  BY <2>1, <3>1 DEF PumpAddPQ, QueueStep
  <2>2. ~PumpBackend(c)  BY DEF PumpBackend, Quietly, Resident
  <2>3. CASE PumpLoop(c) \/ PumpExit(c) \/ PumpMemory(c) \/ PumpPush(c) \/ PumpSend(c)
    BY <2>3 DEF PumpLoop, PumpExit, PumpMemory, PumpPush, PumpSend, QueueStep
  <2> QED  BY <1>7, <2>1, <2>2, <2>3 DEF Pump
<1> QED  BY <1>1, <1>2, <1>3, <1>4, <1>5, <1>6, <1>7

LEMMA PushedStays ==
    ASSUME Quietly, IndexInv, QueueStep
    PROVE  \A p \in Ptr : index'[p] # "stale" /\ (Pushed(p) => Pushed(p)')
<1>1. \A p \in Ptr : index[p] # "stale"  BY DEF IndexInv
<1>2. CASE UNCHANGED <<inFlightPQ, index>>  BY <1>1, <1>2 DEF Pushed
<1>3. ASSUME NEW q \in Ptr, PQPush(q)
      PROVE  \A p \in Ptr : index'[p] # "stale" /\ (Pushed(p) => Pushed(p)')
  BY <1>1, <1>3, PushIndex DEF Quietly, Pushed
<1>4. ASSUME NEW q \in Ptr, PQTake(q)
      PROVE  \A p \in Ptr : index'[p] # "stale" /\ (Pushed(p) => Pushed(p)')
  BY <1>1, <1>4, TakeIndex DEF Quietly, Pushed
<1>5. ASSUME NEW c \in Client, AnswerPQ(c)  PROVE io[c].ptr \in Ptr
  BY <1>5 DEF AnswerPQ, NextPC, Quietly, Wf, Pointers
<1> QED  BY <1>2, <1>3, <1>4, <1>5 DEF QueueStep

LEMMA ObjIsFirst ==
    ASSUME NEW p \in Objs  PROVE p \in Ptr /\ p = <<IDOf(p), 1>>
BY DEF Objs, Ptr, IDOf

LEMMA NextIndex ==
    ASSUME Quietly, RefInv, IndexInv, Next  PROVE IndexInv'
<1>1. \A p \in Ptr : index'[p] # "stale" /\ (Pushed(p) => Pushed(p)')
  BY QueueSteps, PushedStays
<1>2. Publish \/ Scan \/ \E c \in Client : Connection(c) \/ Respond(c) \/ Handle(c) \/ Pump(c)
  BY Steps DEF Quietly
<1>3. TypeOK /\ Pointers  BY DEF Quietly, Wf
<1>4. \A m \in Msg : <<m, 1>> \in Ptr  BY ChannelAssumption DEF Ptr
<1>5. ASSUME NEW c \in Client, NEW m \in received'[c]  PROVE Pushed(<<m, 1>>)'
  <2>1. CASE m \in received[c]
    <3>1. m \in Msg  BY <1>3, <2>1 DEF TypeOK, ConsumerType
    <3>2. Pushed(<<m, 1>>)  BY <2>1 DEF IndexInv
    <3> QED  BY <1>1, <1>4, <3>1, <3>2
  <2>2. CASE m \notin received[c]
    <3>1. PumpSend(c) /\ m = IDOf(pump[c].ptr)
      <4>1. \E d \in Client : PumpSend(d)
        BY <1>2, <2>2
           DEF Publish, PutMessage, PutMessageDeferred, PutMessageDeferredPQ,
               Scan, ScanRest, ScanShift, ScanPop, ScanTimedOut, ScanPut, ScanDeferredShift,
               ScanDeferredPop, Connection, SUB, RDY, CLS, ConnBreak, Disconnect,
               Respond, FIN, REQ, TOUCH, Answer, Handle, AnswerPQ, AnswerCount, RequeueNow,
               RequeueDeferred, RequeueDeferredPQ, TouchPush, TouchAddPQ,
               Pump, PumpLoop, PumpExit, PumpMemory, PumpBackend, PumpPush, PumpAddPQ
      <4>2. PICK d \in Client : PumpSend(d)  BY <4>1
      <4>3. \/ UNCHANGED received
            \/ received' = [received EXCEPT ![d] = @ \cup {IDOf(pump[d].ptr)}]
        BY <4>2 DEF PumpSend
      <4>4. received' = [received EXCEPT ![d] = @ \cup {IDOf(pump[d].ptr)}]
        BY <2>2, <4>3
      <4>5. d = c /\ m = IDOf(pump[d].ptr)
        BY <1>3, <2>2, <4>4 DEF TypeOK, ConsumerType
      <4> QED  BY <4>2, <4>5
    <3>2. Pushed(pump[c].ptr) /\ pump[c].ptr \in Ptr
      BY <1>3, <3>1 DEF PumpSend, IndexInv, Pointers
    <3>3. pump[c].ptr \in Objs  BY <3>2, PtrFacts DEF RefInv, HandRef
    <3>4. pump[c].ptr = <<m, 1>>  BY <3>1, <3>3, ObjIsFirst
    <3>5. UNCHANGED index  BY <3>1 DEF PumpSend
    <3>6. index[<<m, 1>>] \in {"none", "in"}  BY <3>2, <3>4 DEF Pushed
    <3> QED  BY <3>5, <3>6 DEF Pushed
  <2> QED  BY <2>1, <2>2
<1>6. ASSUME NEW c \in Client, pump'[c].pc = "send"
      PROVE  index'[pump'[c].ptr] \in {"none", "in"}
  <2>1. CASE pump[c].pc = "send" /\ pump'[c] = pump[c]
    BY <1>1, <1>3, <2>1 DEF IndexInv, Pushed, Pointers
  <2>2. CASE ~(pump[c].pc = "send" /\ pump'[c] = pump[c])
    <3>1. PumpAddPQ(c)
      <4>1. \/ pump' = pump
            \/ \E d \in Client : Pump(d)
        BY <1>2
           DEF Publish, PutMessage, PutMessageDeferred, PutMessageDeferredPQ,
               Scan, ScanRest, ScanShift, ScanPop, ScanTimedOut, ScanPut, ScanDeferredShift,
               ScanDeferredPop, Connection, SUB, RDY, CLS, ConnBreak, Disconnect,
               Respond, FIN, REQ, TOUCH, Answer, Handle, AnswerPQ, AnswerCount, RequeueNow,
               RequeueDeferred, RequeueDeferredPQ, TouchPush, TouchAddPQ
      <4>2. PICK d \in Client : Pump(d)  BY <1>6, <2>2, <4>1
      <4>3. \E r : pump' = [pump EXCEPT ![d] = r]
        BY <1>3, <4>2
           DEF Pump, PumpLoop, PumpExit, PumpMemory, PumpBackend, PumpPush, PumpAddPQ, PumpSend,
               Arrive, TypeOK, HandType
      <4>4. d = c  BY <1>3, <1>6, <2>2, <4>3 DEF TypeOK, HandType
      <4>5. PumpAddPQ(d)
        <5>1. pump'[d].pc = "send"  BY <1>6, <4>4
        <5>2. ~(PumpLoop(d) \/ PumpExit(d) \/ PumpMemory(d) \/ PumpBackend(d) \/ PumpPush(d)
                  \/ PumpSend(d))
          BY <1>3, <5>1
             DEF PumpLoop, PumpExit, PumpMemory, PumpBackend, PumpPush, PumpSend, Arrive,
                 TypeOK, HandType, Hand
        <5> QED  BY <4>2, <5>2 DEF Pump
      <4> QED  BY <4>4, <4>5
    <3>2. /\ pump[c].ptr \in Ptr /\ PQPush(pump[c].ptr) /\ pump'[c].ptr = pump[c].ptr
      BY <1>3, <3>1 DEF PumpAddPQ, Pointers, TypeOK, HandType
    <3> QED  BY <3>2, PushIndex DEF Quietly
  <2> QED  BY <2>1, <2>2
<1>7. ASSUME NEW c \in Client, io'[c].pc \in DOMAIN NextPC
      PROVE  index'[io'[c].ptr] \in {"none", "in"}
  <2>1. io'[c] # Idle  BY <1>7 DEF NextPC, Idle, Hand
  <2>2. CASE io'[c] = io[c]
    <3>1. io[c].ptr \in Ptr /\ Pushed(io[c].ptr)
      BY <1>3, <1>7, <2>2 DEF IndexInv, RemovesOwnEntry, Pushed, Pointers, NextPC
    <3> QED  BY <1>1, <2>2, <3>1 DEF Pushed
  <2>3. CASE io'[c] # io[c]
    <3>1. PICK d \in Client : Respond(d) \/ Handle(d)
      BY <1>2, <2>3
         DEF Publish, PutMessage, PutMessageDeferred, PutMessageDeferredPQ,
             Scan, ScanRest, ScanShift, ScanPop, ScanTimedOut, ScanPut, ScanDeferredShift,
             ScanDeferredPop, Connection, SUB, RDY, CLS, ConnBreak, Disconnect,
             Pump, PumpLoop, PumpExit, PumpMemory, PumpBackend, PumpPush, PumpAddPQ, PumpSend
    <3>2. d = c
      BY <1>3, <2>3, <3>1
         DEF Respond, FIN, REQ, TOUCH, Answer, Handle, AnswerPQ, AnswerCount, RequeueNow,
             RequeueDeferred, RequeueDeferredPQ, TouchPush, TouchAddPQ, TypeOK, HandType
    <3>3. ~Handle(c)
      BY <1>3, <1>7
         DEF Handle, AnswerPQ, AnswerCount, RequeueNow, RequeueDeferred, RequeueDeferredPQ,
             TouchPush, TouchAddPQ, TypeOK, HandType, NextPC, Idle, Hand
    <3>4. PICK m \in Msg : /\ m \in received[c] /\ Owns(c, m) /\ index' = index
                           /\ \E pc : io' = [io EXCEPT ![c] = Hand(pc, inFlightMessages[m])]
      BY <3>1, <3>2, <3>3 DEF Respond, FIN, REQ, TOUCH, Answer, popInFlightMessage
    <3>5. io'[c].ptr = inFlightMessages[m]
      BY <1>3, <3>4 DEF TypeOK, HandType, Hand
    <3>6. inFlightMessages[m] \in Objs /\ IDOf(inFlightMessages[m]) = m
      BY <1>3, <3>4 DEF Owns, RefInv, MapRef, Pointers
    <3>7. inFlightMessages[m] = <<m, 1>>  BY <3>6, ObjIsFirst
    <3>8. index[<<m, 1>>] \in {"none", "in"}  BY <3>4 DEF IndexInv, Pushed
    <3> QED  BY <3>4, <3>5, <3>7, <3>8
  <2> QED  BY <2>2, <2>3
<1>8. \A c \in Client : \A m \in received'[c] : Pushed(<<m, 1>>)'
  BY <1>5
<1>9. \A p \in Ptr : index'[p] # "stale"  BY <1>1
<1>10. \A c \in Client : pump'[c].pc = "send" => Pushed(pump[c].ptr)'
  BY <1>6 DEF Pushed
<1>11. RemovesOwnEntry'  BY <1>7 DEF RemovesOwnEntry
<1> QED  BY <1>8, <1>9, <1>10, <1>11 DEF IndexInv

-----------------------------------------------------------------------------
(* Nothing is stranded in the in-flight map.                                 *)

Armed(m) ==
    LET p == inFlightMessages[m] IN
        p # Nil =>
            \/ inFlightPQ[p] > 0
            \/ scan = Hand("shifted", p)
            \/ \E c \in Client : pump[c] = Hand("addPQ", p)
                                   \/ io[c] = Hand("touchAddPQ", p)

LEMMA NextFin ==
    ASSUME Quietly, EndedKept, FinInv, Next  PROVE FinInv'
<1>0. TypeOK /\ Pointers  BY DEF Quietly, Wf
<1>1. SUFFICES ASSUME NEW c \in Client, io'[c].pc = "finPQ"
               PROVE  loc'[IDOf(io'[c].ptr)][1] = "finished"
  BY DEF FinInv
<1>2. CASE io'[c] = io[c]
  <2>1. io[c].ptr \in Ptr /\ IDOf(io[c].ptr) \in Msg
    BY <1>0, <1>1, <1>2, PtrFacts DEF Pointers
  <2>2. loc[IDOf(io[c].ptr)][1] = "finished"  BY <1>1, <1>2 DEF FinInv
  <2>3. loc'[IDOf(io[c].ptr)] = loc[IDOf(io[c].ptr)]
    BY <2>1, <2>2 DEF EndedKept, Ended
  <2> QED  BY <1>2, <2>2, <2>3
<1>3. CASE io'[c] # io[c]
  <2>1. Publish \/ Scan \/ \E d \in Client : Connection(d) \/ Respond(d) \/ Handle(d) \/ Pump(d)
    BY Steps DEF Quietly
  <2>2. PICK d \in Client : Respond(d) \/ Handle(d)
    BY <1>3, <2>1
       DEF Publish, PutMessage, PutMessageDeferred, PutMessageDeferredPQ,
           Scan, ScanRest, ScanShift, ScanPop, ScanTimedOut, ScanPut, ScanDeferredShift,
           ScanDeferredPop, Connection, SUB, RDY, CLS, ConnBreak, Disconnect,
           Pump, PumpLoop, PumpExit, PumpMemory, PumpBackend, PumpPush, PumpAddPQ, PumpSend
  <2>3. d = c
    BY <1>0, <1>3, <2>2
       DEF Respond, FIN, REQ, TOUCH, Answer, Handle, AnswerPQ, AnswerCount, RequeueNow,
           RequeueDeferred, RequeueDeferredPQ, TouchPush, TouchAddPQ, TypeOK, HandType
  <2>4. ~Handle(c)
    BY <1>0, <1>1
       DEF Handle, AnswerPQ, AnswerCount, RequeueNow, RequeueDeferred, RequeueDeferredPQ,
           TouchPush, TouchAddPQ, TypeOK, HandType, NextPC, Idle, Hand
  <2>5. PICK m \in Msg : FIN(c, m) \/ REQ(c, m) \/ TOUCH(c, m)
    BY <2>2, <2>3, <2>4 DEF Respond
  <2>6. FIN(c, m)
    BY <1>0, <1>1, <2>5 DEF REQ, TOUCH, Answer, TypeOK, HandType, Hand
  <2>7. io'[c].ptr = inFlightMessages[m] /\ inFlightMessages[m] # Nil
    BY <1>0, <2>6 DEF FIN, Answer, popInFlightMessage, Owns, TypeOK, HandType, Hand
  <2>8. IDOf(inFlightMessages[m]) = m  BY <1>0, <2>7 DEF Pointers
  <2>9. loc'[m][1] = "finished"
    BY <1>0, <2>6 DEF FIN, At, TypeOK, LocType
  <2> QED  BY <2>7, <2>8, <2>9
<1> QED  BY <1>2, <1>3

\* A step that puts a message into the in-flight map.
Enters(m) ==
    LET p == inFlightMessages'[m] IN
        \E c \in Client : pump'[c] = Hand("addPQ", p) \/ io'[c] = Hand("touchAddPQ", p)

LEMMA MapStep ==
    ASSUME Quietly, Next, NEW m \in Msg, inFlightMessages'[m] # Nil
    PROVE  inFlightMessages'[m] = inFlightMessages[m] \/ Enters(m)
<1>0. TypeOK /\ Pointers  BY DEF Quietly, Wf
<1>1. Publish \/ Scan \/ \E c \in Client : Connection(c) \/ Respond(c) \/ Handle(c) \/ Pump(c)
  BY Steps DEF Quietly
<1>2. CASE \A k \in Msg : inFlightMessages'[k] \in {inFlightMessages[k], Nil}
  BY <1>2
<1>3. ASSUME NEW c \in Client, PumpPush(c)
      PROVE  inFlightMessages'[m] = inFlightMessages[m] \/ Enters(m)
  <2>1. pump[c].ptr \in Ptr  BY <1>0, <1>3 DEF PumpPush, Pointers
  <2>2. pump'[c] = Hand("addPQ", pump[c].ptr)
    BY <1>0, <1>3 DEF PumpPush, TypeOK, HandType, Hand
  <2>3. inFlightMessages'[m] \in {inFlightMessages[m], pump[c].ptr}
    BY <1>0, <1>3 DEF PumpPush, pushInFlightMessage, TypeOK, StoreType
  <2> QED  BY <2>2, <2>3 DEF Enters
<1>4. ASSUME NEW c \in Client, TouchPush(c)
      PROVE  inFlightMessages'[m] = inFlightMessages[m] \/ Enters(m)
  <2>2. io'[c] = Hand("touchAddPQ", io[c].ptr)
    BY <1>0, <1>4 DEF TouchPush, TypeOK, HandType, Hand
  <2>3. inFlightMessages'[m] \in {inFlightMessages[m], io[c].ptr}
    BY <1>0, <1>4 DEF TouchPush, pushInFlightMessage, TypeOK, StoreType
  <2> QED  BY <2>2, <2>3 DEF Enters
<1>5. CASE Publish
  BY <1>5 DEF Publish, PutMessage, PutMessageDeferred, PutMessageDeferredPQ
<1>6. CASE Scan
  <2>1. \A k \in Msg : inFlightMessages'[k] \in {inFlightMessages[k], Nil}
    BY <1>0, <1>6
       DEF Scan, ScanRest, ScanShift, ScanPop, ScanTimedOut, ScanPut, ScanDeferredShift,
           ScanDeferredPop, popInFlightMessage, TypeOK, StoreType
  <2> QED  BY <1>2, <2>1
<1>7. ASSUME NEW c \in Client, Connection(c)  PROVE inFlightMessages'[m] = inFlightMessages[m]
  BY <1>7 DEF Connection, SUB, RDY, CLS, ConnBreak, Disconnect
<1>8. ASSUME NEW c \in Client, Respond(c)  PROVE inFlightMessages'[m] = inFlightMessages[m]
  <2>1. \A k \in Msg : inFlightMessages'[k] \in {inFlightMessages[k], Nil}
    BY <1>0, <1>8
       DEF Respond, FIN, REQ, TOUCH, Answer, popInFlightMessage, TypeOK, StoreType
  <2> QED  BY <2>1
<1>9. ASSUME NEW c \in Client, Handle(c), ~TouchPush(c)
      PROVE  inFlightMessages'[m] = inFlightMessages[m]
  BY <1>9 DEF Handle, AnswerPQ, AnswerCount, RequeueNow, RequeueDeferred, RequeueDeferredPQ,
              TouchAddPQ
<1>10. ASSUME NEW c \in Client, Pump(c), ~PumpPush(c)
       PROVE  inFlightMessages'[m] = inFlightMessages[m]
  BY <1>10 DEF Pump, PumpLoop, PumpExit, PumpMemory, PumpBackend, PumpAddPQ, PumpSend
<1> QED  BY <1>1, <1>3, <1>4, <1>5, <1>6, <1>7, <1>8, <1>9, <1>10

\* The entry of a message that stays in flight is taken by the scanner only.
LEMMA EntryStays ==
    ASSUME Quietly, Held, IndexInv, FinInv, Next, NEW p \in Ptr,
           inFlightMessages[IDOf(p)] = p, inFlightPQ[p] > 0
    PROVE  inFlightPQ'[p] > 0 \/ scan' = Hand("shifted", p)
<1>0. TypeOK /\ Pointers  BY DEF Quietly, Wf
<1>1. CASE UNCHANGED <<inFlightPQ, index>>  BY <1>1
<1>2. ASSUME NEW q \in Ptr, PQPush(q)  PROVE inFlightPQ'[p] > 0
  <2>1. inFlightPQ'[p] >= inFlightPQ[p]  BY <1>2, PushIndex DEF Quietly
  <2>2. inFlightPQ[p] \in Nat /\ inFlightPQ'[p] \in Nat
    BY <1>0, <1>2 DEF TypeOK, StoreType, PQPush
  <2> QED  BY <2>1, <2>2
<1>3. ASSUME NEW q \in Ptr, PQTake(q), ScanShift(q)
      PROVE  inFlightPQ'[p] > 0 \/ scan' = Hand("shifted", p)
  <2>1. CASE q = p  BY <1>3, <2>1 DEF ScanShift
  <2>2. CASE q # p  BY <1>3, <2>2, TakeIndex DEF Quietly
  <2> QED  BY <2>1, <2>2
<1>4. ASSUME NEW c \in Client, AnswerPQ(c), PQTake(io[c].ptr)  PROVE inFlightPQ'[p] > 0
  <2> DEFINE q == io[c].ptr
  <2>1. io[c].pc \in {"finPQ", "reqPQ", "touchPQ"} /\ q \in Ptr /\ IDOf(q) \in Msg
    BY <1>0, <1>4, PtrFacts DEF AnswerPQ, NextPC, Pointers
  <2>2. loc[IDOf(q)] # <<"inflight", Nil>>
    <3>1. CASE io[c].pc = "finPQ"
      BY <3>1 DEF FinInv
    <3>2. CASE io[c].pc \in {"reqPQ", "touchPQ"}
      <4>1. InIo(c, IDOf(q))  BY <3>2 DEF InIo, Holding
      <4> QED  BY <2>1, <4>1 DEF Held, IoLoc
    <3> QED  BY <2>1, <3>1, <3>2
  <2>3. q # p
    <3>1. p # Nil /\ IDOf(p) \in Msg  BY PtrFacts
    <3>2. loc[IDOf(p)] = <<"inflight", Nil>>  BY <3>1 DEF Held, InFlightLoc
    <3> QED  BY <2>2, <3>2
  <2> QED  BY <1>4, <2>1, <2>3, TakeIndex DEF Quietly
<1> QED  BY <1>1, <1>2, <1>3, <1>4, QueueSteps DEF QueueStep

\* The scanner that has shifted the entry of a message in flight pops it from the map.
LEMMA ShiftedStays ==
    ASSUME Quietly, Next, NEW p \in Ptr, scan = Hand("shifted", p),
           inFlightMessages[IDOf(p)] = p, inFlightMessages'[IDOf(p)] = p
    PROVE  scan' = scan
<1>0. TypeOK /\ Pointers  BY DEF Quietly, Wf
<1>1. p # Nil /\ IDOf(p) \in Msg /\ scan.pc = "shifted" /\ scan.ptr = p /\ scan # Idle
  BY PtrFacts DEF Hand, Idle
<1>2. Publish \/ Scan \/ \E c \in Client : Connection(c) \/ Respond(c) \/ Handle(c) \/ Pump(c)
  BY Steps DEF Quietly
<1>3. CASE Scan
  <2>1. ScanPop
    BY <1>1, <1>3
       DEF Scan, ScanRest, ScanShift, ScanTimedOut, ScanPut, ScanDeferredShift, ScanDeferredPop
  <2>2. Owns(clientID[p], IDOf(p))  BY <1>1 DEF Owns
  <2>3. popInFlightMessage(clientID[p], IDOf(p))
    BY <1>1, <2>1, <2>2 DEF ScanPop
  <2>4. inFlightMessages'[IDOf(p)] = Nil
    BY <1>0, <1>1, <2>3 DEF popInFlightMessage, TypeOK, StoreType
  <2> QED  BY <1>1, <2>4
<1>4. CASE ~Scan
  BY <1>2, <1>4
     DEF Publish, PutMessage, PutMessageDeferred, PutMessageDeferredPQ,
         Connection, SUB, RDY, CLS, ConnBreak, Disconnect, Respond, FIN, REQ, TOUCH, Answer,
         Handle, AnswerPQ, AnswerCount, RequeueNow, RequeueDeferred, RequeueDeferredPQ,
         TouchPush, TouchAddPQ,
         Pump, PumpLoop, PumpExit, PumpMemory, PumpBackend, PumpPush, PumpAddPQ, PumpSend
<1> QED  BY <1>3, <1>4

\* A pump or a handler that is about to push an entry does so.
LEMMA AboutToPush ==
    ASSUME Quietly, Next, NEW p \in Ptr, NEW c \in Client,
           pump[c] = Hand("addPQ", p) \/ io[c] = Hand("touchAddPQ", p)
    PROVE  \/ pump'[c] = Hand("addPQ", p) \/ io'[c] = Hand("touchAddPQ", p)
           \/ inFlightPQ'[p] > 0
<1>0. TypeOK /\ Pointers  BY DEF Quietly, Wf
<1>1. Publish \/ Scan \/ \E d \in Client : Connection(d) \/ Respond(d) \/ Handle(d) \/ Pump(d)
  BY Steps DEF Quietly
<1>2. CASE pump[c] = Hand("addPQ", p)
  <2>0. pump[c].pc = "addPQ" /\ pump[c].ptr = p  BY <1>2 DEF Hand
  <2>1. CASE pump'[c] = pump[c]  BY <1>2, <2>1
  <2>2. CASE pump'[c] # pump[c]
    <3>1. PICK d \in Client : Pump(d)
      BY <1>1, <2>2
         DEF Publish, PutMessage, PutMessageDeferred, PutMessageDeferredPQ,
             Scan, ScanRest, ScanShift, ScanPop, ScanTimedOut, ScanPut, ScanDeferredShift,
             ScanDeferredPop, Connection, SUB, RDY, CLS, ConnBreak, Disconnect,
             Respond, FIN, REQ, TOUCH, Answer, Handle, AnswerPQ, AnswerCount, RequeueNow,
             RequeueDeferred, RequeueDeferredPQ, TouchPush, TouchAddPQ
    <3>2. \E r : pump' = [pump EXCEPT ![d] = r]
      BY <1>0, <3>1
         DEF Pump, PumpLoop, PumpExit, PumpMemory, PumpBackend, PumpPush, PumpAddPQ, PumpSend,
             Arrive, TypeOK, HandType
    <3>3. d = c  BY <1>0, <2>2, <3>2 DEF TypeOK, HandType
    <3>4. PumpAddPQ(c)
      BY <2>0, <3>1, <3>3
         DEF Pump, PumpLoop, PumpExit, PumpMemory, PumpBackend, PumpPush, PumpSend
    <3> QED  BY <2>0, <3>4, PushIndex DEF PumpAddPQ, Quietly
  <2> QED  BY <2>1, <2>2
<1>3. CASE io[c] = Hand("touchAddPQ", p)
  <2>0. io[c].pc = "touchAddPQ" /\ io[c].ptr = p /\ io[c] # Idle  BY <1>3 DEF Hand, Idle
  <2>1. CASE io'[c] = io[c]  BY <1>3, <2>1
  <2>2. CASE io'[c] # io[c]
    <3>1. PICK d \in Client : Respond(d) \/ Handle(d)
      BY <1>1, <2>2
         DEF Publish, PutMessage, PutMessageDeferred, PutMessageDeferredPQ,
             Scan, ScanRest, ScanShift, ScanPop, ScanTimedOut, ScanPut, ScanDeferredShift,
             ScanDeferredPop, Connection, SUB, RDY, CLS, ConnBreak, Disconnect,
             Pump, PumpLoop, PumpExit, PumpMemory, PumpBackend, PumpPush, PumpAddPQ, PumpSend
    <3>2. d = c
      BY <1>0, <2>2, <3>1
         DEF Respond, FIN, REQ, TOUCH, Answer, Handle, AnswerPQ, AnswerCount, RequeueNow,
             RequeueDeferred, RequeueDeferredPQ, TouchPush, TouchAddPQ, TypeOK, HandType
    <3>3. TouchAddPQ(c)
      BY <2>0, <3>1, <3>2
         DEF Respond, FIN, REQ, TOUCH, Answer, Handle, AnswerPQ, AnswerCount, RequeueNow,
             RequeueDeferred, RequeueDeferredPQ, TouchPush, NextPC
    <3> QED  BY <2>0, <3>3, PushIndex DEF TouchAddPQ, Quietly
  <2> QED  BY <2>1, <2>2
<1> QED  BY <1>2, <1>3

LEMMA NextArmed ==
    ASSUME Quietly, Held, IndexInv, FinInv, Next, NEW m \in Msg, Armed(m)
    PROVE  Armed(m)'
<1> DEFINE p == inFlightMessages[m]
           q == inFlightMessages'[m]
<1>1. SUFFICES ASSUME q # Nil
               PROVE  \/ inFlightPQ'[q] > 0
                      \/ scan' = Hand("shifted", q)
                      \/ \E c \in Client : pump'[c] = Hand("addPQ", q)
                                             \/ io'[c] = Hand("touchAddPQ", q)
  BY DEF Armed
<1>2. CASE Enters(m)  BY <1>2 DEF Enters
<1>3. CASE q = p
  <2>1. p \in Ptr /\ IDOf(p) = m
    BY <1>1, <1>3 DEF Quietly, Wf, TypeOK, StoreType, Pointers
  <2>2. CASE inFlightPQ[p] > 0
    BY <1>3, <2>1, <2>2, EntryStays
  <2>3. CASE scan = Hand("shifted", p)
    BY <1>3, <2>1, <2>3, ShiftedStays
  <2>4. ASSUME NEW c \in Client, pump[c] = Hand("addPQ", p) \/ io[c] = Hand("touchAddPQ", p)
        PROVE  \/ inFlightPQ'[p] > 0
               \/ pump'[c] = Hand("addPQ", p) \/ io'[c] = Hand("touchAddPQ", p)
    BY <2>1, <2>4, AboutToPush
  <2>5. \/ inFlightPQ[p] > 0
        \/ scan = Hand("shifted", p)
        \/ \E c \in Client : pump[c] = Hand("addPQ", p) \/ io[c] = Hand("touchAddPQ", p)
    BY <1>1, <1>3 DEF Armed
  <2> HIDE DEF p, q
  <2> QED  BY <1>3, <2>2, <2>3, <2>4, <2>5
<1> QED  BY <1>1, <1>2, <1>3, MapStep

ResidentInv == Wf /\ Custody /\ RefInv /\ IndexInv /\ FinInv /\ TimeoutArmed

LEMMA InitResident == Init => ResidentInv
<1> SUFFICES ASSUME Init  PROVE ResidentInv
  OBVIOUS
<1>1. Wf /\ Custody  BY InitWf, InitCustody
<1>2. QueueRef  BY DEF Init, QueueRef
<1>3. MapRef /\ HandRef  BY DEF Init, MapRef, HandRef, Idle, Hand
<1>4. FinInv /\ IndexInv
  BY DEF Init, FinInv, IndexInv, RemovesOwnEntry, NextPC, Idle, Hand
<1>5. TimeoutArmed  BY DEF Init, TimeoutArmed
<1> QED  BY <1>1, <1>2, <1>3, <1>4, <1>5 DEF ResidentInv, RefInv

LEMMA NextResident == ResidentInv /\ Resident /\ Resident' /\ [Next]_vars => ResidentInv'
<1> SUFFICES ASSUME ResidentInv, Resident, Resident', [Next]_vars  PROVE ResidentInv'
  OBVIOUS
<1>1. Wf' /\ Custody' /\ RefInv'
  BY NextWf, NextCustody, NextRef DEF ResidentInv
<1>2. CASE Next
  <2>1. Quietly  BY <1>2, Steps DEF ResidentInv
  <2>2. Held /\ EndedKept
    BY <1>2, StepGood DEF ResidentInv, Custody, Good, Resident
  <2>3. IndexInv' /\ FinInv'
    BY <1>2, <2>1, <2>2, NextIndex, NextFin DEF ResidentInv
  <2>4. \A m \in Msg : Armed(m)  BY DEF ResidentInv, TimeoutArmed, Armed
  <2>5. \A m \in Msg : Armed(m)'
    BY <1>2, <2>1, <2>2, <2>4, NextArmed DEF ResidentInv
  <2>6. TimeoutArmed'  BY <2>5 DEF TimeoutArmed, Armed
  <2> QED  BY <1>1, <2>3, <2>6 DEF ResidentInv
<1>3. CASE UNCHANGED vars
  <2>1. IndexInv' /\ FinInv' /\ TimeoutArmed'
    BY <1>3 DEF vars, ResidentInv, IndexInv, RemovesOwnEntry, FinInv, TimeoutArmed, Pushed
  <2> QED  BY <1>1, <2>1 DEF ResidentInv
<1> QED  BY <1>2, <1>3

\* FIN, REQ and TOUCH remove the entry of their own message from inFlightPQ, and Remove()
\* is never called with the index of another entry or of none, as long as the channel is in
\* memory and is neither emptied nor closed.
THEOREM OwnEntryRemoved == Spec /\ []Resident => []RemovesOwnEntry
<1>1. ResidentInv => RemovesOwnEntry  BY DEF ResidentInv, IndexInv
<1> QED  BY <1>1, InitResident, NextResident, PTL DEF Spec

\* No message is stranded in the in-flight map without an entry that will time it out, be it
\* delivered, touched, requeued or timed out in any order, as long as the channel is in
\* memory and is neither emptied nor closed.
THEOREM NeverStranded == Spec /\ []Resident => []TimeoutArmed
<1>1. ResidentInv => TimeoutArmed  BY DEF ResidentInv
<1> QED  BY <1>1, InitResident, NextResident, PTL DEF Spec

-----------------------------------------------------------------------------
(* InFlightCount, on a channel that is not emptied and whose backend takes    *)
(* what it is given.                                                         *)

Owned(c) == {m \in Msg : Owns(c, m)}
IoDue(c) == Count(io[c].pc \notin {"idle", "touchAddPQ"})
ScanDue(c) == Count(scan.pc = "popped" /\ clientID[scan.ptr] = c)
PumpDue(c) == Count(pump[c].pc \in {"addPQ", "send"})

Exact(c) == InFlightCount[c] = Cardinality(Owned(c)) + IoDue(c) + ScanDue(c) - PumpDue(c)

OwnerInv ==
    \A c \in Client :
        /\ c \in clients <=> state[c] \in Serving
        /\ state[c] = "init" => InFlightCount[c] = 0 /\ \A p \in Ptr : clientID[p] # c
        /\ io[c].pc \in {"touchPQ", "touchPush"} => clientID[io[c].ptr] = c
CountInv == ext = "idle" => OwnerInv /\ \A c \in clients : Exact(c)

\* What a step has before it, when the count is to be exact after it.
Counting == /\ Wf /\ Held /\ ClientInv /\ OwnerInv /\ \A c \in clients : Exact(c)
            /\ emp = "idle" /\ emp' = "idle" /\ ext = "idle" /\ ext' = "idle" /\ ~MayFail

LEMMA OwnedCard ==
    ASSUME NEW c
    PROVE  IsFiniteSet(Owned(c)) /\ Cardinality(Owned(c)) \in Nat
<1>1. Owned(c) \subseteq Msg  BY DEF Owned
<1>2. IsFiniteSet(Owned(c))  BY <1>1, FS_Subset, ChannelAssumption
<1> QED  BY <1>2, FS_CardinalityType

LEMMA OwnedTake ==
    ASSUME Wf, NEW m \in Msg, NEW c, popInFlightMessage(c, m), UNCHANGED clientID,
           NEW d \in Client
    PROVE  /\ d # c => Owned(d)' = Owned(d)
           /\ d = c => Cardinality(Owned(d)') = Cardinality(Owned(d)) - 1
<1>1. inFlightMessages' = [inFlightMessages EXCEPT ![m] = Nil] /\ Owns(c, m)
  BY DEF popInFlightMessage
<1>2. inFlightMessages \in [Msg -> Ptr \cup {Nil}]  BY DEF Wf, TypeOK, StoreType
<1>3. \A k \in Msg : Owns(d, k)' <=> Owns(d, k) /\ k # m
  BY <1>1, <1>2 DEF Owns
<1>4. Owned(d)' = Owned(d) \ {m}  BY <1>3 DEF Owned
<1>5. CASE d # c
  <2>1. m \notin Owned(d)  BY <1>1, <1>5 DEF Owned, Owns
  <2> QED  BY <1>4, <1>5, <2>1
<1>6. CASE d = c
  <2>1. m \in Owned(d)  BY <1>1, <1>6 DEF Owned
  <2> QED  BY <1>4, <1>6, <2>1, OwnedCard, FS_RemoveElement
<1> QED  BY <1>5, <1>6

LEMMA OwnedPush ==
    ASSUME Wf, NEW p \in Ptr, NEW c \in Client, NEW d \in Client, pushInFlightMessage(p),
           clientID' = [clientID EXCEPT ![p] = c]
    PROVE  /\ d # c => Owned(d)' = Owned(d)
           /\ d = c => Cardinality(Owned(d)') = Cardinality(Owned(d)) + 1
<1> DEFINE m == IDOf(p)
<1>1. inFlightMessages[m] = Nil /\ inFlightMessages' = [inFlightMessages EXCEPT ![m] = p]
  BY DEF pushInFlightMessage
<1>2. /\ inFlightMessages \in [Msg -> Ptr \cup {Nil}] /\ clientID \in [Ptr -> Client \cup {Nil}]
      /\ m \in Msg /\ p # Nil
  BY PtrFacts DEF Wf, TypeOK, StoreType
<1>3. \A k \in Msg : k # m => inFlightMessages[k] # p
  BY <1>2 DEF Wf, Pointers
<1>4. \A k \in Msg : k # m => (Owns(d, k)' <=> Owns(d, k))
  BY <1>1, <1>2, <1>3 DEF Owns
<1>5. ~Owns(d, m) /\ (Owns(d, m)' <=> d = c)
  BY <1>1, <1>2 DEF Owns
<1>6. CASE d # c
  <2>1. \A k \in Msg : Owns(d, k)' <=> Owns(d, k)  BY <1>4, <1>5, <1>6
  <2> QED  BY <1>6, <2>1 DEF Owned
<1>7. CASE d = c
  <2>1. \A k \in Msg : Owns(d, k)' <=> Owns(d, k) \/ k = m  BY <1>4, <1>5, <1>7
  <2>2. Owned(d)' = Owned(d) \cup {m} /\ m \notin Owned(d)
    BY <1>2, <1>5, <2>1 DEF Owned
  <2> QED  BY <1>7, <2>2, OwnedCard, FS_AddElement
<1> QED  BY <1>6, <1>7

LEMMA SameOwned ==
    ASSUME UNCHANGED <<inFlightMessages, clientID>>, NEW d
    PROVE  Owned(d)' = Owned(d)
BY DEF Owned, Owns

LEMMA DueBits ==
    ASSUME NEW c
    PROVE  /\ IoDue(c) \in {0, 1} /\ ScanDue(c) \in {0, 1} /\ PumpDue(c) \in {0, 1}
           /\ IoDue(c)' \in {0, 1} /\ ScanDue(c)' \in {0, 1} /\ PumpDue(c)' \in {0, 1}
BY DEF IoDue, ScanDue, PumpDue, Count

\* The sum changes as its terms do.
LEMMA Balance ==
    ASSUME Wf, NEW d \in Client, Exact(d), NEW i \in Int, NEW o \in Int,
           InFlightCount'[d] = InFlightCount[d] + i,
           Cardinality(Owned(d)') = Cardinality(Owned(d)) + o,
           i = o + (IoDue(d)' - IoDue(d)) + (ScanDue(d)' - ScanDue(d))
                 - (PumpDue(d)' - PumpDue(d))
    PROVE  Exact(d)'
<1> DEFINE n == Cardinality(Owned(d))
           n1 == Cardinality(Owned(d)')
           a == IoDue(d)
           a1 == IoDue(d)'
           b == ScanDue(d)
           b1 == ScanDue(d)'
           e == PumpDue(d)
           e1 == PumpDue(d)'
           f == InFlightCount[d]
           f1 == InFlightCount'[d]
<1>1. n \in Nat  BY OwnedCard
<1>2. /\ a \in {0, 1} /\ a1 \in {0, 1} /\ b \in {0, 1} /\ b1 \in {0, 1}
      /\ e \in {0, 1} /\ e1 \in {0, 1}
  BY DueBits
<1>3. f = n + a + b - e  BY DEF Exact
<1>4. f1 = f + i /\ n1 = n + o /\ i = o + (a1 - a) + (b1 - b) - (e1 - e)  OBVIOUS
<1>5. SUFFICES f1 = n1 + a1 + b1 - e1  BY DEF Exact
<1> HIDE DEF n, n1, a, a1, b, b1, e, e1, f, f1
<1> QED  BY <1>1, <1>2, <1>3, <1>4

LEMMA SameExact ==
    ASSUME Wf, NEW d \in Client, Exact(d), InFlightCount'[d] = InFlightCount[d],
           Owned(d)' = Owned(d), IoDue(d)' = IoDue(d), ScanDue(d)' = ScanDue(d),
           PumpDue(d)' = PumpDue(d)
    PROVE  Exact(d)'
BY DEF Exact

LEMMA PublishCount ==
    ASSUME Counting, Publish, NEW d \in clients  PROVE Exact(d)'
<1>1. d \in Client /\ Exact(d) /\ Wf  BY DEF Counting, Wf, TypeOK, ConsumerType
<1>2. UNCHANGED <<InFlightCount, inFlightMessages, clientID, io, scan, pump>>
  BY DEF Publish, PutMessage, PutMessageDeferred, PutMessageDeferredPQ
<1>3. /\ IoDue(d)' = IoDue(d) /\ ScanDue(d)' = ScanDue(d) /\ PumpDue(d)' = PumpDue(d)
  BY <1>2 DEF IoDue, ScanDue, PumpDue
<1> QED  BY <1>1, <1>2, <1>3, SameOwned, SameExact

LEMMA ConnectionCount ==
    ASSUME Counting, NEW c \in Client, Connection(c), NEW d \in clients'  PROVE Exact(d)'
<1>0. Wf /\ TypeOK /\ Pointers /\ OwnerInv /\ ClientInv /\ d \in Client
  <2>1. Wf /\ TypeOK /\ Pointers /\ OwnerInv /\ ClientInv  BY DEF Counting, Wf
  <2> QED  BY <2>1 DEF Connection, SUB, RDY, CLS, ConnBreak, Disconnect, TypeOK, ConsumerType
<1>1. UNCHANGED <<InFlightCount, inFlightMessages, clientID, io, scan, pump>>
  BY DEF Connection, SUB, RDY, CLS, ConnBreak, Disconnect
<1>2. /\ IoDue(d)' = IoDue(d) /\ ScanDue(d)' = ScanDue(d) /\ PumpDue(d)' = PumpDue(d)
  BY <1>1 DEF IoDue, ScanDue, PumpDue
<1>3. CASE d \in clients
  <2>1. Exact(d)  BY <1>3 DEF Counting
  <2> QED  BY <1>0, <1>1, <1>2, <2>1, SameOwned, SameExact
<1>4. CASE d \notin clients
  <2>1. SUB(c) /\ d = c
    BY <1>4 DEF Connection, SUB, RDY, CLS, ConnBreak, Disconnect
  <2>2. state[d] = "init"  BY <2>1 DEF SUB
  <2>3. InFlightCount[d] = 0 /\ \A p \in Ptr : clientID[p] # d
    BY <1>0, <2>2 DEF OwnerInv
  <2>4. Owned(d) = {}
    <3>1. \A m \in Msg : inFlightMessages[m] # Nil => inFlightMessages[m] \in Ptr
      BY <1>0 DEF TypeOK, StoreType
    <3> QED  BY <2>3, <3>1 DEF Owned, Owns
  <2>5. Cardinality(Owned(d)') = 0
    BY <1>1, <2>4, SameOwned, FS_EmptySet
  <2>6. IoDue(d) = 0 /\ PumpDue(d) = 0
    BY <1>0, <2>2 DEF ClientInv, Serving, IoDue, PumpDue, Count, Idle, Hand
  <2>7. ScanDue(d) = 0
    BY <1>0, <2>3 DEF ScanDue, Count, Pointers
  <2> QED  BY <1>1, <1>2, <2>3, <2>5, <2>6, <2>7 DEF Exact
<1> QED  BY <1>3, <1>4

LEMMA RespondCount ==
    ASSUME Counting, NEW c \in Client, Respond(c), NEW d \in clients  PROVE Exact(d)'
<1>0. Wf /\ TypeOK /\ d \in Client /\ Exact(d)
  BY DEF Counting, Wf, TypeOK, ConsumerType
<1>1. PICK m \in Msg, pc \in {"finPQ", "reqPQ", "touchPQ"} : Answer(c, m, pc)
  BY DEF Respond, FIN, REQ, TOUCH
<1>2. /\ popInFlightMessage(c, m) /\ io[c] = Idle
      /\ io' = [io EXCEPT ![c] = Hand(pc, inFlightMessages[m])]
      /\ UNCHANGED <<clientID, InFlightCount, scan, pump>>
  BY <1>1 DEF Answer
<1>3. ScanDue(d)' = ScanDue(d) /\ PumpDue(d)' = PumpDue(d)
  BY <1>2 DEF ScanDue, PumpDue
<1>4. CASE d # c
  <2>1. IoDue(d)' = IoDue(d)
    BY <1>0, <1>2, <1>4 DEF IoDue, TypeOK, HandType
  <2> QED  BY <1>0, <1>2, <1>3, <1>4, <2>1, OwnedTake, SameExact
<1>5. CASE d = c
  <2>1. IoDue(d) = 0  BY <1>2, <1>5 DEF IoDue, Count, Idle, Hand
  <2>2. IoDue(d)' = 1
    BY <1>0, <1>2, <1>5 DEF IoDue, Count, Hand, TypeOK, HandType
  <2>3. Cardinality(Owned(d)') = Cardinality(Owned(d)) - 1  BY <1>0, <1>2, <1>5, OwnedTake
  <2>4. Cardinality(Owned(d)) \in Nat /\ InFlightCount[d] \in Int
    BY <1>0, OwnedCard DEF TypeOK, ConsumerType
  <2>5. Cardinality(Owned(d)') = Cardinality(Owned(d)) + (-1)
        /\ InFlightCount'[d] = InFlightCount[d] + 0
    BY <1>2, <2>3, <2>4
  <2>6. 0 = (-1) + (IoDue(d)' - IoDue(d)) + (ScanDue(d)' - ScanDue(d)) - (PumpDue(d)' - PumpDue(d))
    BY <1>3, <2>1, <2>2, DueBits
  <2>7. 0 \in Int /\ -1 \in Int  OBVIOUS
  <2> QED  BY <1>0, <2>5, <2>6, <2>7, Balance
<1> QED  BY <1>4, <1>5

LEMMA HandleCount ==
    ASSUME Counting, NEW c \in Client, Handle(c), NEW d \in clients  PROVE Exact(d)'
<1>0. Wf /\ TypeOK /\ d \in Client /\ Exact(d) /\ Pointers /\ OwnerInv /\ c \in Client
  BY DEF Counting, Wf, TypeOK, ConsumerType
<1>1. /\ UNCHANGED <<clientID, scan, pump>>
      /\ \E r : io' = [io EXCEPT ![c] = r]
  BY <1>0 DEF Handle, AnswerPQ, AnswerCount, RequeueNow, RequeueDeferred, RequeueDeferredPQ,
              TouchPush, TouchAddPQ, TypeOK, HandType
<1>2. ScanDue(d)' = ScanDue(d) /\ PumpDue(d)' = PumpDue(d)
  BY <1>1 DEF ScanDue, PumpDue
<1>3. d # c => IoDue(d)' = IoDue(d)
  BY <1>0, <1>1 DEF IoDue, TypeOK, HandType
<1>4. Cardinality(Owned(d)) \in Nat /\ InFlightCount[d] \in Int /\ 0 \in Int /\ 1 \in Int
      /\ -1 \in Int
  BY <1>0, OwnedCard DEF TypeOK, ConsumerType
<1>5. CASE AnswerPQ(c) \/ RequeueNow(c) \/ RequeueDeferred(c) \/ RequeueDeferredPQ(c)
             \/ TouchAddPQ(c)
  <2>1. UNCHANGED <<inFlightMessages, InFlightCount>>
    BY <1>5 DEF AnswerPQ, RequeueNow, RequeueDeferred, RequeueDeferredPQ, TouchAddPQ
  <2>2. IoDue(c)' = IoDue(c)
    <3>1. CASE AnswerPQ(c)
      <4>1. io[c].pc \in {"finPQ", "reqPQ", "touchPQ"} /\ io'[c].pc \in {"finCount", "reqPut", "touchPush"}
        BY <1>0, <3>1 DEF AnswerPQ, NextPC, TypeOK, HandType
      <4> QED  BY <4>1 DEF IoDue, Count
    <3>2. CASE RequeueNow(c)
      <4>1. ~PutFails(io[c].ptr)  BY DEF PutFails, Counting
      <4>2. io[c].pc = "reqPut" /\ io' = [io EXCEPT ![c].pc = "reqCount"]
        BY <3>2, <4>1 DEF RequeueNow, Counting, Exiting
      <4>3. io'[c].pc = "reqCount"  BY <1>0, <4>2 DEF TypeOK, HandType
      <4> QED  BY <4>2, <4>3 DEF IoDue, Count
    <3>3. CASE RequeueDeferred(c) \/ RequeueDeferredPQ(c)
      <4>1. io[c].pc \in {"reqPut", "reqDeferPQ"} /\ io'[c].pc \in {"reqDeferPQ", "reqCount"}
        BY <1>0, <3>3 DEF RequeueDeferred, RequeueDeferredPQ, TypeOK, HandType
      <4> QED  BY <4>1 DEF IoDue, Count
    <3>4. CASE TouchAddPQ(c)
      <4>1. io[c].pc = "touchAddPQ" /\ io'[c].pc = "idle"
        BY <1>0, <3>4 DEF TouchAddPQ, TypeOK, HandType, Idle, Hand
      <4> QED  BY <4>1 DEF IoDue, Count
    <3> QED  BY <1>5, <3>1, <3>2, <3>3, <3>4
  <2>3. IoDue(d)' = IoDue(d)  BY <1>3, <2>2
  <2> QED  BY <1>0, <1>1, <1>2, <2>1, <2>3, SameOwned, SameExact
<1>6. CASE AnswerCount(c)
  <2>1. UNCHANGED inFlightMessages /\ io[c].pc \in {"finCount", "reqCount"}
        /\ InFlightCount' = [InFlightCount EXCEPT ![c] = @ - 1] /\ io' = [io EXCEPT ![c] = Idle]
    BY <1>6 DEF AnswerCount
  <2>2. Owned(d)' = Owned(d)  BY <1>1, <2>1, SameOwned
  <2>3. CASE d # c
    BY <1>0, <1>2, <1>3, <2>1, <2>2, <2>3, SameExact DEF TypeOK, ConsumerType
  <2>4. CASE d = c
    <3>1. IoDue(d) = 1 /\ IoDue(d)' = 0
      BY <1>0, <2>1, <2>4 DEF IoDue, Count, Idle, Hand, TypeOK, HandType
    <3>2. InFlightCount'[d] = InFlightCount[d] + (-1)
      BY <1>0, <1>4, <2>1, <2>4 DEF TypeOK, ConsumerType
    <3>3. Cardinality(Owned(d)') = Cardinality(Owned(d)) + 0  BY <1>4, <2>2
    <3>4. -1 = 0 + (IoDue(d)' - IoDue(d)) + (ScanDue(d)' - ScanDue(d)) - (PumpDue(d)' - PumpDue(d))
      BY <1>2, <3>1, DueBits
    <3> QED  BY <1>0, <1>4, <3>2, <3>3, <3>4, Balance
  <2> QED  BY <2>3, <2>4
<1>7. CASE TouchPush(c)
  <2> DEFINE p == io[c].ptr
  <2>1. /\ io[c].pc = "touchPush" /\ pushInFlightMessage(p) /\ UNCHANGED InFlightCount
        /\ io' = [io EXCEPT ![c].pc = "touchAddPQ"]
    BY <1>7 DEF TouchPush
  <2>2. p \in Ptr /\ clientID[p] = c
    BY <1>0, <2>1 DEF Pointers, OwnerInv
  <2>3. clientID' = [clientID EXCEPT ![p] = c]
    BY <1>0, <1>1, <2>2 DEF TypeOK, StoreType
  <2>4. CASE d # c
    BY <1>0, <1>2, <1>3, <2>1, <2>2, <2>3, <2>4, OwnedPush, SameExact
  <2>5. CASE d = c
    <3>1. IoDue(d) = 1 /\ IoDue(d)' = 0
      BY <1>0, <2>1, <2>5 DEF IoDue, Count, TypeOK, HandType
    <3>2. Cardinality(Owned(d)') = Cardinality(Owned(d)) + 1
      BY <1>0, <2>1, <2>2, <2>3, <2>5, OwnedPush
    <3>3. InFlightCount'[d] = InFlightCount[d] + 0  BY <1>4, <2>1
    <3>4. 0 = 1 + (IoDue(d)' - IoDue(d)) + (ScanDue(d)' - ScanDue(d)) - (PumpDue(d)' - PumpDue(d))
      BY <1>2, <3>1, DueBits
    <3> QED  BY <1>0, <1>4, <3>2, <3>3, <3>4, Balance
  <2> QED  BY <2>4, <2>5
<1> QED  BY <1>5, <1>6, <1>7 DEF Handle

LEMMA PumpCount ==
    ASSUME Counting, NEW c \in Client, Pump(c), NEW d \in clients  PROVE Exact(d)'
<1>0. Wf /\ TypeOK /\ d \in Client /\ Exact(d) /\ Pointers /\ Held /\ c \in Client
  BY DEF Counting, Wf, TypeOK, ConsumerType
<1>1. UNCHANGED <<io, scan>> /\ \E r : pump' = [pump EXCEPT ![c] = r]
  BY <1>0
     DEF Pump, PumpLoop, PumpExit, PumpMemory, PumpBackend, PumpPush, PumpAddPQ, PumpSend,
         Arrive, TypeOK, HandType
<1>2. IoDue(d)' = IoDue(d)  BY <1>1 DEF IoDue
<1>3. d # c => PumpDue(d)' = PumpDue(d)
  BY <1>0, <1>1 DEF PumpDue, TypeOK, HandType
<1>4. Cardinality(Owned(d)) \in Nat /\ InFlightCount[d] \in Int /\ 0 \in Int /\ 1 \in Int
  BY <1>0, OwnedCard DEF TypeOK, ConsumerType
<1>5. UNCHANGED clientID => ScanDue(d)' = ScanDue(d)
  BY <1>1 DEF ScanDue
<1>6. CASE PumpLoop(c) \/ PumpExit(c) \/ PumpMemory(c) \/ PumpBackend(c) \/ PumpAddPQ(c)
  <2>1. UNCHANGED <<inFlightMessages, clientID, InFlightCount>>
    BY <1>6 DEF PumpLoop, PumpExit, PumpMemory, PumpBackend, PumpAddPQ
  <2>2. PumpDue(c)' = PumpDue(c)
    <3>1. CASE PumpAddPQ(c)
      <4>1. pump[c].pc = "addPQ" /\ pump'[c].pc = "send"
        BY <1>0, <3>1 DEF PumpAddPQ, TypeOK, HandType
      <4> QED  BY <4>1 DEF PumpDue, Count
    <3>2. CASE PumpLoop(c) \/ PumpExit(c) \/ PumpMemory(c) \/ PumpBackend(c)
      <4>1. pump[c].pc \in {"wait", "select"}
            /\ pump'[c].pc \in {"wait", "select", "exited", "push"}
        BY <1>0, <3>2
           DEF PumpLoop, PumpExit, PumpMemory, PumpBackend, Arrive, TypeOK, HandType, Hand
      <4> QED  BY <4>1 DEF PumpDue, Count
    <3> QED  BY <1>6, <3>1, <3>2
  <2>3. PumpDue(d)' = PumpDue(d)  BY <1>3, <2>2
  <2> QED  BY <1>0, <1>2, <1>5, <2>1, <2>3, SameOwned, SameExact
<1>7. CASE PumpPush(c)
  <2> DEFINE p == pump[c].ptr
  <2>1. /\ pump[c].pc = "push" /\ pushInFlightMessage(p) /\ UNCHANGED InFlightCount
        /\ clientID' = [clientID EXCEPT ![p] = c] /\ pump' = [pump EXCEPT ![c].pc = "addPQ"]
    BY <1>7 DEF PumpPush
  <2>2. p \in Ptr /\ IDOf(p) \in Msg
    BY <1>0, <2>1, PtrFacts DEF Pointers
  <2>3. ScanDue(d)' = ScanDue(d)
    <3>1. CASE scan.pc = "popped"
      <4>1. scan.ptr \in Ptr /\ IDOf(scan.ptr) \in Msg
        BY <1>0, <3>1, PtrFacts DEF Pointers
      <4>2. loc[IDOf(p)] = <<"pump", c>>
        BY <1>0, <2>1, <2>2 DEF Held, PumpLoc, InPump
      <4>3. loc[IDOf(scan.ptr)] = <<"scan", Nil>>
        BY <1>0, <3>1, <4>1 DEF Held, ScanLoc, InScan
      <4>4. scan.ptr # p  BY <4>2, <4>3
      <4>5. clientID'[scan.ptr] = clientID[scan.ptr]
        BY <1>0, <2>1, <4>1, <4>4 DEF TypeOK, StoreType
      <4> QED  BY <1>1, <4>5 DEF ScanDue
    <3>2. CASE scan.pc # "popped"
      BY <1>1, <3>2 DEF ScanDue, Count
    <3> QED  BY <3>1, <3>2
  <2>4. CASE d # c
    BY <1>0, <1>2, <1>3, <2>1, <2>2, <2>3, <2>4, OwnedPush, SameExact
  <2>5. CASE d = c
    <3>1. PumpDue(d) = 0 /\ PumpDue(d)' = 1
      BY <1>0, <2>1, <2>5 DEF PumpDue, Count, TypeOK, HandType
    <3>2. Cardinality(Owned(d)') = Cardinality(Owned(d)) + 1
      BY <1>0, <2>1, <2>2, <2>5, OwnedPush
    <3>3. InFlightCount'[d] = InFlightCount[d] + 0  BY <1>4, <2>1
    <3>4. 0 = 1 + (IoDue(d)' - IoDue(d)) + (ScanDue(d)' - ScanDue(d)) - (PumpDue(d)' - PumpDue(d))
      BY <1>2, <2>3, <3>1, DueBits
    <3> QED  BY <1>0, <1>4, <3>2, <3>3, <3>4, Balance
  <2> QED  BY <2>4, <2>5
<1>8. CASE PumpSend(c)
  <2>1. /\ pump[c].pc = "send" /\ UNCHANGED <<inFlightMessages, clientID>>
        /\ InFlightCount' = [InFlightCount EXCEPT ![c] = @ + 1]
        /\ \E pc \in {"wait", "exited"} : pump' = [pump EXCEPT ![c] = Hand(pc, Nil)]
    BY <1>8 DEF PumpSend
  <2>2. Owned(d)' = Owned(d)  BY <2>1, SameOwned
  <2>3. CASE d # c
    BY <1>0, <1>2, <1>3, <1>5, <2>1, <2>2, <2>3, SameExact DEF TypeOK, ConsumerType
  <2>4. CASE d = c
    <3>1. PumpDue(d) = 1 /\ PumpDue(d)' = 0
      BY <1>0, <2>1, <2>4 DEF PumpDue, Count, Hand, TypeOK, HandType
    <3>2. InFlightCount'[d] = InFlightCount[d] + 1
      BY <1>0, <2>1, <2>4 DEF TypeOK, ConsumerType
    <3>3. Cardinality(Owned(d)') = Cardinality(Owned(d)) + 0  BY <1>4, <2>2
    <3>4. 1 = 0 + (IoDue(d)' - IoDue(d)) + (ScanDue(d)' - ScanDue(d)) - (PumpDue(d)' - PumpDue(d))
      BY <1>2, <1>5, <2>1, <3>1, DueBits
    <3> QED  BY <1>0, <1>4, <3>2, <3>3, <3>4, Balance
  <2> QED  BY <2>3, <2>4
<1> QED  BY <1>6, <1>7, <1>8 DEF Pump

LEMMA ScanCount ==
    ASSUME Counting, Scan, NEW d \in clients  PROVE Exact(d)'
<1>0. Wf /\ TypeOK /\ d \in Client /\ Exact(d) /\ Pointers
  BY DEF Counting, Wf, TypeOK, ConsumerType
<1>1. UNCHANGED <<io, pump, clientID>>
  BY DEF Scan, ScanRest, ScanShift, ScanPop, ScanTimedOut, ScanPut, ScanDeferredShift,
         ScanDeferredPop
<1>2. IoDue(d)' = IoDue(d) /\ PumpDue(d)' = PumpDue(d)  BY <1>1 DEF IoDue, PumpDue
<1>3. Cardinality(Owned(d)) \in Nat /\ InFlightCount[d] \in Int /\ 0 \in Int /\ -1 \in Int
  BY <1>0, OwnedCard DEF TypeOK, ConsumerType
<1>4. ASSUME scan.pc # "popped", scan'.pc # "popped", UNCHANGED <<inFlightMessages, InFlightCount>>
      PROVE  Exact(d)'
  <2>1. ScanDue(d) = 0 /\ ScanDue(d)' = 0  BY <1>4 DEF ScanDue, Count
  <2> QED  BY <1>0, <1>1, <1>2, <1>4, <2>1, SameOwned, SameExact
<1>5. CASE (\E p \in Ptr : ScanShift(p) \/ ScanDeferredShift(p)) \/ ScanPut \/ ScanDeferredPop
  <2>1. scan.pc # "popped" /\ scan'.pc # "popped" /\ UNCHANGED <<inFlightMessages, InFlightCount>>
    BY <1>0, <1>5
       DEF ScanShift, ScanPut, ScanDeferredShift, ScanDeferredPop, Idle, Hand, TypeOK, HandType
  <2> QED  BY <1>4, <2>1
<1>6. CASE ScanPop
  <2> DEFINE m == IDOf(scan.ptr)
             c == clientID[scan.ptr]
  <2>1. scan.pc = "shifted" /\ scan.ptr \in Ptr /\ m \in Msg /\ UNCHANGED InFlightCount
    BY <1>0, <1>6, PtrFacts DEF ScanPop, Pointers
  <2>2. CASE ~popInFlightMessage(c, m)
    <3>1. scan'.pc # "popped" /\ UNCHANGED inFlightMessages
      BY <1>6, <2>2 DEF ScanPop, Idle, Hand
    <3> QED  BY <1>4, <2>1, <3>1
  <2>3. CASE popInFlightMessage(c, m)
    <3>1. scan' = [scan EXCEPT !.pc = "popped"]
      BY <1>6, <2>3 DEF ScanPop, popInFlightMessage
    <3>2. scan'.pc = "popped" /\ scan'.ptr = scan.ptr
      BY <1>0, <3>1 DEF TypeOK, HandType
    <3>4. ScanDue(d) = 0 /\ ScanDue(d)' = Count(c = d)
      BY <1>1, <2>1, <3>2 DEF ScanDue, Count
    <3>5. CASE d # c
      BY <1>0, <1>1, <1>2, <2>1, <2>3, <3>4, <3>5, OwnedTake, SameExact DEF Count
    <3>6. CASE d = c
      <4>1. Cardinality(Owned(d)') = Cardinality(Owned(d)) - 1
        BY <1>0, <1>1, <2>1, <2>3, <3>6, OwnedTake
      <4>2. Cardinality(Owned(d)') = Cardinality(Owned(d)) + (-1)
            /\ InFlightCount'[d] = InFlightCount[d] + 0
        BY <1>3, <2>1, <4>1
      <4>3. ScanDue(d)' = 1  BY <3>4, <3>6 DEF Count
      <4>4. 0 = (-1) + (IoDue(d)' - IoDue(d)) + (ScanDue(d)' - ScanDue(d))
                  - (PumpDue(d)' - PumpDue(d))
        BY <1>2, <3>4, <4>3, DueBits
      <4> QED  BY <1>0, <1>3, <4>2, <4>4, Balance
    <3> QED  BY <3>5, <3>6
  <2> QED  BY <2>2, <2>3
<1>7. CASE ScanTimedOut
  <2> DEFINE c == clientID[scan.ptr]
  <2>1. /\ scan.pc = "popped" /\ scan.ptr \in Ptr /\ UNCHANGED inFlightMessages
        /\ scan' = [scan EXCEPT !.pc = "put"]
        /\ InFlightCount' = IF c \in clients THEN [InFlightCount EXCEPT ![c] = @ - 1]
                                             ELSE InFlightCount
    BY <1>0, <1>7 DEF ScanTimedOut, Pointers
  <2>2. Owned(d)' = Owned(d)  BY <1>1, <2>1, SameOwned
  <2>3. scan'.pc = "put"  BY <1>0, <2>1 DEF TypeOK, HandType
  <2>4. ScanDue(d)' = 0 /\ ScanDue(d) = Count(c = d)
    BY <2>1, <2>3 DEF ScanDue, Count
  <2>5. CASE d # c
    <3>1. InFlightCount'[d] = InFlightCount[d]
      BY <1>0, <2>1, <2>5 DEF TypeOK, ConsumerType
    <3>2. ScanDue(d) = 0  BY <2>4, <2>5 DEF Count
    <3> QED  BY <1>0, <1>2, <2>2, <2>4, <3>1, <3>2, SameExact
  <2>6. CASE d = c
    <3>1. InFlightCount'[d] = InFlightCount[d] + (-1)
      BY <1>0, <1>3, <2>1, <2>6 DEF TypeOK, ConsumerType
    <3>2. ScanDue(d) = 1  BY <2>4, <2>6 DEF Count
    <3>3. Cardinality(Owned(d)') = Cardinality(Owned(d)) + 0  BY <1>3, <2>2
    <3>4. -1 = 0 + (IoDue(d)' - IoDue(d)) + (ScanDue(d)' - ScanDue(d)) - (PumpDue(d)' - PumpDue(d))
      BY <1>2, <2>4, <3>2, DueBits
    <3> QED  BY <1>0, <1>3, <3>1, <3>3, <3>4, Balance
  <2> QED  BY <2>5, <2>6
<1> QED  BY <1>5, <1>6, <1>7 DEF Scan, ScanRest

LEMMA NextOwner ==
    ASSUME Counting, Next  PROVE OwnerInv'
<1>0. Wf /\ TypeOK /\ Pointers /\ Held /\ ClientInv /\ OwnerInv
  BY DEF Counting, Wf
<1>1. Publish \/ Scan \/ \E c \in Client : Connection(c) \/ Respond(c) \/ Handle(c) \/ Pump(c)
  BY Working DEF Counting
<1>2. ASSUME UNCHANGED <<clients, state, InFlightCount, clientID, io>>  PROVE OwnerInv'
  BY <1>0, <1>2 DEF OwnerInv
<1>3. CASE Publish
  BY <1>2, <1>3 DEF Publish, PutMessage, PutMessageDeferred, PutMessageDeferredPQ
<1>4. CASE Scan
  <2>1. UNCHANGED <<clients, state, clientID, io>>
    BY <1>4 DEF Scan, ScanRest, ScanShift, ScanPop, ScanTimedOut, ScanPut, ScanDeferredShift,
                ScanDeferredPop
  <2>2. \A c \in Client : c \notin clients => InFlightCount'[c] = InFlightCount[c]
    BY <1>0, <1>4
       DEF Scan, ScanRest, ScanShift, ScanPop, ScanTimedOut, ScanPut, ScanDeferredShift,
           ScanDeferredPop, TypeOK, ConsumerType
  <2> QED  BY <1>0, <2>1, <2>2 DEF OwnerInv, Serving
<1>5. ASSUME NEW c \in Client, Connection(c)  PROVE OwnerInv'
  <2>1. UNCHANGED <<InFlightCount, clientID, io>>
    BY <1>5 DEF Connection, SUB, RDY, CLS, ConnBreak, Disconnect
  <2>2. \A d \in Client : /\ d \in clients' <=> state'[d] \in Serving
                          /\ state'[d] = "init" => state[d] = "init"
    BY <1>0, <1>5
       DEF Connection, SUB, RDY, CLS, ConnBreak, Disconnect, OwnerInv, Serving, TypeOK,
           ConsumerType
  <2> QED  BY <1>0, <2>1, <2>2 DEF OwnerInv
<1>6. ASSUME NEW c \in Client, Respond(c)  PROVE OwnerInv'
  <2>1. PICK m \in Msg, pc \in {"finPQ", "reqPQ", "touchPQ"} : Answer(c, m, pc)
    BY <1>6 DEF Respond, FIN, REQ, TOUCH
  <2>2. /\ UNCHANGED <<clients, state, InFlightCount, clientID>> /\ Owns(c, m)
        /\ io' = [io EXCEPT ![c] = Hand(pc, inFlightMessages[m])]
    BY <2>1 DEF Answer, popInFlightMessage
  <2>3. \A d \in Client : d # c => io'[d] = io[d]
    BY <1>0, <2>2 DEF TypeOK, HandType
  <2>4. clientID'[io'[c].ptr] = c
    BY <1>0, <2>2 DEF TypeOK, HandType, Hand, Owns
  <2> QED  BY <1>0, <2>2, <2>3, <2>4 DEF OwnerInv
<1>7. ASSUME NEW c \in Client, Handle(c)  PROVE OwnerInv'
  <2>1. UNCHANGED <<clients, state, clientID>>
    BY <1>7 DEF Handle, AnswerPQ, AnswerCount, RequeueNow, RequeueDeferred, RequeueDeferredPQ,
                TouchPush, TouchAddPQ
  <2>2. state[c] # "init"
    <3>1. io[c].pc # "idle"
      BY <1>7 DEF Handle, AnswerPQ, AnswerCount, RequeueNow, RequeueDeferred, RequeueDeferredPQ,
                  TouchPush, TouchAddPQ, NextPC
    <3> QED  BY <1>0, <3>1 DEF ClientInv, Serving, Idle, Hand
  <2>3. \A d \in Client : d # c => io'[d] = io[d] /\ InFlightCount'[d] = InFlightCount[d]
    BY <1>0, <1>7
       DEF Handle, AnswerPQ, AnswerCount, RequeueNow, RequeueDeferred, RequeueDeferredPQ,
           TouchPush, TouchAddPQ, TypeOK, HandType, ConsumerType
  <2>4. io'[c].pc \in {"touchPQ", "touchPush"} => io[c].pc = "touchPQ" /\ io'[c].ptr = io[c].ptr
    BY <1>0, <1>7
       DEF Handle, AnswerPQ, AnswerCount, RequeueNow, RequeueDeferred, RequeueDeferredPQ,
           TouchPush, TouchAddPQ, TypeOK, HandType, NextPC, Idle, Hand
  <2> QED  BY <1>0, <2>1, <2>2, <2>3, <2>4 DEF OwnerInv
<1>8. ASSUME NEW c \in Client, Pump(c)  PROVE OwnerInv'
  <2>1. UNCHANGED <<clients, state, io>>
    BY <1>8 DEF Pump, PumpLoop, PumpExit, PumpMemory, PumpBackend, PumpPush, PumpAddPQ, PumpSend
  <2>2. CASE PumpPush(c)
    <3> DEFINE p == pump[c].ptr
    <3>1. /\ pump[c].pc = "push" /\ clientID' = [clientID EXCEPT ![p] = c]
          /\ UNCHANGED InFlightCount
      BY <2>2 DEF PumpPush
    <3>2. p \in Ptr /\ IDOf(p) \in Msg /\ state[c] # "init"
      BY <1>0, <3>1, PtrFacts DEF Pointers, ClientInv
    <3>3. \A q \in Ptr : clientID'[q] \in {clientID[q], c} /\ (q # p => clientID'[q] = clientID[q])
      BY <1>0, <3>1, <3>2 DEF TypeOK, StoreType
    <3>4. ASSUME NEW d \in Client, io[d].pc \in {"touchPQ", "touchPush"}
          PROVE  clientID'[io[d].ptr] = d
      <4>1. io[d].ptr \in Ptr /\ IDOf(io[d].ptr) \in Msg
        BY <1>0, <3>4, PtrFacts DEF Pointers
      <4>2. loc[IDOf(io[d].ptr)] = <<"io", d>>
        BY <1>0, <3>4, <4>1 DEF Held, IoLoc, InIo, Holding
      <4>3. loc[IDOf(p)] = <<"pump", c>>
        BY <1>0, <3>1, <3>2 DEF Held, PumpLoc, InPump
      <4>4. io[d].ptr # p  BY <4>2, <4>3
      <4> QED  BY <1>0, <3>3, <3>4, <4>1, <4>4 DEF OwnerInv
    <3>5. \A d \in Client : state[d] = "init" => \A q \in Ptr : clientID'[q] # d
      BY <1>0, <3>2, <3>3 DEF OwnerInv
    <3> QED  BY <1>0, <2>1, <3>1, <3>4, <3>5 DEF OwnerInv
  <2>3. CASE PumpSend(c)
    <3>1. state[c] # "init" /\ UNCHANGED clientID
      BY <1>0, <2>3 DEF PumpSend, ClientInv
    <3>2. \A d \in Client : d # c => InFlightCount'[d] = InFlightCount[d]
      BY <1>0, <2>3 DEF PumpSend, TypeOK, ConsumerType
    <3> QED  BY <1>0, <2>1, <3>1, <3>2 DEF OwnerInv
  <2>4. CASE PumpLoop(c) \/ PumpExit(c) \/ PumpMemory(c) \/ PumpBackend(c) \/ PumpAddPQ(c)
    BY <1>2, <2>1, <2>4 DEF PumpLoop, PumpExit, PumpMemory, PumpBackend, PumpAddPQ
  <2> QED  BY <1>8, <2>2, <2>3, <2>4 DEF Pump
<1> QED  BY <1>1, <1>3, <1>4, <1>5, <1>6, <1>7, <1>8

LEMMA NextCount ==
    ASSUME ~MayFail
    PROVE  /\ (Wf /\ Custody /\ ClientInv /\ CountInv)
           /\ emp = "idle" /\ (emp = "idle")' /\ [Next]_vars
           => CountInv'
<1> SUFFICES ASSUME Wf, Custody, ClientInv, CountInv, emp = "idle", emp' = "idle",
                    [Next]_vars, ext' = "idle"
             PROVE  OwnerInv' /\ \A d \in clients' : Exact(d)'
  BY DEF CountInv
<1>1. CASE UNCHANGED vars
  BY <1>1 DEF vars, CountInv, OwnerInv, Exact, Owned, Owns, IoDue, ScanDue, PumpDue
<1>2. CASE Next
  <2>1. ext = "idle" /\ Good  BY <1>2, StepGood
  <2>2. Counting
    BY <2>1 DEF Custody, CountInv, Counting, Good
  <2>3. OwnerInv'  BY <1>2, <2>2, NextOwner
  <2>4. ASSUME NEW d \in clients'  PROVE Exact(d)'
    <3>1. Publish \/ Scan \/ \E c \in Client : Connection(c) \/ Respond(c) \/ Handle(c) \/ Pump(c)
      BY <1>2, <2>1, Working
    <3>2. ASSUME NEW c \in Client, Connection(c)  PROVE Exact(d)'
      BY <2>2, <2>4, <3>2, ConnectionCount
    <3>3. CASE UNCHANGED clients
      <4>1. d \in clients  BY <2>4, <3>3
      <4> QED
        BY <2>2, <3>1, <3>2, <4>1, PublishCount, ScanCount, RespondCount, HandleCount, PumpCount
    <3>4. CASE ~UNCHANGED clients
      <4>1. \E c \in Client : Connection(c)
        BY <3>1, <3>4
           DEF Publish, PutMessage, PutMessageDeferred, PutMessageDeferredPQ,
               Scan, ScanRest, ScanShift, ScanPop, ScanTimedOut, ScanPut, ScanDeferredShift,
               ScanDeferredPop, Respond, FIN, REQ, TOUCH, Answer, Handle, AnswerPQ, AnswerCount,
               RequeueNow, RequeueDeferred, RequeueDeferredPQ, TouchPush, TouchAddPQ,
               Pump, PumpLoop, PumpExit, PumpMemory, PumpBackend, PumpPush, PumpAddPQ, PumpSend
      <4> QED  BY <3>2, <4>1
    <3> QED  BY <3>3, <3>4
  <2> QED  BY <2>3, <2>4
<1> QED  BY <1>1, <1>2

LEMMA InitCount == Init => ClientInv /\ CountInv
<1> SUFFICES ASSUME Init  PROVE ClientInv /\ CountInv
  OBVIOUS
<1>1. ClientInv  BY DEF Init, ClientInv, Idle, Hand
<1>2. OwnerInv
  BY ChannelAssumption DEF Init, OwnerInv, Serving, Idle, Hand
<1>3. clients = {}  BY DEF Init
<1> QED  BY <1>1, <1>2, <1>3 DEF CountInv

\* The InFlightCount of a connected client, on which IsReadyForMessages decides, is the
\* number of messages the channel holds in flight for it, up to the SendingMessage,
\* FinishedMessage, RequeuedMessage or TimedOutMessage that is under way, through every
\* interleaving of deliveries, answers and time-outs, as long as the channel is not emptied
\* and no write to the backend fails.
THEOREM CountIsExact ==
    ASSUME ~MayFail
    PROVE  Spec /\ [](emp = "idle") => []CountExact
<1> DEFINE I == Wf /\ Custody /\ ClientInv /\ CountInv
<1>1. Init => I  BY InitWf, InitCustody, InitCount
<1>2. I /\ emp = "idle" /\ (emp = "idle")' /\ [Next]_vars => I'
  BY NextWf, NextCustody, NextClient, NextCount
<1>3. I => CountExact
  BY DEF CountInv, CountExact, Exact, Owned, IoDue, ScanDue, PumpDue, Exiting
<1> HIDE DEF I
<1> QED  BY <1>1, <1>2, <1>3, PTL DEF Spec
=============================================================================
