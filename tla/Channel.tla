------------------------------ MODULE Channel ------------------------------
(***************************************************************************)
(* One nsqd channel (nsqd/channel.go) and the goroutines that share it:    *)
(*                                                                         *)
(*   pub      the topic's messagePump: PutMessage, PutMessageDeferred      *)
(*   io[c]    client c's IOLoop: SUB, RDY, FIN, REQ, TOUCH, CLS, disconnect *)
(*   pump[c]  client c's messagePump (nsqd/protocol_v2.go)                 *)
(*   scan     the queueScanWorker that has the channel: at most one has    *)
(*   emp      an HTTP /channel/empty, or the Empty() of a deletion         *)
(*   ext      Close() or Delete()                                          *)
(*                                                                         *)
(* A step is what one goroutine does between two points where another can  *)
(* interfere: one critical section of inFlightMutex or deferredMutex, one  *)
(* channel send or receive, one atomic counter update.                     *)
(*                                                                         *)
(* Time is abstracted: an entry of a priority queue may be due whenever    *)
(* the scanner looks.  A priority queue is the bag of its entries; for the *)
(* in-flight queue each Message also has the abstract value of its index   *)
(* field, which removeFromInFlightPQ trusts.                               *)
(***************************************************************************)
EXTENDS Integers, Sequences, FiniteSets

CONSTANTS
    Msg,            \* message IDs
    Client,         \* client IDs
    Copies,         \* bound: Message objects per ID that can coexist
    Nil,            \* the nil *Message
    MemQueueSize,   \* capacity of memoryMsgChan
    MaxAttempts,    \* bound: deliveries of one message
    MaxRdy,         \* bound: the largest RDY count a client asks for
    MaxTouches,     \* bound: TOUCH commands in a run
    MaxEmpties,     \* bound: /channel/empty requests in a run
    MayFail,        \* TRUE: a write to the backend may fail
    MaySample,      \* TRUE: clients asked for a sample_rate
    ExitKinds       \* subset of {"close", "delete"}: how the channel may exit

ASSUME ChannelAssumption ==
    /\ IsFiniteSet(Msg)
    /\ Copies \in Nat \ {0}
    /\ MemQueueSize \in Nat \ {0}
    /\ MaxRdy \in Nat \ {0}
    /\ MaxAttempts \in Nat
    /\ MaxTouches \in Nat
    /\ MaxEmpties \in Nat
    /\ MayFail \in BOOLEAN
    /\ MaySample \in BOOLEAN
    /\ ExitKinds \subseteq {"close", "delete"}
    /\ Nil \notin Msg \X (1 .. Copies)
    /\ Nil \notin Client

\* A *Message: two decodes of one ID are two objects.
Ptr == Msg \X (1 .. Copies)
IDOf(p) == p[1]

\* Message.index: -1; 0 because never pushed; the entry's position; a
\* position in a queue that Empty() has replaced.
Index == {"none", "fresh", "in", "stale"}

IoPC == {"idle", "finPQ", "finCount", "reqPQ", "reqPut", "reqDeferPQ",
         "reqCount", "touchPQ", "touchPush", "touchAddPQ"}
PumpPC == {"wait", "select", "push", "addPQ", "send", "exited"}
ScanPC == {"idle", "shifted", "popped", "put", "deferred"}

\* Where a message can be, and those places that are the end of it.
Ended == {"new", "refused", "finished", "dropped", "lost"}
Place == Ended \cup {"memory", "backend", "inflight", "deferred",
                     "pump", "io", "scan"}

VARIABLES
    memoryMsgChan, backend,
    inFlightMessages, inFlightPQ, index, clientID,
    deferredMessages, deferredPQ,
    state, conn, clients, ReadyCount, InFlightCount, received,
    pub, io, pump, scan, emp, ext,
    panicked, Attempts, touches, empties,
    quiet,          \* history: no consumer has taken part since exit() began
    loc             \* history: where each message is, <<Place, holder>>

queueVars    == <<memoryMsgChan, backend>>
inFlightVars == <<inFlightMessages, inFlightPQ, index, clientID>>
deferredVars == <<deferredMessages, deferredPQ>>
storeVars    == <<queueVars, inFlightVars, deferredVars>>
clientVars   == <<state, conn, clients, ReadyCount>>
consumerVars == <<clientVars, InFlightCount, received>>
boundVars    == <<touches, empties, quiet>>
auxVars      == <<panicked, Attempts, boundVars>>
goroutines   == <<pub, io, pump, scan>>
actors       == <<goroutines, emp, ext>>
ioOthers     == <<pub, pump, scan, emp, ext>>
pumpOthers   == <<pub, io, scan, emp, ext>>
scanOthers   == <<pub, io, pump, emp, ext>>
vars == <<storeVars, consumerVars, actors, auxVars, loc>>

-----------------------------------------------------------------------------
Hand(pc, p) == [pc |-> pc, ptr |-> p]
Idle == Hand("idle", Nil)

Init ==
    /\ memoryMsgChan = << >>
    /\ backend = << >>
    /\ inFlightMessages = [m \in Msg |-> Nil]
    /\ inFlightPQ = [p \in Ptr |-> 0]
    /\ index = [p \in Ptr |-> "fresh"]
    /\ clientID = [p \in Ptr |-> Nil]
    /\ deferredMessages = [m \in Msg |-> Nil]
    /\ deferredPQ = [p \in Ptr |-> 0]
    /\ state = [c \in Client |-> "init"]
    /\ conn = Client
    /\ clients = {}
    /\ ReadyCount = [c \in Client |-> 0]
    /\ InFlightCount = [c \in Client |-> 0]
    /\ received = [c \in Client |-> {}]
    /\ pub = Idle
    /\ io = [c \in Client |-> Idle]
    /\ pump = [c \in Client |-> Hand("wait", Nil)]
    /\ scan = Idle
    /\ emp = "idle"
    /\ ext = "idle"
    /\ panicked = FALSE
    /\ Attempts = [m \in Msg |-> 0]
    /\ touches = 0
    /\ empties = 0
    /\ quiet = FALSE
    /\ loc = [m \in Msg |-> <<"new", Nil>>]

Exiting == ext # "idle"
\* Channel.RWMutex is write-locked by Empty(); exitMutex is by exit().
Locked == emp # "idle"
ExitLocked == ext \notin {"idle", "closed", "deleted"}

\* The stages of Delete() after the clients' connections are closed.
Deleting == {"delete", "empty", "emptying", "deleted"}

At(m, place, who) == loc' = [loc EXCEPT ![m] = <<place, who>>]

-----------------------------------------------------------------------------
(* put(): the memory channel if it has room, else the backend, whose write *)
(* may fail, and fails once the backend is closed.                         *)

\* Mutant: one message too many in the memory channel.
Mut_PutOK(p) ==
    /\ Len(memoryMsgChan) <= MemQueueSize
    /\ memoryMsgChan' = Append(memoryMsgChan, p)
    /\ At(IDOf(p), "memory", Nil)
    /\ UNCHANGED backend

PutOK(p) ==
    IF Len(memoryMsgChan) < MemQueueSize
      THEN /\ memoryMsgChan' = Append(memoryMsgChan, p)
           /\ UNCHANGED backend
           /\ At(IDOf(p), "memory", Nil)
      ELSE /\ ext \notin {"closed", "deleted"}
           /\ backend' = Append(backend, IDOf(p))
           /\ UNCHANGED memoryMsgChan
           /\ At(IDOf(p), "backend", Nil)

PutFails(p) ==
    /\ Len(memoryMsgChan) = MemQueueSize
    /\ MayFail \/ ext \in {"closed", "deleted"}
    /\ UNCHANGED queueVars

-----------------------------------------------------------------------------
(* inFlightPqueue as a bag.  Swap() rewrites the index of every entry it   *)
(* moves, so after any operation on the queue a Message with an entry in   *)
(* it may have got a correct index again, except x, which the operation    *)
(* itself leaves with the index it has in idx.                             *)

Reindexed(pq, idx, x) ==
    {[p \in Ptr |-> IF p \in S THEN "in" ELSE idx[p]] :
        S \in SUBSET {p \in Ptr \ {x} : pq[p] > 0 /\ idx[p] # "in"}}

PQPush(p) ==
    /\ inFlightPQ' = [inFlightPQ EXCEPT ![p] = @ + 1]
    /\ index' \in Reindexed(inFlightPQ', [index EXCEPT ![p] = "in"], p)

\* Mutant: the popped Message keeps its index.
Mut_PQTake(p) ==
    /\ inFlightPQ[p] > 0
    /\ inFlightPQ' = [inFlightPQ EXCEPT ![p] = @ - 1]
    /\ index' \in Reindexed(inFlightPQ', [index EXCEPT ![p] = "stale"], p)

PQTake(p) ==
    /\ inFlightPQ[p] > 0
    /\ inFlightPQ' = [inFlightPQ EXCEPT ![p] = @ - 1]
    /\ index' \in Reindexed(inFlightPQ', [index EXCEPT ![p] = "none"], p)

\* Remove(msg.index): position 0 is whatever is at the head, and an index
\* from a discarded queue is any entry or is out of range.
removeFromInFlightPQ(p) ==
    \/ /\ index[p] = "none"
       /\ UNCHANGED <<inFlightPQ, index, panicked>>
    \/ /\ index[p] = "in"
       /\ PQTake(p)
       /\ UNCHANGED panicked
    \/ /\ index[p] \in {"fresh", "stale"}
       /\ \E q \in Ptr : PQTake(q)
       /\ UNCHANGED panicked
    \/ /\ \/ index[p] = "fresh" /\ \A q \in Ptr : inFlightPQ[q] = 0
          \/ index[p] = "stale"
       /\ panicked' = TRUE
       /\ UNCHANGED <<inFlightPQ, index>>

\* Mutant: any client may answer for any message.
Mut_Owns(c, m) == inFlightMessages[m] # Nil

\* popInFlightMessage(clientID, id) would succeed / has succeeded.
Owns(c, m) ==
    /\ inFlightMessages[m] # Nil
    /\ clientID[inFlightMessages[m]] = c

\* Mutant: the message stays in the map.
Mut_popInFlightMessage(c, m) == Owns(c, m) /\ UNCHANGED inFlightMessages

popInFlightMessage(c, m) ==
    /\ Owns(c, m)
    /\ inFlightMessages' = [inFlightMessages EXCEPT ![m] = Nil]

\* Objects some goroutine or structure still refers to.
Referenced(p) ==
    \/ \E i \in 1 .. Len(memoryMsgChan) : memoryMsgChan[i] = p
    \/ inFlightPQ[p] > 0
    \/ inFlightMessages[IDOf(p)] = p
    \/ deferredPQ[p] > 0
    \/ deferredMessages[IDOf(p)] = p
    \/ \E c \in Client : io[c].ptr = p \/ pump[c].ptr = p
    \/ scan.ptr = p
    \/ pub.ptr = p

\* A new object for m (NewMessage, decodeMessage); at most one, the choice
\* between objects nobody refers to being immaterial.
Fresh(m) ==
    {p \in Ptr : /\ IDOf(p) = m
                 /\ ~Referenced(p)
                 /\ \A k \in 1 .. p[2] - 1 : Referenced(<<m, k>>)}

-----------------------------------------------------------------------------
(* The topic's messagePump.  It hands the channel a new Message object.    *)

\* PutMessage: the RLock is held throughout, so Empty() is not under way.
PutMessage(m) ==
    /\ pub = Idle /\ loc[m] = <<"new", Nil>>
    /\ ~Locked /\ ~Exiting
    /\ \E p \in Fresh(m) :
        \/ PutOK(p)
        \/ PutFails(p) /\ At(m, "refused", Nil)
    /\ UNCHANGED <<inFlightVars, deferredVars, consumerVars, actors,
                   auxVars>>

\* pushDeferredMessage, the first half of StartDeferredTimeout.
pushDeferredMessage(p) ==
    /\ deferredMessages[IDOf(p)] = Nil
    /\ deferredMessages' = [deferredMessages EXCEPT ![IDOf(p)] = p]
    /\ At(IDOf(p), "deferred", Nil)

addToDeferredPQ(p) == deferredPQ' = [deferredPQ EXCEPT ![p] = @ + 1]

\* PutMessageDeferred: neither Exiting() nor the RWMutex is consulted.  (The
\* topic closes its channels only after its own messagePump has returned.)
PutMessageDeferred(m) ==
    /\ pub = Idle /\ loc[m] = <<"new", Nil>>
    /\ ext = "idle" \/ ext \in Deleting
    /\ \E p \in Fresh(m) :
        /\ pushDeferredMessage(p)
        /\ pub' = Hand("addPQ", p)
    /\ UNCHANGED <<queueVars, inFlightVars, deferredPQ, consumerVars, io,
                   pump, scan, emp, ext, auxVars>>

PutMessageDeferredPQ ==
    /\ pub.pc = "addPQ"
    /\ addToDeferredPQ(pub.ptr)
    /\ pub' = Idle
    /\ UNCHANGED <<queueVars, inFlightVars, deferredMessages, consumerVars,
                   io, pump, scan, emp, ext, auxVars, loc>>

-----------------------------------------------------------------------------
(* A client's IOLoop.  Commands that are refused change nothing.           *)

\* AddClient, then the pump is told of the channel.
SUB(c) ==
    /\ io[c] = Idle /\ state[c] = "init" /\ c \in conn
    /\ ~Locked
    /\ clients' = clients \cup {c}
    /\ state' = [state EXCEPT ![c] = "subscribed"]
    /\ quiet' = FALSE
    /\ UNCHANGED <<storeVars, conn, ReadyCount, InFlightCount, received,
                   actors, panicked, Attempts, touches, empties, loc>>

RDY(c, n) ==
    /\ io[c] = Idle /\ state[c] = "subscribed" /\ ReadyCount[c] # n
    /\ ReadyCount' = [ReadyCount EXCEPT ![c] = n]
    /\ UNCHANGED <<storeVars, state, conn, clients, InFlightCount, received,
                   actors, auxVars, loc>>

\* StartClose
CLS(c) ==
    /\ io[c] = Idle /\ state[c] = "subscribed"
    /\ ReadyCount' = [ReadyCount EXCEPT ![c] = 0]
    /\ state' = [state EXCEPT ![c] = "closing"]
    /\ UNCHANGED <<storeVars, conn, clients, InFlightCount, received,
                   actors, auxVars, loc>>

\* The peer goes away, or two heartbeats pass in silence.
ConnBreak(c) ==
    /\ c \in conn /\ state[c] # "init"
    /\ conn' = conn \ {c}
    /\ UNCHANGED <<storeVars, state, clients, ReadyCount, InFlightCount,
                   received, actors, auxVars, loc>>

\* The end of IOLoop: ExitChan is closed and RemoveClient is called.  What
\* the client had in flight stays there until it times out.
Disconnect(c) ==
    /\ io[c] = Idle /\ c \notin conn /\ state[c] \in {"subscribed", "closing"}
    /\ ~Locked
    /\ state' = [state EXCEPT ![c] = "gone"]
    /\ clients' = clients \ {c}
    /\ UNCHANGED <<storeVars, conn, ReadyCount, InFlightCount, received,
                   actors, auxVars, loc>>

\* FIN, REQ and TOUCH start alike: the message is taken out of the in-flight
\* map if this client owns it.  The client answers what it received, be it
\* late, and be it answered before.
Answer(c, m, pc) ==
    /\ io[c] = Idle /\ state[c] \in {"subscribed", "closing"}
    /\ m \in received[c]
    /\ popInFlightMessage(c, m)
    /\ io' = [io EXCEPT ![c] = Hand(pc, inFlightMessages[m])]
    /\ UNCHANGED <<queueVars, inFlightPQ, index, clientID, deferredVars,
                   consumerVars, ioOthers, panicked, Attempts, empties,
                   quiet>>

FIN(c, m) ==
    /\ Answer(c, m, "finPQ")
    /\ At(m, "finished", Nil)
    /\ UNCHANGED touches

REQ(c, m) ==
    /\ Answer(c, m, "reqPQ")
    /\ At(m, "io", c)
    /\ UNCHANGED touches

TOUCH(c, m) ==
    /\ touches < MaxTouches
    /\ Answer(c, m, "touchPQ")
    /\ At(m, "io", c)
    /\ touches' = touches + 1

\* The three handlers then remove the message's own entry from the queue.
NextPC == [finPQ |-> "finCount", reqPQ |-> "reqPut", touchPQ |-> "touchPush"]

AnswerPQ(c) ==
    /\ io[c].pc \in DOMAIN NextPC
    /\ removeFromInFlightPQ(io[c].ptr)
    /\ io' = [io EXCEPT ![c].pc = NextPC[@]]
    /\ UNCHANGED <<queueVars, inFlightMessages, clientID, deferredVars,
                   consumerVars, ioOthers, Attempts, boundVars, loc>>

\* FinishedMessage, RequeuedMessage
AnswerCount(c) ==
    /\ io[c].pc \in {"finCount", "reqCount"}
    /\ InFlightCount' = [InFlightCount EXCEPT ![c] = @ - 1]
    /\ io' = [io EXCEPT ![c] = Idle]
    /\ UNCHANGED <<storeVars, clientVars, received, ioOthers, auxVars, loc>>

\* RequeueMessage with timeout 0, under exitMutex.RLock.  An error (the put
\* failed, the channel is exiting) skips RequeuedMessage.
RequeueNow(c) ==
    /\ io[c].pc = "reqPut" /\ ~ExitLocked
    /\ LET p == io[c].ptr IN
        \/ /\ ~Exiting
           /\ PutOK(p)
           /\ io' = [io EXCEPT ![c].pc = "reqCount"]
        \/ /\ ~Exiting
           /\ PutFails(p)
           /\ At(IDOf(p), "lost", Nil)
           /\ io' = [io EXCEPT ![c] = Idle]
        \/ /\ Exiting
           /\ At(IDOf(p), "lost", Nil)
           /\ io' = [io EXCEPT ![c] = Idle]
           /\ UNCHANGED queueVars
    /\ UNCHANGED <<inFlightVars, deferredVars, consumerVars, ioOthers,
                   auxVars>>

\* RequeueMessage with a timeout: StartDeferredTimeout, in two steps.
RequeueDeferred(c) ==
    /\ io[c].pc = "reqPut"
    /\ pushDeferredMessage(io[c].ptr)
    /\ io' = [io EXCEPT ![c].pc = "reqDeferPQ"]
    /\ UNCHANGED <<queueVars, inFlightVars, deferredPQ, consumerVars,
                   ioOthers, auxVars>>

\* Mutant: the item is never pushed.
Mut_RequeueDeferredPQ(c) ==
    /\ io[c].pc = "reqDeferPQ"
    /\ io' = [io EXCEPT ![c].pc = "reqCount"]
    /\ UNCHANGED <<storeVars, consumerVars, ioOthers, auxVars, loc>>

RequeueDeferredPQ(c) ==
    /\ io[c].pc = "reqDeferPQ"
    /\ addToDeferredPQ(io[c].ptr)
    /\ io' = [io EXCEPT ![c].pc = "reqCount"]
    /\ UNCHANGED <<queueVars, inFlightVars, deferredMessages, consumerVars,
                   ioOthers, auxVars, loc>>

\* TouchMessage: back into the map, then into the queue.  pushInFlightMessage
\* could only refuse an ID that is already in flight.
pushInFlightMessage(p) ==
    /\ inFlightMessages[IDOf(p)] = Nil
    /\ inFlightMessages' = [inFlightMessages EXCEPT ![IDOf(p)] = p]
    /\ At(IDOf(p), "inflight", Nil)

TouchPush(c) ==
    /\ io[c].pc = "touchPush"
    /\ pushInFlightMessage(io[c].ptr)
    /\ io' = [io EXCEPT ![c].pc = "touchAddPQ"]
    /\ UNCHANGED <<queueVars, inFlightPQ, index, clientID, deferredVars,
                   consumerVars, ioOthers, auxVars>>

\* Mutant: the message is not pushed again.
Mut_TouchAddPQ(c) ==
    /\ io[c].pc = "touchAddPQ"
    /\ io' = [io EXCEPT ![c] = Idle]
    /\ UNCHANGED <<storeVars, consumerVars, ioOthers, auxVars, loc>>

TouchAddPQ(c) ==
    /\ io[c].pc = "touchAddPQ"
    /\ PQPush(io[c].ptr)
    /\ io' = [io EXCEPT ![c] = Idle]
    /\ UNCHANGED <<queueVars, inFlightMessages, clientID, deferredVars,
                   consumerVars, ioOthers, auxVars, loc>>

-----------------------------------------------------------------------------
(* A client's messagePump.                                                 *)

\* Mutant: off by one.
Mut_IsReadyForMessages(c) ==
    InFlightCount[c] <= ReadyCount[c] /\ ReadyCount[c] > 0

\* IsReadyForMessages (Pause is modelled with the wakeups, not here).
IsReadyForMessages(c) == InFlightCount[c] < ReadyCount[c] /\ ReadyCount[c] > 0

\* The top of the loop, reached after a send and whenever ReadyStateChan, the
\* flusher or the heartbeat fires: decide whether to select on the queues.
PumpLoop(c) ==
    /\ pump[c].pc \in {"wait", "select"} /\ state[c] # "init"
    /\ pump' = [pump EXCEPT ![c].pc =
                   IF IsReadyForMessages(c) THEN "select" ELSE "wait"]
    /\ UNCHANGED <<storeVars, consumerVars, pumpOthers, auxVars, loc>>

\* ExitChan is closed, or a flush or a heartbeat cannot be written.
PumpExit(c) ==
    /\ pump[c].pc \in {"wait", "select"} /\ c \notin conn
    /\ pump' = [pump EXCEPT ![c] = Hand("exited", Nil)]
    /\ UNCHANGED <<storeVars, consumerVars, pumpOthers, auxVars, loc>>

\* A message arrives: it is dropped by sampling, or taken in hand.
Arrive(c, p) ==
    \/ /\ Attempts[IDOf(p)] < MaxAttempts
       /\ Attempts' = [Attempts EXCEPT ![IDOf(p)] = @ + 1]
       /\ pump' = [pump EXCEPT ![c] = Hand("push", p)]
       /\ At(IDOf(p), "pump", c)
    \/ /\ MaySample
       /\ pump' = [pump EXCEPT ![c] = Hand("wait", Nil)]
       /\ At(IDOf(p), "dropped", Nil)
       /\ UNCHANGED Attempts

PumpMemory(c) ==
    /\ pump[c].pc = "select" /\ memoryMsgChan # << >>
    /\ memoryMsgChan' = Tail(memoryMsgChan)
    /\ Arrive(c, Head(memoryMsgChan))
    /\ UNCHANGED <<backend, inFlightVars, deferredVars, consumerVars,
                   pumpOthers, panicked, boundVars>>

\* decodeMessage makes a Message whose index is 0.
PumpBackend(c) ==
    /\ pump[c].pc = "select" /\ backend # << >>
    /\ ext \notin {"closed", "deleted"}
    /\ backend' = Tail(backend)
    /\ \E p \in Fresh(Head(backend)) :
        /\ Arrive(c, p)
        /\ index' = [index EXCEPT ![p] = "fresh"]
    /\ UNCHANGED <<memoryMsgChan, inFlightMessages, inFlightPQ, clientID,
                   deferredVars, consumerVars, pumpOthers, panicked,
                   boundVars>>

\* StartInFlightTimeout, in two steps.
PumpPush(c) ==
    /\ pump[c].pc = "push"
    /\ clientID' = [clientID EXCEPT ![pump[c].ptr] = c]
    /\ pushInFlightMessage(pump[c].ptr)
    /\ pump' = [pump EXCEPT ![c].pc = "addPQ"]
    /\ UNCHANGED <<queueVars, inFlightPQ, index, deferredVars, consumerVars,
                   pumpOthers, auxVars>>

\* Mutant: the message is not pushed.
Mut_PumpAddPQ(c) ==
    /\ pump[c].pc = "addPQ"
    /\ pump' = [pump EXCEPT ![c].pc = "send"]
    /\ UNCHANGED <<storeVars, consumerVars, pumpOthers, auxVars, loc>>

PumpAddPQ(c) ==
    /\ pump[c].pc = "addPQ"
    /\ PQPush(pump[c].ptr)
    /\ pump' = [pump EXCEPT ![c].pc = "send"]
    /\ UNCHANGED <<queueVars, inFlightMessages, clientID, deferredVars,
                   consumerVars, pumpOthers, auxVars, loc>>

\* SendingMessage and SendMessage; a failed send ends the pump.
PumpSend(c) ==
    /\ pump[c].pc = "send"
    /\ InFlightCount' = [InFlightCount EXCEPT ![c] = @ + 1]
    /\ IF c \in conn
         THEN /\ received' = [received EXCEPT ![c] = @ \cup {IDOf(pump[c].ptr)}]
              /\ pump' = [pump EXCEPT ![c] = Hand("wait", Nil)]
         ELSE /\ pump' = [pump EXCEPT ![c] = Hand("exited", Nil)]
              /\ UNCHANGED received
    /\ UNCHANGED <<storeVars, clientVars, pumpOthers, auxVars, loc>>

-----------------------------------------------------------------------------
(* The scanner.  It holds exitMutex.RLock for a pass and does not start    *)
(* one once the channel is exiting.                                        *)

\* processInFlightQueue: PeekAndShift ...
ScanShift(p) ==
    /\ scan = Idle /\ ~Exiting
    /\ PQTake(p)
    /\ scan' = Hand("shifted", p)
    /\ UNCHANGED <<queueVars, inFlightMessages, clientID, deferredVars,
                   consumerVars, scanOthers, auxVars, loc>>

\* Mutant: the error of popInFlightMessage is ignored.
Mut_ScanPop ==
    /\ scan.pc = "shifted"
    /\ inFlightMessages' = [inFlightMessages EXCEPT ![IDOf(scan.ptr)] = Nil]
    /\ scan' = [scan EXCEPT !.pc = "popped"]
    /\ At(IDOf(scan.ptr), "scan", Nil)
    /\ UNCHANGED <<queueVars, inFlightPQ, index, clientID, deferredVars,
                   consumerVars, scanOthers, auxVars>>

\* ... then popInFlightMessage with the shifted Message's fields; an error
\* ends the pass ...
ScanPop ==
    /\ scan.pc = "shifted"
    /\ LET m == IDOf(scan.ptr)
           c == clientID[scan.ptr]
       IN  \/ /\ popInFlightMessage(c, m)
              /\ scan' = [scan EXCEPT !.pc = "popped"]
              /\ At(m, "scan", Nil)
           \/ /\ ~Owns(c, m)
              /\ scan' = Idle
              /\ UNCHANGED <<inFlightMessages, loc>>
    /\ UNCHANGED <<queueVars, inFlightPQ, index, clientID, deferredVars,
                   consumerVars, scanOthers, auxVars>>

\* ... then, with the RLock for the lookup, TimedOutMessage ...
ScanTimedOut ==
    /\ scan.pc = "popped" /\ ~Locked
    /\ LET c == clientID[scan.ptr] IN
        IF c \in clients
          THEN InFlightCount' = [InFlightCount EXCEPT ![c] = @ - 1]
          ELSE UNCHANGED InFlightCount
    /\ scan' = [scan EXCEPT !.pc = "put"]
    /\ UNCHANGED <<storeVars, clientVars, received, scanOthers, auxVars, loc>>

\* ... and put, whose error is ignored.  The deferred pass ends alike.
ScanPut ==
    /\ scan.pc = "put"
    /\ \/ PutOK(scan.ptr)
       \/ PutFails(scan.ptr) /\ At(IDOf(scan.ptr), "lost", Nil)
    /\ scan' = Idle
    /\ UNCHANGED <<inFlightVars, deferredVars, consumerVars, scanOthers,
                   auxVars>>

\* processDeferredQueue: PeekAndShift, popDeferredMessage, put.
ScanDeferredShift(p) ==
    /\ scan = Idle /\ ~Exiting
    /\ deferredPQ[p] > 0
    /\ deferredPQ' = [deferredPQ EXCEPT ![p] = @ - 1]
    /\ scan' = Hand("deferred", p)
    /\ UNCHANGED <<queueVars, inFlightVars, deferredMessages, consumerVars,
                   scanOthers, auxVars, loc>>

\* Mutant: the item stays in the map.
Mut_ScanDeferredPop ==
    /\ scan.pc = "deferred"
    /\ scan' = [scan EXCEPT !.pc = "put"]
    /\ At(IDOf(scan.ptr), "scan", Nil)
    /\ UNCHANGED <<storeVars, consumerVars, scanOthers, auxVars>>

ScanDeferredPop ==
    /\ scan.pc = "deferred"
    /\ LET m == IDOf(scan.ptr) IN
        \/ /\ deferredMessages[m] # Nil
           /\ deferredMessages' = [deferredMessages EXCEPT ![m] = Nil]
           /\ scan' = [scan EXCEPT !.pc = "put"]
           /\ At(m, "scan", Nil)
        \/ /\ deferredMessages[m] = Nil
           /\ scan' = Idle
           /\ UNCHANGED <<deferredMessages, loc>>
    /\ UNCHANGED <<queueVars, inFlightVars, deferredPQ, consumerVars,
                   scanOthers, auxVars>>

-----------------------------------------------------------------------------
(* Empty(), under the write lock.                                          *)

\* Every message of a map that is replaced is dropped.
AllAt(S, place) ==
    loc' = [m \in Msg |-> IF m \in S THEN <<place, Nil>> ELSE loc[m]]
DropAll(S) == AllAt(S, "dropped")
InMap(map) == {m \in Msg : map[m] # Nil}

\* initPQ, first half.  Index fields are not touched.
EmptyInFlight ==
    /\ emp = "idle"
    /\ \/ /\ empties < MaxEmpties
          /\ empties' = empties + 1
          /\ UNCHANGED ext
       \/ /\ ext = "empty"
          /\ ext' = "emptying"
          /\ UNCHANGED empties
    /\ emp' = "deferred"
    /\ inFlightMessages' = [m \in Msg |-> Nil]
    /\ inFlightPQ' = [p \in Ptr |-> 0]
    /\ index' = [p \in Ptr |-> IF index[p] = "in" THEN "stale" ELSE index[p]]
    /\ DropAll(InMap(inFlightMessages))
    /\ UNCHANGED <<queueVars, clientID, deferredVars, consumerVars,
                   goroutines, panicked, Attempts, touches, quiet>>

\* initPQ, second half.
EmptyDeferred ==
    /\ emp = "deferred"
    /\ emp' = "clients"
    /\ deferredMessages' = [m \in Msg |-> Nil]
    /\ deferredPQ' = [p \in Ptr |-> 0]
    /\ DropAll(InMap(deferredMessages))
    /\ UNCHANGED <<queueVars, inFlightVars, consumerVars, goroutines, ext,
                   auxVars>>

\* client.Empty() for every client.
EmptyClients ==
    /\ emp = "clients"
    /\ emp' = "drain"
    /\ InFlightCount' = [c \in Client |->
                            IF c \in clients THEN 0 ELSE InFlightCount[c]]
    /\ UNCHANGED <<storeVars, clientVars, received, goroutines, ext,
                   auxVars, loc>>

EmptyDrain ==
    /\ emp = "drain"
    /\ \/ /\ memoryMsgChan # << >>
          /\ memoryMsgChan' = Tail(memoryMsgChan)
          /\ At(IDOf(Head(memoryMsgChan)), "dropped", Nil)
          /\ UNCHANGED emp
       \/ /\ memoryMsgChan = << >>
          /\ emp' = "backend"
          /\ UNCHANGED <<memoryMsgChan, loc>>
    /\ UNCHANGED <<backend, inFlightVars, deferredVars, consumerVars,
                   goroutines, ext, auxVars>>

\* backend.Empty(), and in a deletion backend.Delete().
EmptyBackend ==
    /\ emp = "backend"
    /\ emp' = "idle"
    /\ ext' = IF ext = "emptying" THEN "deleted" ELSE ext
    /\ backend' = << >>
    /\ DropAll({backend[i] : i \in 1 .. Len(backend)})
    /\ UNCHANGED <<memoryMsgChan, inFlightVars, deferredVars, consumerVars,
                   goroutines, auxVars>>

-----------------------------------------------------------------------------
(* exit(), under exitMutex.                                                *)

\* The exit flag is set.  A pass of the scanner holds the mutex.
ExitBegin(kind) ==
    /\ ext = "idle" /\ scan = Idle
    /\ kind = "close" => pub = Idle
    /\ ext' = kind
    /\ quiet' = \A c \in Client :
                   \/ state[c] = "init"
                   \/ state[c] = "gone" /\ pump[c].pc = "exited"
    /\ UNCHANGED <<storeVars, consumerVars, goroutines, emp, panicked,
                   Attempts, touches, empties, loc>>

\* client.Close() for every client: its connection, not its goroutines.
ExitClients ==
    /\ ext \in {"close", "delete"} /\ ~Locked
    /\ conn' = conn \ clients
    /\ ext' = IF ext = "close" THEN "flushMemory" ELSE "empty"
    /\ UNCHANGED <<storeVars, state, clients, ReadyCount, InFlightCount,
                   received, goroutines, emp, auxVars, loc>>

\* flush(): a write that fails is logged.
FlushMemory ==
    /\ ext = "flushMemory"
    /\ \/ /\ memoryMsgChan # << >>
          /\ memoryMsgChan' = Tail(memoryMsgChan)
          /\ \/ /\ backend' = Append(backend, IDOf(Head(memoryMsgChan)))
                /\ UNCHANGED loc
             \/ /\ MayFail
                /\ At(IDOf(Head(memoryMsgChan)), "lost", Nil)
                /\ UNCHANGED backend
          /\ UNCHANGED ext
       \/ /\ memoryMsgChan = << >>
          /\ ext' = "flushInFlight"
          /\ UNCHANGED <<queueVars, loc>>
    /\ UNCHANGED <<inFlightVars, deferredVars, consumerVars, goroutines,
                   emp, auxVars>>

\* The messages of a map are written in some order and stay in the map.
Flush(map) ==
    \E S \in SUBSET InMap(map) :
        /\ MayFail \/ S = InMap(map)
        /\ \E q \in [1 .. Cardinality(S) -> S] :
            /\ \A i, j \in DOMAIN q : q[i] = q[j] => i = j
            /\ backend' = backend \o q
        /\ AllAt(InMap(map) \ S, "lost")

FlushMap(stage, map, next) ==
    /\ ext = stage
    /\ Flush(map)
    /\ ext' = next
    /\ UNCHANGED <<memoryMsgChan, inFlightVars, deferredVars, consumerVars,
                   goroutines, emp, auxVars>>

FlushInFlight == FlushMap("flushInFlight", inFlightMessages, "flushDeferred")
\* Mutant: deferred messages are not flushed.
Mut_FlushDeferred ==
    FlushMap("flushDeferred", [m \in Msg |-> Nil], "closeBackend")
FlushDeferred == FlushMap("flushDeferred", deferredMessages, "closeBackend")

CloseBackend ==
    /\ ext = "closeBackend"
    /\ ext' = "closed"
    /\ UNCHANGED <<storeVars, consumerVars, goroutines, emp, auxVars, loc>>

-----------------------------------------------------------------------------
Publish == \/ \E m \in Msg : PutMessage(m) \/ PutMessageDeferred(m)
           \/ PutMessageDeferredPQ
Connection(c) == SUB(c) \/ CLS(c) \/ ConnBreak(c) \/ Disconnect(c)
                    \/ \E n \in 0 .. MaxRdy : RDY(c, n)
Respond(c) == \E m \in Msg : FIN(c, m) \/ REQ(c, m) \/ TOUCH(c, m)
\* The rest of a handler that has begun.
Handle(c) == AnswerPQ(c) \/ AnswerCount(c) \/ RequeueNow(c)
                \/ RequeueDeferred(c) \/ RequeueDeferredPQ(c)
                \/ TouchPush(c) \/ TouchAddPQ(c)
Pump(c) == PumpLoop(c) \/ PumpExit(c) \/ PumpMemory(c) \/ PumpBackend(c)
              \/ PumpPush(c) \/ PumpAddPQ(c) \/ PumpSend(c)
\* The rest of what the scanner does with an entry it has shifted.
ScanRest == ScanPop \/ ScanTimedOut \/ ScanPut \/ ScanDeferredPop
Scan == (\E p \in Ptr : ScanShift(p) \/ ScanDeferredShift(p)) \/ ScanRest
Empty == EmptyInFlight \/ EmptyDeferred \/ EmptyClients \/ EmptyDrain
            \/ EmptyBackend
Exit == (\E kind \in ExitKinds : ExitBegin(kind)) \/ ExitClients
            \/ FlushMemory \/ FlushInFlight \/ FlushDeferred \/ CloseBackend

\* A panic ends the process.
Next ==
    /\ ~panicked
    /\ \/ Publish \/ Scan \/ Empty \/ Exit
       \/ \E c \in Client : Connection(c) \/ Respond(c) \/ Handle(c) \/ Pump(c)

Spec == Init /\ [][Next]_vars

\* Fairness.  A goroutine that is inside a handler goes on.  The scan loop
\* visits every channel again and again.  (Its queues are ordered by deadline;
\* here deliveries are bounded, and so every entry's turn comes.)
Fairness ==
    /\ \A c \in Client :
        /\ WF_vars(~panicked /\ Handle(c))
        /\ WF_vars(~panicked /\ (PumpPush(c) \/ PumpAddPQ(c) \/ PumpSend(c)))
    /\ WF_vars(~panicked /\ PutMessageDeferredPQ)
    /\ SF_vars(~panicked /\ Scan)

LiveSpec == Spec /\ Fairness

-----------------------------------------------------------------------------
(* Properties.                                                             *)

StoreType ==
    /\ memoryMsgChan \in Seq(Ptr) /\ Len(memoryMsgChan) <= MemQueueSize
    /\ backend \in Seq(Msg)
    /\ inFlightMessages \in [Msg -> Ptr \cup {Nil}]
    /\ inFlightPQ \in [Ptr -> Nat]
    /\ index \in [Ptr -> Index]
    /\ clientID \in [Ptr -> Client \cup {Nil}]
    /\ deferredMessages \in [Msg -> Ptr \cup {Nil}]
    /\ deferredPQ \in [Ptr -> Nat]
ConsumerType ==
    /\ state \in [Client -> {"init", "subscribed", "closing", "gone"}]
    /\ conn \subseteq Client
    /\ clients \subseteq Client
    /\ ReadyCount \in [Client -> 0 .. MaxRdy]
    /\ InFlightCount \in [Client -> Int]
    /\ received \in [Client -> SUBSET Msg]
HandType ==
    /\ pub \in [pc : {"idle", "addPQ"}, ptr : Ptr \cup {Nil}]
    /\ io \in [Client -> [pc : IoPC, ptr : Ptr \cup {Nil}]]
    /\ pump \in [Client -> [pc : PumpPC, ptr : Ptr \cup {Nil}]]
    /\ scan \in [pc : ScanPC, ptr : Ptr \cup {Nil}]
AdminType ==
    /\ emp \in {"idle", "deferred", "clients", "drain", "backend"}
    /\ ext \in {"idle", "close", "flushMemory", "flushInFlight",
                "flushDeferred", "closeBackend", "closed"} \cup Deleting
AuxType ==
    /\ Attempts \in [Msg -> 0 .. MaxAttempts]
    /\ touches \in 0 .. MaxTouches
    /\ empties \in 0 .. MaxEmpties
FlagType == panicked \in BOOLEAN /\ quiet \in BOOLEAN
LocType == loc \in [Msg -> Place \X (Client \cup {Nil})]

TypeOK == StoreType /\ ConsumerType /\ HandType /\ AdminType /\ AuxType
             /\ FlagType /\ LocType

Count(b) == IF b THEN 1 ELSE 0

\* The handlers that hold a message they have taken out of the in-flight map.
Holding == {"reqPQ", "reqPut", "touchPQ", "touchPush"}

InPump(c, m) == pump[c].pc = "push" /\ IDOf(pump[c].ptr) = m
InIo(c, m) == io[c].pc \in Holding /\ IDOf(io[c].ptr) = m
InScan(m) == scan.pc \in {"popped", "put"} /\ IDOf(scan.ptr) = m

\* Every place message m is found in: a slot of a queue, a map, or the hands
\* of a goroutine that took it from one place and has yet to put it into
\* another.
Places(m) ==
    {<<"memory", i>> : i \in {k \in 1 .. Len(memoryMsgChan) :
                                 IDOf(memoryMsgChan[k]) = m}}
      \cup {<<"backend", i>> : i \in {k \in 1 .. Len(backend) : backend[k] = m}}
      \cup {<<"pump", c>> : c \in {d \in Client : InPump(d, m)}}
      \cup {<<"io", c>> : c \in {d \in Client : InIo(d, m)}}
      \cup {place \in {<<"inflight", Nil>>, <<"deferred", Nil>>, <<"scan", Nil>>} :
               CASE place[1] = "inflight" -> inFlightMessages[m] # Nil
                 [] place[1] = "deferred" -> deferredMessages[m] # Nil
                 [] place[1] = "scan" -> InScan(m)}

\* Before the channel exits, a message that was accepted and not finished,
\* dropped by Empty or sampling, or lost to a failed write is in exactly one
\* place, and every other message is in none.  So no interleaving of FIN,
\* REQ, TOUCH, time-out, delivery and Empty duplicates a message, forgets one
\* or brings a finished one back.
OnePlace ==
    ext = "idle" =>
        \A m \in Msg : Cardinality(Places(m)) = Count(loc[m][1] \notin Ended)

\* What has ended stays so until the channel exits: a message a consumer has finished is not
\* delivered again, although the scanner, a late TOUCH or a stale entry of
\* the time-out queue may still refer to it.
EndedStays ==
    [][ext' = "idle" =>
          \A m \in Msg : loc[m][1] \in Ended \ {"new"} => loc'[m] = loc[m]]_vars

\* A connected client's InFlightCount, which decides whether it gets another
\* message, is the number of messages it owns, up to the updates that are
\* under way.  Holds as long as the channel is not emptied and no requeue
\* fails.
CountExact ==
    ~Exiting /\ ~Locked =>
        \A c \in clients :
            InFlightCount[c] =
                Cardinality({m \in Msg : Owns(c, m)})
                  + Count(io[c].pc \notin {"idle", "touchAddPQ"})
                  + Count(scan.pc = "popped" /\ clientID[scan.ptr] = c)
                  - Count(pump[c].pc \in {"addPQ", "send"})

\* A client never has more messages than the largest RDY it asked for,
\* although the pump selects on a decision it made earlier.
RdyBound == \A c \in Client : InFlightCount[c] <= MaxRdy

\* FIN, REQ and TOUCH remove the message's own entry from the in-flight
\* queue, or find it already popped (index -1).  Holds as long as messages
\* stay in memory and the channel is not emptied.
RemovesOwnEntry ==
    \A c \in Client :
        io[c].pc \in DOMAIN NextPC => index[io[c].ptr] \in {"none", "in"}

\* A message in flight has an entry in the time-out queue, or is about to
\* get one, or is being timed out: it cannot be stranded in the map.  Same
\* conditions.
TimeoutArmed ==
    \A m \in Msg : LET p == inFlightMessages[m] IN
        p # Nil =>
            \/ inFlightPQ[p] > 0
            \/ scan = Hand("shifted", p)
            \/ \E c \in Client : pump[c] = Hand("addPQ", p)
                                   \/ io[c] = Hand("touchAddPQ", p)

\* Close() with no consumer connected writes every message to the backend:
\* the waiting, the deferred and those in flight to clients that have gone.
ClosePersists ==
    ext = "closed" /\ quiet =>
        \A m \in Msg : \/ loc[m][1] \in Ended
                       \/ \E i \in 1 .. Len(backend) : backend[i] = m

\* No message stays in flight for ever: it is finished, requeued or timed
\* out, also when its client is gone.  This is so as long as no answer removes
\* another message's entry of the time-out queue, or panics: the message whose
\* entry is lost stays in flight.
InFlightEnds ==
    []RemovesOwnEntry =>
        \A m \in Msg : (inFlightMessages[m] # Nil) ~> (inFlightMessages[m] = Nil)

\* A deferred message is handed to the queue in the end, unless the process
\* panics first.
DeferredEnds ==
    \A m \in Msg :
        (deferredMessages[m] # Nil) ~> (deferredMessages[m] = Nil \/ panicked)

=============================================================================
