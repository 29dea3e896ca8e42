---------------------------- MODULE TopicProofs ----------------------------
(***************************************************************************)
(* Topic for every set of messages, calls and channels, every queue size   *)
(* and bound: its types, the delay and the channels a message is copied    *)
(* with and to, messagePump's snapshot, what Close() keeps and what        *)
(* messageCount counts.                                                    *)
(***************************************************************************)
EXTENDS Topic, SequenceTheorems, FiniteSetTheorems, TLAPS

USE DEF queues, chans, pausing, exiting, disk2, bounds, history

QueueType ==
    /\ memoryMsgChan \in Seq(Msg) /\ backend \in Seq(Msg)
    /\ Len(memoryMsgChan) <= MemQueueSize

ChanType ==
    /\ channelMap \subseteq Chan /\ exitedChans \subseteq Chan
    /\ dropping \subseteq Chan \X BOOLEAN /\ updates \subseteq Chan \X BOOLEAN

PumpType ==
    /\ pump \in [pc : {"wait", "loop", "fan", "exited"}, chans : SUBSET Chan,
                 on : BOOLEAN, msg : Msg \cup {Nil}, delayed : BOOLEAN,
                 rest : SUBSET Chan]
    /\ pump.pc = "fan" => pump.msg \in Msg

FlagType ==
    /\ ephemeral \in BOOLEAN /\ paused \in BOOLEAN /\ startChan \in BOOLEAN
    /\ readAhead \in BOOLEAN /\ emptying \in BOOLEAN
    /\ deleted \in BOOLEAN /\ callback \in BOOLEAN

CounterType == pausers \in Nat /\ admin \in Nat /\ opens \in Nat /\ messageCount \in Nat

PCType ==
    /\ proc \in {"up", "panic"}
    /\ toFile \in Msg \cup {"recv", "done"}
    /\ exit \in {"no", "wait", "channels", "empty", "flush", "done"}

CallType ==
    /\ call \in [Call -> [pc : {"new", "put", "ok", "error"}, i : Nat]]
    /\ \A b \in Call : call[b].i \in 1..Len(b)

HistoryType ==
    /\ got \in [Chan -> SUBSET (Msg \X BOOLEAN)]
    /\ due \in [Msg -> SUBSET Chan]
    /\ acked \subseteq Msg /\ spilled \subseteq Msg
    /\ stage \in [Msg -> {"new", "queued", "toFile", "pump", "fanned", "stray",
                          "emptied", "dropped", "unwritten", "panic"}]

Types ==
    /\ QueueType /\ ChanType /\ PumpType /\ FlagType /\ CounterType /\ PCType
    /\ CallType /\ HistoryType

\* A message is new until the call that publishes it comes to it, and no two calls
\* publish the same one.
CallInv ==
    /\ \A b \in Call : call[b].pc = "new" => call[b].i = 1
    /\ \A b \in Call : Inside(b) =>
          \A j \in 1..Len(b) : stage[b[j]] = "new" <=> j >= call[b].i
    /\ \A b, e \in Publishing : b # e => \A m \in Range(b) : m \notin Range(e)
    /\ \A m \in Msg : stage[m] # "new" => m \in Published
    /\ \A m \in acked \cup spilled : stage[m] # "new"

\* A message is in one place, the one its stage says.
Distinct(s) == \A i, j \in 1..Len(s) : s[i] = s[j] => i = j

PlaceInv ==
    /\ Distinct(memoryMsgChan) /\ Distinct(backend)
    /\ \A m \in Msg : Contains(memoryMsgChan, m) => ~Contains(backend, m)
    /\ \A m \in Msg : stage[m] = "queued" <=>
          (proc = "up" /\ Contains(memoryMsgChan, m)) \/ Contains(backend, m)
    /\ \A m \in Msg : stage[m] = "pump" <=> proc = "up" /\ pump.pc = "fan" /\ pump.msg = m
    /\ \A m \in Msg : stage[m] = "toFile" <=> proc = "up" /\ toFile = m

\* A message has lost its delay once it has been written to the disk queue.
DelayInv ==
    /\ \A m \in Msg : Contains(memoryMsgChan, m) => m \notin spilled
    /\ \A m \in Msg : Contains(backend, m) => m \in spilled
    /\ pump.pc = "fan" => pump.delayed = (pump.msg \in Deferred \ spilled)
    /\ \A c \in Chan : \A e \in got[c] : stage[e[1]] \in {"pump", "fanned", "panic"}
    /\ SameDelay

\* messagePump knows the channels a queued message is due to, and has not skipped any
\* for the message in hand.  A channel that leaves the map does not come back.
Known == channelMap \cup exitedChans \cup {drop[1] : drop \in dropping}
Has(c, m) == \E delayed \in BOOLEAN : <<m, delayed>> \in got[c]
Working == pump.pc \in {"loop", "fan"}

FanInv ==
    /\ \A m \in Msg : due[m] \subseteq Known
    /\ Working /\ ~exitFlag => Settled \subseteq pump.chans
    /\ Working => \A m \in Msg : stage[m] = "queued" => due[m] \cap channelMap \subseteq pump.chans
    /\ \A m \in Msg : pump.pc = "fan" /\ pump.msg = m =>
          \A c \in due[m] \cap channelMap : c \in pump.rest \/ Has(c, m)
    /\ FanOutComplete

\* messagePump lags behind the map only while somebody is about to tell it.
PumpInv ==
    Working /\ ~exitFlag =>
        /\ updates = {} /\ dropping = {} => pump.chans = channelMap
        /\ pausers = 0 => pump.on = (pump.chans # {} /\ ~paused)

\* What was acknowledged before Close() began leaves memory before it ends.
CloseInv ==
    /\ exit \in {"channels", "empty", "flush", "done"} => pump.pc = "exited" /\ toFile = "done"
    /\ exit = "done" /\ ~deleted => \A m \in acked : ~Contains(memoryMsgChan, m)

\* The messages whose call has counted them.
Tally == {m \in Msg : stage[m] # "new" /\ \A b \in Call : Inside(b) => m \notin Range(b)}

CountInv ==
    /\ IsFiniteSet({m \in Msg : stage[m] # "new"})
    /\ opens = 0 => messageCount = Cardinality(Tally)

Inv == Types /\ CallInv /\ PlaceInv /\ DelayInv /\ FanInv /\ PumpInv /\ CloseInv /\ CountInv

-----------------------------------------------------------------------------
(* Sequences.                                                               *)

LEMMA Constants ==
    /\ Call \subseteq Seq(Msg) /\ MemQueueSize \in Nat \ {0}
    /\ \A b \in Call : Len(b) \in Nat \ {0} /\ DOMAIN b = 1..Len(b)
    /\ \A b \in Call : \A j \in 1..Len(b) : b[j] \in Msg
    /\ \A b \in Call : \A i, j \in 1..Len(b) : b[i] = b[j] => i = j
    /\ Nil \notin Msg /\ "recv" \notin Msg /\ "done" \notin Msg
<1>1. \A b \in Call : b \in Seq(Msg) /\ b # << >>
  BY TopicAssumption
<1>2. \A b \in Call : Len(b) \in Nat \ {0} /\ DOMAIN b = 1..Len(b)
  BY <1>1, LenProperties
<1>3. \A b \in Call : \A j \in 1..Len(b) : b[j] \in Msg
  BY <1>1, ElementOfSeq
<1> QED  BY <1>1, <1>2, <1>3, TopicAssumption

LEMMA AppendFacts ==
    ASSUME NEW s \in Seq(Msg), NEW m \in Msg
    PROVE  /\ Append(s, m) \in Seq(Msg) /\ Len(Append(s, m)) = Len(s) + 1
           /\ \A x : Contains(Append(s, m), x) <=> Contains(s, x) \/ x = m
           /\ Distinct(s) /\ ~Contains(s, m) => Distinct(Append(s, m))
<1> DEFINE t == Append(s, m)
<1>1. /\ t \in Seq(Msg) /\ Len(t) = Len(s) + 1 /\ Len(s) \in Nat
      /\ \A i \in 1..Len(s) : t[i] = s[i]
      /\ t[Len(s) + 1] = m
  BY AppendProperties, LenProperties
<1> HIDE DEF t
<1>2. \A x : Contains(t, x) <=> Contains(s, x) \/ x = m
  BY <1>1 DEF Contains
<1>3. ASSUME Distinct(s), ~Contains(s, m) PROVE Distinct(t)
  BY <1>1, <1>3 DEF Distinct, Contains
<1> QED  BY <1>1, <1>2, <1>3 DEF t

LEMMA TailFacts ==
    ASSUME NEW s \in Seq(Msg), s # << >>
    PROVE  /\ Head(s) \in Msg /\ Tail(s) \in Seq(Msg) /\ Len(Tail(s)) = Len(s) - 1
           /\ \A x : Contains(s, x) <=> Contains(Tail(s), x) \/ x = Head(s)
           /\ Distinct(s) => Distinct(Tail(s)) /\ ~Contains(Tail(s), Head(s))
<1> DEFINE t == Tail(s)
<1>1. /\ Head(s) \in Msg /\ Head(s) = s[1]
      /\ t \in Seq(Msg) /\ Len(t) = Len(s) - 1 /\ Len(s) \in Nat /\ Len(s) > 0
      /\ \A i \in 1..Len(t) : t[i] = s[i + 1]
  BY HeadTailProperties, LenProperties
<1> HIDE DEF t
<1>2. \A x : Contains(s, x) <=> Contains(t, x) \/ x = Head(s)
  <2>1. ASSUME NEW x, Contains(s, x) PROVE Contains(t, x) \/ x = Head(s)
    <3>1. PICK i \in 1..Len(s) : s[i] = x
      BY <2>1 DEF Contains
    <3>2. CASE i = 1
      BY <1>1, <3>1, <3>2
    <3>3. CASE i # 1
      <4>1. i - 1 \in 1..Len(t) /\ t[i - 1] = x
        BY <1>1, <3>1, <3>3
      <4> QED  BY <4>1 DEF Contains
    <3> QED  BY <3>2, <3>3
  <2>2. ASSUME NEW x, Contains(t, x) \/ x = Head(s) PROVE Contains(s, x)
    BY <1>1, <2>2 DEF Contains
  <2> QED  BY <2>1, <2>2
<1>3. ASSUME Distinct(s) PROVE Distinct(t) /\ ~Contains(t, Head(s))
  BY <1>1, <1>3 DEF Distinct, Contains
<1> QED  BY <1>1, <1>2, <1>3 DEF t

LEMMA EmptyFacts ==
    /\ << >> \in Seq(Msg) /\ Len(<< >>) = 0 /\ Distinct(<< >>)
    /\ \A x : ~Contains(<< >>, x)
BY DEF Distinct, Contains

-----------------------------------------------------------------------------
(* The initial states.                                                      *)

LEMMA InitInv == Init => Inv
<1> SUFFICES ASSUME Init PROVE Inv
  OBVIOUS
<1>1. \A m \in Msg : stage[m] = "new"
  BY DEF Init
<1>2. Publishing = {} /\ \A b \in Call : call[b].pc = "new" /\ call[b].i = 1
  BY DEF Init, Publishing
<1>3. QueueType /\ ChanType /\ PumpType /\ FlagType
  <2>1. QueueType
    BY EmptyFacts, Constants DEF Init, QueueType
  <2>2. ChanType /\ PumpType
    BY DEF Init, ChanType, PumpType, NewPump
  <2>3. FlagType
    BY TopicAssumption DEF Init, FlagType
  <2> QED  BY <2>1, <2>2, <2>3
<1>4. CounterType /\ PCType /\ HistoryType
  BY DEF Init, CounterType, PCType, HistoryType
<1>5. CallType
  BY Constants DEF Init, CallType
<1>6. CallInv
  BY <1>1, <1>2 DEF CallInv, Inside, Init
<1>7. PlaceInv
  BY <1>1, EmptyFacts, Constants DEF PlaceInv, Init, NewPump
<1>8. DelayInv
  BY EmptyFacts DEF DelayInv, Init, NewPump, SameDelay
<1>9. FanInv /\ PumpInv /\ CloseInv
  BY <1>1 DEF FanInv, PumpInv, CloseInv, Working, Init, NewPump, FanOutComplete
<1>10. CountInv
  <2>1. {m \in Msg : stage[m] # "new"} = {} /\ Tally = {}
    BY <1>1 DEF Tally
  <2> QED  BY <2>1, FS_EmptySet DEF CountInv, Init
<1> QED  BY <1>3, <1>4, <1>5, <1>6, <1>7, <1>8, <1>9, <1>10 DEF Inv, Types

-----------------------------------------------------------------------------
(* The steps.                                                               *)

\* Those that leave the messages where they are.
Still ==
    \/ \E b \in Call : doPUB(b) \/ doMPUB(b)
    \/ Start \/ PumpStart \/ PumpChannelUpdate \/ PumpPause \/ PumpPut \/ PumpExit
    \/ \E c \in Chan : GetChannel(c) \/ DeleteExistingChannel(c) \/ DeleteChannel(c)
    \/ \E pause \in BOOLEAN : doPause(pause)
    \/ GiveUp \/ Empty
    \/ \E kind \in ExitKinds : Exit(kind = "delete")
    \/ DeleteCallback \/ ExitWait \/ ExitChannels
    \/ UNCHANGED vars

\* Those that move a message or forget some.
Moves ==
    \/ PumpMemory \/ PumpBackend \/ PumpNext \/ ToFileReceive \/ ToFileError
    \/ EmptyStep \/ ExitEmpty \/ ExitFlush

LEMMA Steps ==
    ASSUME [Next]_vars
    PROVE  Still \/ Moves \/ (\E b \in Call : put(b)) \/ Panic \/ NewTopic
BY DEF Next, PumpStep, ExitStep, Still, Moves

LEMMA StillStep ==
    ASSUME PumpType, Still
    PROVE  /\ UNCHANGED <<queues, toFile, proc, acked, spilled, stage, messageCount, opens,
                          ephemeral, readAhead>>
           /\ pump'.pc = "fan" <=> pump.pc = "fan"
           /\ pump.pc = "fan" => UNCHANGED <<pump.msg, pump.delayed, pump.chans>>
           /\ pump.pc = "exited" => pump' = pump
<1> USE DEF PumpType
<1>1. CASE (\E b \in Call : doPUB(b) \/ doMPUB(b)) \/ Start
  BY <1>1 DEF doPUB, doMPUB, PutMessages, Start
<1>2. CASE PumpStart \/ PumpExit
  BY <1>2 DEF PumpStart, PumpExit, Refreshed, NewPump
<1>3. CASE PumpChannelUpdate \/ PumpPause
  BY <1>3 DEF PumpChannelUpdate, PumpPause, Refreshed, Repaused
<1>4. CASE PumpPut
  BY <1>4 DEF PumpPut
<1>5. CASE \E c \in Chan : GetChannel(c) \/ DeleteExistingChannel(c) \/ DeleteChannel(c)
  BY <1>5 DEF GetChannel, DeleteExistingChannel, DeleteChannel
<1>6. CASE (\E pause \in BOOLEAN : doPause(pause)) \/ GiveUp \/ Empty
  BY <1>6 DEF doPause, GiveUp, Empty
<1>7. CASE (\E kind \in ExitKinds : Exit(kind = "delete")) \/ DeleteCallback
  BY <1>7 DEF Exit, DeleteCallback
<1>8. CASE ExitWait \/ ExitChannels
  BY <1>8 DEF ExitWait, ExitChannels
<1>9. CASE UNCHANGED vars
  BY <1>9 DEF vars
<1> QED  BY <1>1, <1>2, <1>3, <1>4, <1>5, <1>6, <1>7, <1>8, <1>9 DEF Still

Stages == {"new", "queued", "toFile", "pump", "fanned", "stray", "emptied", "dropped",
           "unwritten", "panic"}

\* One round of Empty().
LEMMA DrainStep ==
    ASSUME Inv, proc = "up", Drain
    PROVE  /\ QueueType' /\ stage' \in [Msg -> Stages]
           /\ Distinct(memoryMsgChan') /\ Distinct(backend')
           /\ \A m \in Msg : Contains(memoryMsgChan', m) => Contains(memoryMsgChan, m)
           /\ \A m \in Msg : Contains(backend', m) => Contains(backend, m)
           /\ \A m \in Msg :
                 \/ stage'[m] = stage[m] /\ (Queued(m)' <=> Queued(m))
                 \/ stage'[m] = "emptied" /\ stage[m] = "queued" /\ ~Queued(m)'
<1> USE DEF Inv, Types, QueueType, HistoryType
<1>1. CASE memoryMsgChan # << >>
  <2> DEFINE h == Head(memoryMsgChan)
             t == Tail(memoryMsgChan)
  <2>1. memoryMsgChan' = t /\ stage' = [stage EXCEPT ![h] = "emptied"] /\ backend' = backend
    BY <1>1 DEF Drain
  <2>2. /\ h \in Msg /\ t \in Seq(Msg) /\ Len(t) = Len(memoryMsgChan) - 1
        /\ \A x : Contains(memoryMsgChan, x) <=> Contains(t, x) \/ x = h
        /\ Distinct(t) /\ ~Contains(t, h) /\ Len(memoryMsgChan) \in Nat
    BY <1>1, TailFacts, LenProperties DEF PlaceInv
  <2> HIDE DEF h, t
  <2>3. Len(t) <= MemQueueSize
    BY <2>2, Constants
  <2>4. stage[h] = "queued" /\ ~Contains(backend, h)
    BY <2>2 DEF PlaceInv
  <2>5. stage' \in [Msg -> Stages] /\ stage'[h] = "emptied"
        /\ \A m \in Msg : m # h => stage'[m] = stage[m]
    BY <2>1, <2>2 DEF Stages
  <2>6. \A m \in Msg : m # h => (Queued(m)' <=> Queued(m))
    BY <2>1, <2>2 DEF Queued
  <2>7. ~Contains(t, h) /\ ~Contains(backend', h)
    BY <2>1, <2>2, <2>4
  <2> QED  BY <2>1, <2>2, <2>3, <2>4, <2>5, <2>6, <2>7 DEF PlaceInv, Queued
<1>2. CASE memoryMsgChan = << >>
  <2>1. /\ memoryMsgChan' = memoryMsgChan /\ backend' = << >>
        /\ stage' = [m \in Msg |-> IF Contains(backend, m) THEN "emptied" ELSE stage[m]]
    BY <1>2 DEF Drain
  <2>2. \A x : ~Contains(memoryMsgChan, x) /\ ~Contains(backend', x)
    BY <1>2, <2>1, EmptyFacts
  <2>3. QueueType' /\ Distinct(memoryMsgChan') /\ Distinct(backend')
    BY <2>1, EmptyFacts DEF PlaceInv
  <2>4. stage' \in [Msg -> Stages]
    BY <2>1 DEF Stages
  <2>5. \A m \in Msg : Contains(backend, m) => stage[m] = "queued"
    BY DEF PlaceInv
  <2> QED  BY <2>1, <2>2, <2>3, <2>4, <2>5 DEF Queued
<1> QED  BY <1>1, <1>2

\* What all of Moves have in common.
LEMMA MoveStep ==
    ASSUME Inv, Moves
    PROVE  /\ proc = "up"
           /\ UNCHANGED <<proc, ephemeral, chans, pausing, startChan, readAhead, call,
                          messageCount, deleted, callback, bounds, got, due, acked>>
           /\ QueueType' /\ stage' \in [Msg -> Stages]
           /\ \A m \in Msg : stage'[m] = "new" <=> stage[m] = "new"
           /\ \A m \in Msg : Contains(memoryMsgChan', m) => Contains(memoryMsgChan, m)
<1> USE DEF Inv, Types, QueueType, HistoryType
<1>1. CASE PumpMemory \/ ToFileReceive
  <2> DEFINE h == Head(memoryMsgChan)
             t == Tail(memoryMsgChan)
  <2>1. /\ memoryMsgChan # << >> /\ memoryMsgChan' = t /\ backend' = backend /\ proc = "up"
        /\ (stage' = [stage EXCEPT ![h] = "pump"] \/ stage' = [stage EXCEPT ![h] = "toFile"])
        /\ UNCHANGED <<proc, ephemeral, chans, pausing, startChan, readAhead, call,
                       messageCount, deleted, callback, bounds, got, due, acked>>
    BY <1>1 DEF PumpMemory, ToFileReceive, Take
  <2>2. /\ h \in Msg /\ t \in Seq(Msg) /\ Len(t) = Len(memoryMsgChan) - 1
        /\ \A x : Contains(memoryMsgChan, x) <=> Contains(t, x) \/ x = h
        /\ Len(memoryMsgChan) \in Nat
    BY <2>1, TailFacts, LenProperties
  <2> HIDE DEF h, t
  <2>3. stage[h] = "queued"
    BY <2>1, <2>2 DEF PlaceInv
  <2>4. stage' \in [Msg -> Stages] /\ \A m \in Msg : stage'[m] = "new" <=> stage[m] = "new"
    BY <2>1, <2>2, <2>3 DEF Stages
  <2>5. QueueType'
    BY <2>1, <2>2, Constants
  <2> QED  BY <2>1, <2>2, <2>4, <2>5
<1>2. CASE PumpBackend
  <2> DEFINE h == Head(backend)
             t == Tail(backend)
  <2>1. /\ backend # << >> /\ backend' = t /\ memoryMsgChan' = memoryMsgChan /\ proc = "up"
        /\ stage' = [stage EXCEPT ![h] = "pump"]
        /\ UNCHANGED <<proc, ephemeral, chans, pausing, startChan, readAhead, call,
                       messageCount, deleted, callback, bounds, got, due, acked>>
    BY <1>2 DEF PumpBackend, Take
  <2>2. /\ h \in Msg /\ t \in Seq(Msg)
        /\ \A x : Contains(backend, x) <=> Contains(t, x) \/ x = h
    BY <2>1, TailFacts
  <2> HIDE DEF h, t
  <2>3. stage[h] = "queued"
    BY <2>1, <2>2 DEF PlaceInv
  <2>4. stage' \in [Msg -> Stages] /\ \A m \in Msg : stage'[m] = "new" <=> stage[m] = "new"
    BY <2>1, <2>2, <2>3 DEF Stages
  <2> QED  BY <2>1, <2>2, <2>4
<1>3. CASE PumpNext \/ ToFileError
  <2>1. /\ proc = "up"
        /\ UNCHANGED <<queues, proc, ephemeral, chans, pausing, startChan, readAhead, call,
                       messageCount, deleted, callback, bounds, got, due, acked>>
    BY <1>3 DEF PumpNext, ToFileError
  <2>2. \E m \in Msg : stage[m] \in {"pump", "toFile"}
                       /\ (stage' = [stage EXCEPT ![m] = "fanned"] \/ stage' = [stage EXCEPT ![m] = "stray"])
    BY <1>3 DEF PumpNext, ToFileError, PumpType, PlaceInv
  <2>3. stage' \in [Msg -> Stages] /\ \A m \in Msg : stage'[m] = "new" <=> stage[m] = "new"
    BY <2>2 DEF Stages
  <2> QED  BY <2>1, <2>3
<1>4. CASE EmptyStep \/ ExitEmpty
  <2>1. /\ proc = "up" /\ (UNCHANGED <<queues, stage>> \/ Drain)
        /\ UNCHANGED <<proc, ephemeral, chans, pausing, startChan, readAhead, call,
                       messageCount, deleted, callback, bounds, got, due, acked>>
    BY <1>4 DEF EmptyStep, ExitEmpty
  <2>2. CASE UNCHANGED <<queues, stage>>
    BY <2>1, <2>2 DEF Stages
  <2>3. CASE Drain
    BY <2>1, <2>3, DrainStep
  <2> QED  BY <2>1, <2>2, <2>3
<1>5. CASE ExitFlush
  <2>1. /\ proc = "up"
        /\ UNCHANGED <<proc, ephemeral, chans, pausing, startChan, readAhead, call,
                       messageCount, deleted, callback, bounds, got, due, acked>>
    BY <1>5 DEF ExitFlush
  <2>2. CASE UNCHANGED <<queues, spilled, stage>>
    BY <2>1, <2>2 DEF Stages
  <2>3. CASE memoryMsgChan # << >>
    <3> DEFINE h == Head(memoryMsgChan)
               t == Tail(memoryMsgChan)
    <3>1. /\ memoryMsgChan' = t /\ (backend' = backend \/ backend' = Append(backend, h))
          /\ \/ stage' = stage \/ stage' = [stage EXCEPT ![h] = "dropped"]
             \/ stage' = [stage EXCEPT ![h] = "unwritten"]
      BY <1>5, <2>3 DEF ExitFlush
    <3>2. /\ h \in Msg /\ t \in Seq(Msg) /\ Len(t) = Len(memoryMsgChan) - 1
          /\ \A x : Contains(memoryMsgChan, x) <=> Contains(t, x) \/ x = h
          /\ Len(memoryMsgChan) \in Nat
      BY <2>3, TailFacts, LenProperties
    <3> HIDE DEF h, t
    <3>3. backend' \in Seq(Msg)
      BY <3>1, <3>2, AppendFacts
    <3>4. stage[h] = "queued"
      BY <2>1, <3>2 DEF PlaceInv
    <3>5. stage' \in [Msg -> Stages] /\ \A m \in Msg : stage'[m] = "new" <=> stage[m] = "new"
      BY <3>1, <3>2, <3>4 DEF Stages
    <3>6. QueueType'
      BY <3>1, <3>2, <3>3, Constants
    <3> QED  BY <2>1, <3>1, <3>2, <3>5, <3>6
  <2> QED  BY <1>5, <2>2, <2>3 DEF ExitFlush
<1> QED  BY <1>1, <1>2, <1>3, <1>4, <1>5 DEF Moves

LEMMA ReturnStep ==
    ASSUME Inv, NEW b \in Call, Inside(b), NEW i, i = call[b].i,
           NEW failed \in BOOLEAN, Return(b, i, failed)
    PROVE  /\ CallType' /\ messageCount' \in Nat
           /\ \A e \in Call : e # b => call'[e] = call[e]
           /\ failed => call'[b].pc = "error"
           /\ ~failed /\ i < Len(b) => call'[b].pc = "put" /\ call'[b].i = i + 1
           /\ ~failed /\ i = Len(b) => call'[b].pc = "ok"
           /\ messageCount' = messageCount + (IF failed THEN i - 1
                                              ELSE IF i = Len(b) THEN Len(b) ELSE 0)
<1> USE DEF Inv, Types, CallType
<1>1. i \in 1..Len(b) /\ Len(b) \in Nat /\ i \in Nat
  BY Constants
<1> DEFINE x == IF failed THEN [pc |-> "error", i |-> i]
                ELSE IF i < Len(b) THEN [pc |-> "put", i |-> i + 1]
                ELSE [pc |-> "ok", i |-> i]
<1>2. call' = [call EXCEPT ![b] = x]
  BY DEF Return
<1>3. x \in [pc : {"new", "put", "ok", "error"}, i : Nat] /\ x.i \in 1..Len(b)
  BY <1>1
<1>4. /\ failed => x.pc = "error"
      /\ ~failed /\ i < Len(b) => x.pc = "put" /\ x.i = i + 1
      /\ ~failed /\ i = Len(b) => x.pc = "ok"
  BY <1>1
<1> HIDE DEF x
<1>5. call'[b] = x /\ CallType' /\ \A e \in Call : e # b => call'[e] = call[e]
  BY <1>2, <1>3
<1>6. messageCount' = messageCount + (IF failed THEN i - 1 ELSE IF i = Len(b) THEN Len(b) ELSE 0)
  BY <1>1 DEF Return, Counted, CounterType
<1>7. messageCount' \in Nat
  BY <1>1, <1>6 DEF CounterType
<1> QED  BY <1>4, <1>5, <1>6, <1>7

\* put() of a call's next message, which is nowhere yet: it goes to memory, to the disk
\* queue, to the dummy backend of an ephemeral topic, or nowhere.
ToMemory(b, m) ==
    /\ memoryMsgChan' = Append(memoryMsgChan, m) /\ backend' = backend /\ spilled' = spilled
    /\ stage'[m] = "queued" /\ due' = [due EXCEPT ![m] = Settled]
    /\ Return(b, call[b].i, FALSE)

ToBackend(b, m) ==
    /\ backend' = Append(backend, m) /\ memoryMsgChan' = memoryMsgChan
    /\ spilled' = spilled \cup {m}
    /\ stage'[m] = "queued" /\ due' = [due EXCEPT ![m] = Settled]
    /\ Return(b, call[b].i, FALSE)

ToNobody(b, m) ==
    /\ stage'[m] = "dropped" /\ UNCHANGED <<queues, due, spilled>>
    /\ Return(b, call[b].i, FALSE)

Refused(b, m) ==
    /\ stage' = stage /\ UNCHANGED <<queues, due, spilled>>
    /\ Return(b, call[b].i, TRUE)

LEMMA PutStep ==
    ASSUME Inv, NEW b \in Call, put(b), NEW m, m = b[call[b].i]
    PROVE  /\ proc = "up" /\ Inside(b) /\ m \in Msg /\ call[b].i \in 1..Len(b)
           /\ stage[m] = "new" /\ ~Contains(memoryMsgChan, m) /\ ~Contains(backend, m)
           /\ m \notin spilled /\ m \notin acked
           /\ UNCHANGED <<proc, ephemeral, chans, pausing, startChan, pump, disk2, emptying,
                          exiting, bounds, got>>
           /\ QueueType' /\ stage' \in [Msg -> Stages]
           /\ \A x \in Msg : x # m => stage'[x] = stage[x]
           /\ ToMemory(b, m) \/ ToBackend(b, m) \/ ToNobody(b, m) \/ Refused(b, m)
<1> USE DEF Inv, Types
<1>1. /\ proc = "up" /\ Inside(b)
      /\ UNCHANGED <<proc, ephemeral, chans, pausing, startChan, pump, disk2, emptying,
                     exiting, bounds, got>>
  BY DEF put
<1>2. call[b].i \in 1..Len(b) /\ m \in Msg /\ stage[m] = "new"
  BY <1>1, Constants DEF CallType, CallInv
<1>3. ~Contains(memoryMsgChan, m) /\ ~Contains(backend, m) /\ m \notin spilled /\ m \notin acked
  BY <1>1, <1>2 DEF PlaceInv, CallInv
<1>4. stage \in [Msg -> Stages] /\ Len(memoryMsgChan) \in Nat /\ MemQueueSize \in Nat
  BY Constants, LenProperties DEF HistoryType, Stages, QueueType
<1>5. \/ /\ ~Full /\ memoryMsgChan' = Append(memoryMsgChan, m) /\ backend' = backend
         /\ spilled' = spilled /\ stage' = [stage EXCEPT ![m] = "queued"]
         /\ due' = [due EXCEPT ![m] = Settled] /\ Return(b, call[b].i, FALSE)
      \/ /\ backend' = Append(backend, m) /\ memoryMsgChan' = memoryMsgChan
         /\ spilled' = spilled \cup {m} /\ stage' = [stage EXCEPT ![m] = "queued"]
         /\ due' = [due EXCEPT ![m] = Settled] /\ Return(b, call[b].i, FALSE)
      \/ /\ stage' = [stage EXCEPT ![m] = "dropped"] /\ UNCHANGED <<queues, due, spilled>>
         /\ Return(b, call[b].i, FALSE)
      \/ /\ stage' = stage /\ UNCHANGED <<queues, due, spilled>>
         /\ Return(b, call[b].i, TRUE)
  BY DEF put
<1>6. stage' \in [Msg -> Stages] /\ \A x \in Msg : x # m => stage'[x] = stage[x]
  BY <1>2, <1>4, <1>5 DEF Stages
<1>7. QueueType'
  <2>1. CASE ~Full /\ memoryMsgChan' = Append(memoryMsgChan, m) /\ backend' = backend
    BY <1>2, <1>4, <2>1, AppendFacts DEF QueueType, Full
  <2>2. CASE backend' = Append(backend, m) /\ memoryMsgChan' = memoryMsgChan
    BY <1>2, <2>2, AppendFacts DEF QueueType
  <2>3. CASE UNCHANGED queues
    BY <2>3 DEF QueueType
  <2> QED  BY <1>5, <2>1, <2>2, <2>3
<1>8. ToMemory(b, m) \/ ToBackend(b, m) \/ ToNobody(b, m) \/ Refused(b, m)
  BY <1>2, <1>4, <1>5 DEF ToMemory, ToBackend, ToNobody, Refused
<1> QED  BY <1>1, <1>2, <1>3, <1>6, <1>7, <1>8

LEMMA PanicStep ==
    ASSUME Inv, Panic
    PROVE  /\ proc = "up" /\ proc' = "panic"
           /\ UNCHANGED <<ephemeral, queues, chans, pausing, startChan, pump, disk2, call,
                          messageCount, emptying, exiting, bounds, got, due, acked, spilled>>
           /\ stage' \in [Msg -> Stages]
           /\ \A m \in Msg : stage'[m] =
                 IF stage[m] \in {"queued", "toFile", "pump"} /\ ~Contains(backend, m)
                 THEN "panic" ELSE stage[m]
BY DEF Panic, Stages, Inv, Types, HistoryType

LEMMA NewTopicStep ==
    ASSUME Inv, NewTopic
    PROVE  /\ proc' = "up" /\ QueueType' /\ \A x : ~Contains(memoryMsgChan', x)
           /\ proc = "panic" \/ (exit = "done" /\ ~deleted)
           /\ UNCHANGED <<ephemeral, backend, channelMap, paused, admin, got, due, acked, spilled>>
           /\ opens' = opens + 1 /\ pausers' = 0 /\ messageCount' = 0 /\ pump' = NewPump
           /\ toFile' = "recv" /\ exit' = "no" /\ updates' = {} /\ dropping' = {}
           /\ exitedChans' = (exitedChans \cup {drop[1] : drop \in dropping}) \ channelMap
           /\ startChan' = FALSE /\ emptying' = FALSE /\ deleted' = FALSE /\ callback' = FALSE
           /\ readAhead' = (backend # << >>)
           /\ stage' \in [Msg -> Stages] /\ Distinct(memoryMsgChan')
           /\ \A m \in Msg : stage'[m] =
                 IF stage[m] \in {"queued", "toFile"} /\ ~Contains(backend, m)
                 THEN "unwritten" ELSE stage[m]
           /\ call' = [b \in Call |-> IF Inside(b) THEN [call[b] EXCEPT !.pc = "error"]
                                      ELSE call[b]]
<1> USE DEF Inv, Types
<1>1. memoryMsgChan' = << >> /\ backend' = backend
  BY DEF NewTopic
<1>2. QueueType' /\ (\A x : ~Contains(memoryMsgChan', x)) /\ Distinct(memoryMsgChan')
  BY <1>1, EmptyFacts, Constants DEF QueueType
<1>3. stage' = [m \in Msg |-> IF stage[m] \in {"queued", "toFile"} /\ ~Contains(backend, m)
                              THEN "unwritten" ELSE stage[m]]
  BY DEF NewTopic
<1>4. stage' \in [Msg -> Stages]
  BY <1>3 DEF Stages, HistoryType
<1> QED  BY <1>2, <1>3, <1>4 DEF NewTopic

LEMMA CallStep ==
    ASSUME CallType, NEW b \in Call, PutMessages(b)
    PROVE  /\ CallType' /\ call'[b].i = call[b].i
           /\ call'[b].pc = (IF exitFlag THEN "error" ELSE "put")
           /\ \A e \in Call : e # b => call'[e] = call[e]
<1> DEFINE x == [call[b] EXCEPT !.pc = IF exitFlag THEN "error" ELSE "put"]
<1>1. call' = [call EXCEPT ![b] = x]
  BY DEF PutMessages
<1>2. /\ x \in [pc : {"new", "put", "ok", "error"}, i : Nat] /\ x.i = call[b].i
      /\ x.pc = (IF exitFlag THEN "error" ELSE "put")
  BY DEF CallType
<1> HIDE DEF x
<1> QED  BY <1>1, <1>2 DEF CallType

LEMMA NewTopicCalls ==
    ASSUME CallType, call' = [b \in Call |-> IF Inside(b) THEN [call[b] EXCEPT !.pc = "error"]
                                             ELSE call[b]]
    PROVE  /\ CallType'
           /\ \A b \in Call : ~Inside(b)' /\ (call'[b].pc = "new" <=> call[b].pc = "new")
BY DEF CallType, Inside

-----------------------------------------------------------------------------
(* Types.                                                                   *)

LEMMA TypesStill ==
    ASSUME Inv, Still
    PROVE  Types'
<1> USE DEF Inv, Types
<1>1. QueueType'
  BY StillStep DEF QueueType
<1>2. ChanType'
  <2> USE DEF ChanType
  <2>1. CASE (\E c \in Chan : GetChannel(c) \/ DeleteExistingChannel(c) \/ DeleteChannel(c)) \/ ExitChannels
    <3>1. ASSUME NEW c \in Chan, GetChannel(c) PROVE ChanType'
      <4> DEFINE u == <<c, FALSE>>
      <4>1. updates' = updates \cup {u} /\ u \in Chan \X BOOLEAN
        BY <3>1, Zenon DEF GetChannel, Announced
      <4> HIDE DEF u
      <4> QED  BY <3>1, <4>1 DEF GetChannel
    <3>2. ASSUME NEW c \in Chan, DeleteExistingChannel(c) PROVE ChanType'
      <4> DEFINE d == <<c, channelMap = {c}>>
      <4>1. dropping' = dropping \cup {d} /\ d \in Chan \X BOOLEAN
        BY <3>2, Zenon DEF DeleteExistingChannel
      <4> HIDE DEF d
      <4> QED  BY <3>2, <4>1 DEF DeleteExistingChannel
    <3>3. ASSUME NEW c \in Chan, DeleteChannel(c) PROVE ChanType'
      BY <3>3 DEF DeleteChannel
    <3> QED  BY <2>1, <3>1, <3>2, <3>3 DEF ExitChannels
  <2>2. CASE PumpChannelUpdate \/ GiveUp
    BY <2>2 DEF PumpChannelUpdate, GiveUp
  <2>3. CASE UNCHANGED chans
    BY <2>3
  <2> QED  BY <2>1, <2>2, <2>3 DEF Still, doPUB, doMPUB, PutMessages, Start, PumpStart, PumpPause, PumpPut,
              PumpExit, doPause, Empty, Exit, DeleteCallback, ExitWait, vars
<1>3. PumpType'
  <2> USE DEF PumpType
  <2>1. CASE PumpStart \/ PumpExit \/ PumpChannelUpdate \/ PumpPause
    BY <2>1 DEF PumpStart, PumpExit, PumpChannelUpdate, PumpPause, Refreshed, Repaused, NewPump,
          ChanType
  <2>2. CASE PumpPut
    BY <2>2 DEF PumpPut
  <2>3. CASE UNCHANGED pump
    BY <2>3
  <2> QED  BY <2>1, <2>2, <2>3 DEF Still, doPUB, doMPUB, PutMessages, Start, doPause, Empty, Exit, DeleteCallback,
              ExitWait, ExitChannels, GetChannel, DeleteExistingChannel, DeleteChannel, GiveUp, vars
<1>4. FlagType'
  <2> USE DEF FlagType
  <2>1. CASE PumpChannelUpdate \/ GiveUp
    BY <2>1 DEF PumpChannelUpdate, GiveUp
  <2>2. CASE (\E kind \in ExitKinds : Exit(kind = "delete")) \/ DeleteCallback
    BY <2>2 DEF Exit, DeleteCallback
  <2>3. CASE (\E pause \in BOOLEAN : doPause(pause)) \/ Empty \/ Start \/ PumpStart
    BY <2>3 DEF doPause, Empty, Start, PumpStart
  <2>4. CASE UNCHANGED <<ephemeral, paused, startChan, readAhead, emptying, deleted, callback>>
    BY <2>4
  <2> QED  BY <2>1, <2>2, <2>3, <2>4 DEF Still, doPUB, doMPUB, PutMessages, PumpPause, PumpPut, PumpExit, ExitWait,
              ExitChannels, GetChannel, DeleteExistingChannel, DeleteChannel, vars
<1>5. CounterType' /\ PCType'
  <2> USE DEF CounterType, PCType
  <2>1. UNCHANGED <<opens, messageCount, proc, toFile>>
    BY StillStep
  <2>2. admin' = admin \/ admin' = admin + 1
    BY DEF Still, doPUB, doMPUB, PutMessages, Start, PumpStart, PumpChannelUpdate, PumpPause,
           PumpPut, PumpExit, GetChannel, DeleteExistingChannel, DeleteChannel, doPause, GiveUp,
           Empty, Exit, DeleteCallback, ExitWait, ExitChannels, Admin, vars
  <2>4. pausers' = pausers \/ pausers' = pausers + 1 \/ (pausers > 0 /\ pausers' = pausers - 1)
    BY DEF Still, doPUB, doMPUB, PutMessages, Start, PumpStart, PumpChannelUpdate, PumpPause,
           PumpPut, PumpExit, GetChannel, DeleteExistingChannel, DeleteChannel, doPause, GiveUp,
           Empty, Exit, DeleteCallback, ExitWait, ExitChannels, vars
  <2>3. exit' \in {"no", "wait", "channels", "empty", "flush", "done"}
    BY DEF Still, doPUB, doMPUB, PutMessages, Start, PumpStart, PumpChannelUpdate, PumpPause,
           PumpPut, PumpExit, GetChannel, DeleteExistingChannel, DeleteChannel, doPause, GiveUp,
           Empty, Exit, DeleteCallback, ExitWait, ExitChannels, vars
  <2> QED  BY <2>1, <2>2, <2>3, <2>4
<1>6. CallType'
  <2> USE DEF CallType
  <2>1. CASE \E b \in Call : doPUB(b) \/ doMPUB(b)
    BY <2>1, CallStep DEF doPUB, doMPUB
  <2>2. CASE UNCHANGED call
    BY <2>2
  <2> QED  BY <2>1, <2>2 DEF Still, Start, PumpStart, PumpChannelUpdate, PumpPause, PumpPut, PumpExit,
              GetChannel, DeleteExistingChannel, DeleteChannel, doPause, GiveUp, Empty, Exit,
              DeleteCallback, ExitWait, ExitChannels, vars
<1>7. HistoryType'
  <2> USE DEF HistoryType
  <2>1. CASE PumpPut
    BY <2>1 DEF PumpPut, PumpType, CopyDelayed
  <2>2. CASE UNCHANGED history
    BY <2>2
  <2> QED  BY <2>1, <2>2 DEF Still, doPUB, doMPUB, PutMessages, Start, PumpStart, PumpChannelUpdate, PumpPause,
              PumpExit, GetChannel, DeleteExistingChannel, DeleteChannel, doPause, GiveUp, Empty, Exit,
              DeleteCallback, ExitWait, ExitChannels, vars
<1> QED  BY <1>1, <1>2, <1>3, <1>4, <1>5, <1>6, <1>7

LEMMA TypesMoves ==
    ASSUME Inv, Moves
    PROVE  Types'
<1> USE DEF Inv, Types
<1>1. /\ proc = "up" /\ QueueType' /\ stage' \in [Msg -> Stages]
      /\ UNCHANGED <<proc, ephemeral, chans, pausing, startChan, readAhead, call,
                     messageCount, deleted, callback, bounds, got, due, acked>>
  BY MoveStep
<1>2. ChanType' /\ CounterType' /\ CallType'
  BY <1>1 DEF ChanType, CounterType, CallType
<1>3. PumpType'
  <2> USE DEF PumpType
  <2>1. CASE PumpMemory
    <3>1. Head(memoryMsgChan) \in Msg
      BY <2>1, TailFacts DEF PumpMemory, QueueType
    <3> DEFINE delayed == Head(memoryMsgChan) \in Deferred
    <3>2. delayed \in BOOLEAN /\ Take(Head(memoryMsgChan), delayed)
      BY <2>1 DEF PumpMemory
    <3> HIDE DEF delayed
    <3> QED  BY <3>1, <3>2 DEF Take
  <2>2. CASE PumpBackend
    <3>1. Head(backend) \in Msg
      BY <2>2, TailFacts DEF PumpBackend, QueueType
    <3> QED  BY <2>2, <3>1 DEF PumpBackend, Take
  <2>3. CASE PumpNext
    BY <2>3 DEF PumpNext
  <2> QED  BY <2>1, <2>2, <2>3 DEF Moves, ToFileReceive, ToFileError, EmptyStep, ExitEmpty, ExitFlush
<1>4. emptying' \in BOOLEAN
  BY DEF Moves, PumpMemory, PumpBackend, Take, PumpNext, ToFileReceive, ToFileError, EmptyStep,
         ExitEmpty, ExitFlush, FlagType
<1>5. toFile' \in Msg \cup {"recv", "done"}
  <2>1. CASE ToFileReceive
    BY <2>1, TailFacts DEF ToFileReceive, QueueType
  <2> QED  BY <2>1 DEF Moves, PumpMemory, PumpBackend, Take, PumpNext, ToFileError, EmptyStep,
              ExitEmpty, ExitFlush, PCType
<1>6. exit' \in {"no", "wait", "channels", "empty", "flush", "done"}
  BY DEF Moves, PumpMemory, PumpBackend, Take, PumpNext, ToFileReceive, ToFileError, EmptyStep,
         ExitEmpty, ExitFlush, PCType
<1>7. spilled' \subseteq Msg
  <2>1. CASE ExitFlush
    <3>1. memoryMsgChan # << >> => Head(memoryMsgChan) \in Msg
      BY TailFacts DEF QueueType
    <3> QED  BY <2>1, <3>1 DEF ExitFlush, HistoryType
  <2> QED  BY <2>1 DEF Moves, PumpMemory, PumpBackend, Take, PumpNext, ToFileReceive, ToFileError,
              EmptyStep, ExitEmpty, HistoryType
<1>8. FlagType' /\ PCType'
  BY <1>1, <1>4, <1>5, <1>6 DEF FlagType, PCType
<1>9. HistoryType'
  BY <1>1, <1>7 DEF HistoryType, Stages
<1> QED  BY <1>1, <1>2, <1>3, <1>8, <1>9

LEMMA SettledType ==
    ASSUME ChanType
    PROVE  Settled \subseteq channelMap /\ Settled \subseteq Chan
BY DEF Settled, ChanType

LEMMA TypesPut ==
    ASSUME Inv, NEW b \in Call, put(b)
    PROVE  Types'
<1> USE DEF Inv, Types
<1> DEFINE m == b[call[b].i]
<1>1. /\ Inside(b) /\ m \in Msg /\ QueueType' /\ stage' \in [Msg -> Stages]
      /\ UNCHANGED <<proc, ephemeral, chans, pausing, startChan, pump, disk2, emptying,
                     exiting, bounds, got>>
      /\ ToMemory(b, m) \/ ToBackend(b, m) \/ ToNobody(b, m) \/ Refused(b, m)
  BY PutStep
<1> HIDE DEF m
<1>2. \E failed \in BOOLEAN : Return(b, call[b].i, failed)
  BY <1>1 DEF ToMemory, ToBackend, ToNobody, Refused
<1>3. CallType' /\ messageCount' \in Nat /\ acked' \subseteq Msg
  <2>1. CallType' /\ messageCount' \in Nat
    BY <1>1, <1>2, ReturnStep
  <2>2. Range(b) \subseteq Msg
    BY Constants DEF Range
  <2> QED  BY <1>2, <2>1, <2>2 DEF Return, HistoryType
<1>4. spilled' \subseteq Msg /\ due' \in [Msg -> SUBSET Chan]
  BY <1>1, SettledType DEF ToMemory, ToBackend, ToNobody, Refused, HistoryType
<1>5. HistoryType'
  BY <1>1, <1>3, <1>4 DEF HistoryType, Stages
<1> QED  BY <1>1, <1>3, <1>5 DEF ChanType, PumpType, FlagType, CounterType, PCType

LEMMA TypesPanic ==
    ASSUME Inv, Panic
    PROVE  Types'
<1>1. HistoryType' /\ PCType'
  BY PanicStep DEF Inv, Types, HistoryType, PCType, Stages
<1> QED  BY <1>1, PanicStep DEF Inv, Types, QueueType, ChanType, PumpType, FlagType, CounterType,
            CallType

LEMMA TypesNewTopic ==
    ASSUME Inv, NewTopic
    PROVE  Types'
<1> USE DEF Inv, Types
<1>1. QueueType' /\ PumpType' /\ PCType' /\ CounterType'
  <2>1. PumpType' /\ PCType'
    <3>1. pump' = NewPump /\ proc' = "up" /\ toFile' = "recv" /\ exit' = "no"
      BY NewTopicStep
    <3> QED  BY <3>1 DEF PumpType, NewPump, PCType
  <2>2. opens' = opens + 1 /\ pausers' = 0 /\ messageCount' = 0 /\ admin' = admin
    BY NewTopicStep
  <2>3. CounterType'
    BY <2>2 DEF CounterType
  <2> QED  BY <2>1, <2>3, NewTopicStep
<1>2. FlagType' /\ HistoryType'
  BY NewTopicStep DEF FlagType, HistoryType, Stages
<1>3. ChanType'
  BY NewTopicStep DEF ChanType
<1>4. CallType'
  BY NewTopicStep, NewTopicCalls
<1> QED  BY <1>1, <1>2, <1>3, <1>4

LEMMA TypesNext ==
    ASSUME Inv, [Next]_vars
    PROVE  Types'
BY Steps, TypesStill, TypesMoves, TypesPut, TypesPanic, TypesNewTopic

-----------------------------------------------------------------------------
(* Calls.                                                                   *)

LEMMA PublishedIs ==
    Publishing \subseteq Call /\ \A m : m \in Published <=> \E b \in Publishing : m \in Range(b)
BY DEF Publishing, Published

LEMMA CallRange ==
    ASSUME NEW b \in Call
    PROVE  \A m : m \in Range(b) <=> \E j \in 1..Len(b) : b[j] = m
BY Constants DEF Range

LEMMA CallKept ==
    ASSUME Inv, UNCHANGED <<call, acked>>,
           \A m \in Msg : stage'[m] = "new" <=> stage[m] = "new",
           \A m \in spilled' : m \in Msg /\ stage[m] # "new"
    PROVE  CallInv'
<1> USE DEF Inv, Types
<1>1. \A b \in Call : Inside(b)' <=> Inside(b)
  BY DEF Inside
<1>2. Publishing' = Publishing /\ Published' = Published
  BY DEF Publishing, Published
<1>3. \A b \in Call : \A j \in 1..Len(b) : b[j] \in Msg
  BY Constants
<1>4. \A m \in acked' \cup spilled' : stage'[m] # "new"
  BY DEF CallInv, HistoryType
<1> QED  BY <1>1, <1>2, <1>3, <1>4 DEF CallInv

LEMMA CallPublish ==
    ASSUME Inv, NEW b \in Call, PutMessages(b)
    PROVE  CallInv' /\ call[b].pc = "new" /\ \A m \in Range(b) : stage[m] = "new"
<1> USE DEF Inv, Types
<1>1. /\ call'[b].i = call[b].i /\ call'[b].pc \in {"put", "error"}
      /\ \A e \in Call : e # b => call'[e] = call[e]
      /\ UNCHANGED <<stage, acked, spilled>>
  BY CallStep DEF PutMessages
<1>2. \A m \in Range(b) : m \notin Published /\ m \in Msg
  BY Constants DEF PutMessages, Range
<1>3. call[b].pc = "new"
  <2>1. b[1] \in Range(b)
    BY Constants, CallRange
  <2> QED  BY <1>2, <2>1, PublishedIs DEF Publishing
<1>4. \A m \in Range(b) : stage[m] = "new"
  BY <1>2 DEF CallInv
<1>5. Publishing' = Publishing \cup {b} /\ b \notin Publishing
  BY <1>1, <1>3 DEF Publishing
<1>6. \A e \in Call : e # b => (Inside(e)' <=> Inside(e))
  BY <1>1 DEF Inside
<1>7. ASSUME NEW e \in Call, Inside(e)', NEW j \in 1..Len(e)
      PROVE  stage'[e[j]] = "new" <=> j >= call'[e].i
  <2>1. CASE e = b
    <3>1. call'[b].i = 1 /\ stage'[b[j]] = "new" /\ j >= 1
      BY <1>1, <1>3, <1>4, <2>1, <1>7, CallRange DEF CallInv
    <3> QED  BY <2>1, <3>1
  <2>2. CASE e # b
    BY <1>1, <1>6, <1>7, <2>2 DEF CallInv
  <2> QED  BY <2>1, <2>2
<1>8. \A e \in Publishing : \A m \in Range(b) : m \notin Range(e)
  BY <1>2, PublishedIs
<1>9. \A e, g \in Publishing' : e # g => \A m \in Range(e) : m \notin Range(g)
  BY <1>5, <1>8 DEF CallInv
<1>10. \A m \in Published : m \in Published'
  BY <1>5 DEF Published
<1>11. \A e \in Call : call'[e].pc = "new" => call'[e].i = 1
  BY <1>1 DEF CallInv
<1>12. \A m \in Msg : stage'[m] # "new" => m \in Published'
  BY <1>1, <1>10 DEF CallInv
<1>13. CallInv'
  BY <1>1, <1>7, <1>9, <1>11, <1>12 DEF CallInv
<1> QED  BY <1>3, <1>4, <1>13

LEMMA CallPut ==
    ASSUME Inv, NEW b \in Call, put(b)
    PROVE  CallInv'
<1> USE DEF Inv, Types
<1> DEFINE i == call[b].i
           m == b[i]
<1>1. /\ Inside(b) /\ m \in Msg /\ i \in 1..Len(b) /\ stage[m] = "new"
      /\ \A x \in Msg : x # m => stage'[x] = stage[x]
      /\ ToMemory(b, m) \/ ToBackend(b, m) \/ ToNobody(b, m) \/ Refused(b, m)
  BY PutStep
<1>2. m = b[i] /\ i = call[b].i
  OBVIOUS
<1> HIDE DEF m, i
<1>3. \E failed \in BOOLEAN : /\ Return(b, i, failed)
                              /\ failed => stage'[m] = "new"
                              /\ ~failed => stage'[m] # "new"
  BY <1>1, <1>2 DEF ToMemory, ToBackend, ToNobody, Refused
<1>4. PICK failed \in BOOLEAN : /\ Return(b, i, failed)
                                /\ failed => stage'[m] = "new"
                                /\ ~failed => stage'[m] # "new"
  BY <1>3
<1>5. /\ \A e \in Call : e # b => call'[e] = call[e]
      /\ failed => call'[b].pc = "error"
      /\ ~failed /\ i < Len(b) => call'[b].pc = "put" /\ call'[b].i = i + 1
      /\ ~failed /\ i = Len(b) => call'[b].pc = "ok"
  BY <1>1, <1>2, <1>4, ReturnStep
<1>6. call'[b].pc # "new" /\ call[b].pc # "new"
  BY <1>1, <1>5, Constants DEF Inside
<1>7. Publishing' = Publishing /\ Published' = Published /\ b \in Publishing
  BY <1>5, <1>6 DEF Publishing, Published
<1>8. m \in Range(b) /\ m \in Published
  BY <1>1, <1>2, <1>7, CallRange, PublishedIs
<1>9. ASSUME NEW e \in Call, Inside(e)', NEW j \in 1..Len(e)
      PROVE  stage'[e[j]] = "new" <=> j >= call'[e].i
  <2>1. CASE e # b
    <3>1. Inside(e) /\ call'[e] = call[e]
      BY <1>5, <1>9, <2>1 DEF Inside
    <3>2. e[j] # m /\ e[j] \in Msg
      BY <1>7, <1>8, <2>1, <3>1, CallRange, Constants DEF CallInv, Publishing, Inside
    <3> QED  BY <1>1, <3>1, <3>2 DEF CallInv
  <2>2. CASE e = b
    <3>1. ~failed /\ i < Len(b) /\ call'[b].i = i + 1
      BY <1>1, <1>5, <1>9, <2>2, Constants DEF Inside
    <3>2. CASE j = i
      BY <1>1, <1>2, <1>4, <2>2, <3>1, <3>2
    <3>3. CASE j # i
      <4>1. b[j] # m /\ b[j] \in Msg
        BY <1>1, <1>2, <2>2, <3>3, Constants
      <4>2. stage'[b[j]] = stage[b[j]] /\ (stage[b[j]] = "new" <=> j >= i)
        BY <1>1, <1>2, <2>2, <4>1 DEF CallInv
      <4> QED  BY <1>1, <2>2, <3>1, <3>3, <4>2, Constants
    <3> QED  BY <3>2, <3>3
  <2> QED  BY <2>1, <2>2
<1>10. \A x \in Msg : stage'[x] # "new" => x \in Published'
  BY <1>1, <1>7, <1>8 DEF CallInv
<1>11. \A x \in spilled' : stage'[x] # "new"
  <2>1. spilled' = spilled \/ (spilled' = spilled \cup {m} /\ stage'[m] # "new")
    BY <1>1 DEF ToMemory, ToBackend, ToNobody, Refused
  <2> QED  BY <1>1, <2>1 DEF CallInv, HistoryType
<1>12. \A x \in acked' : stage'[x] # "new"
  <2>1. acked' = acked \/ (acked' = acked \cup Range(b) /\ ~failed /\ i = Len(b))
    BY <1>4 DEF Return
  <2>2. \A x \in acked : stage'[x] # "new"
    BY <1>1 DEF CallInv, HistoryType
  <2>3. ASSUME ~failed, i = Len(b), NEW x \in Range(b) PROVE stage'[x] # "new"
    <3>1. PICK j \in 1..Len(b) : b[j] = x
      BY <2>3, CallRange
    <3>2. CASE j = i
      BY <1>2, <1>4, <2>3, <3>1, <3>2
    <3>3. CASE j # i
      <4>1. x # m /\ x \in Msg /\ ~(j >= i)
        BY <1>1, <1>2, <2>3, <3>1, <3>3, Constants
      <4> QED  BY <1>1, <1>2, <3>1, <4>1 DEF CallInv
    <3> QED  BY <3>2, <3>3
  <2> QED  BY <2>1, <2>2, <2>3
<1>13. \A e \in Call : call'[e].pc = "new" => call'[e].i = 1
  BY <1>5, <1>6 DEF CallInv
<1> QED  BY <1>7, <1>9, <1>10, <1>11, <1>12, <1>13 DEF CallInv

\* Only put() makes a message something else than new.
LEMMA NewStays ==
    ASSUME Inv, [Next]_vars, ~\E b \in Call : put(b)
    PROVE  \A m \in Msg : stage'[m] = "new" <=> stage[m] = "new"
<1>1. CASE Still
  BY <1>1, StillStep DEF Inv, Types
<1>2. CASE Moves
  BY <1>2, MoveStep
<1>3. CASE Panic
  BY <1>3, PanicStep
<1>4. CASE NewTopic
  BY <1>4, NewTopicStep
<1> QED  BY <1>1, <1>2, <1>3, <1>4, Steps

LEMMA CallNext ==
    ASSUME Inv, [Next]_vars
    PROVE  CallInv'
<1> USE DEF Inv, Types
<1>1. CASE \E b \in Call : put(b)
  BY <1>1, CallPut
<1>2. CASE ~\E b \in Call : put(b)
  <2>1. \A m \in Msg : stage'[m] = "new" <=> stage[m] = "new"
    BY <1>2, NewStays
  <2>2. CASE \E b \in Call : doPUB(b) \/ doMPUB(b)
    BY <2>2, CallPublish DEF doPUB, doMPUB
  <2>3. CASE Still /\ ~\E b \in Call : doPUB(b) \/ doMPUB(b)
    <3>1. UNCHANGED call
      BY <2>3 DEF Still, Start, PumpStart, PumpChannelUpdate, PumpPause, PumpPut, PumpExit,
              GetChannel, DeleteExistingChannel, DeleteChannel, doPause, GiveUp, Empty, Exit,
              DeleteCallback, ExitWait, ExitChannels, vars
    <3> QED  BY <2>1, <2>3, <3>1, StillStep, CallKept DEF CallInv, HistoryType
  <2>4. CASE Moves
    <3>1. \A m \in spilled' : m \in Msg /\ stage[m] # "new"
      <4>1. CASE ExitFlush
        <5>1. memoryMsgChan # << >> => Head(memoryMsgChan) \in Msg /\ stage[Head(memoryMsgChan)] = "queued"
          BY <4>1, TailFacts DEF QueueType, PlaceInv, ExitFlush
        <5> QED  BY <4>1, <5>1 DEF ExitFlush, CallInv, HistoryType
      <4>2. CASE UNCHANGED spilled
        BY <4>2 DEF CallInv, HistoryType
      <4> QED  BY <2>4, <4>1, <4>2 DEF Moves, PumpMemory, PumpBackend, Take, PumpNext, ToFileReceive,
                  ToFileError, EmptyStep, ExitEmpty
    <3> QED  BY <2>1, <2>4, <3>1, MoveStep, CallKept
  <2>5. CASE Panic
    BY <2>1, <2>5, PanicStep, CallKept DEF CallInv, HistoryType
  <2>6. CASE NewTopic
    <3>1. /\ \A b \in Call : ~Inside(b)' /\ (call'[b].pc = "new" <=> call[b].pc = "new")
          /\ \A b \in Call : call'[b].pc = "new" => call'[b] = call[b]
      BY <2>6, NewTopicStep, NewTopicCalls DEF Inside
    <3>2. Publishing' = Publishing /\ Published' = Published
      BY <3>1 DEF Publishing, Published
    <3>3. UNCHANGED <<acked, spilled>>
      BY <2>6, NewTopicStep
    <3> QED  BY <2>1, <3>1, <3>2, <3>3 DEF CallInv, HistoryType
  <2> QED  BY <1>2, <2>2, <2>3, <2>4, <2>5, <2>6, Steps
<1> QED  BY <1>1, <1>2

-----------------------------------------------------------------------------
(* Where the messages are, and with what delay.                             *)

\* A message that leaves memory.
LEMMA LeavesMemory ==
    ASSUME Inv, proc = "up", memoryMsgChan # << >>, NEW h, h = Head(memoryMsgChan),
           memoryMsgChan' = Tail(memoryMsgChan)
    PROVE  /\ h \in Msg /\ stage[h] = "queued" /\ Contains(memoryMsgChan, h)
           /\ ~Contains(memoryMsgChan', h) /\ ~Contains(backend, h) /\ h \notin spilled
           /\ \A m \in Msg : m # h => (Contains(memoryMsgChan', m) <=> Contains(memoryMsgChan, m))
           /\ Distinct(memoryMsgChan')
<1> DEFINE t == Tail(memoryMsgChan)
<1>1. /\ h \in Msg /\ \A x : Contains(memoryMsgChan, x) <=> Contains(t, x) \/ x = h
      /\ Distinct(t) /\ ~Contains(t, h)
  BY TailFacts DEF Inv, Types, QueueType, PlaceInv
<1> HIDE DEF t
<1>2. memoryMsgChan' = t
  BY DEF t
<1> QED  BY <1>1, <1>2 DEF Inv, PlaceInv, DelayInv

LEMMA LeavesBackend ==
    ASSUME Inv, backend # << >>, NEW h, h = Head(backend), backend' = Tail(backend)
    PROVE  /\ h \in Msg /\ stage[h] = "queued" /\ Contains(backend, h)
           /\ ~Contains(backend', h) /\ ~Contains(memoryMsgChan, h) /\ h \in spilled
           /\ \A m \in Msg : m # h => (Contains(backend', m) <=> Contains(backend, m))
           /\ Distinct(backend')
<1> DEFINE t == Tail(backend)
<1>1. /\ h \in Msg /\ \A x : Contains(backend, x) <=> Contains(t, x) \/ x = h
      /\ Distinct(t) /\ ~Contains(t, h)
  BY TailFacts DEF Inv, Types, QueueType, PlaceInv
<1> HIDE DEF t
<1>2. backend' = t
  BY DEF t
<1> QED  BY <1>1, <1>2 DEF Inv, PlaceInv, DelayInv

LEMMA JoinsMemory ==
    ASSUME Inv, NEW m \in Msg, memoryMsgChan' = Append(memoryMsgChan, m), ~Contains(memoryMsgChan, m)
    PROVE  /\ \A x \in Msg : Contains(memoryMsgChan', x) <=> Contains(memoryMsgChan, x) \/ x = m
           /\ Distinct(memoryMsgChan')
BY AppendFacts DEF Inv, Types, QueueType, PlaceInv

LEMMA JoinsBackend ==
    ASSUME Inv, NEW m \in Msg, backend' = Append(backend, m), ~Contains(backend, m)
    PROVE  /\ \A x \in Msg : Contains(backend', x) <=> Contains(backend, x) \/ x = m
           /\ Distinct(backend')
BY AppendFacts DEF Inv, Types, QueueType, PlaceInv

LEMMA PlaceMoves ==
    ASSUME Inv, Moves
    PROVE  PlaceInv' /\ DelayInv'
<1> USE DEF Inv, Types
<1>0. proc = "up" /\ proc' = proc /\ got' = got /\ stage \in [Msg -> Stages]
  BY MoveStep DEF HistoryType, Stages
<1>g. \A c \in Chan : \A e \in got[c] : e[1] \in Msg
  BY DEF HistoryType
<1>1. CASE PumpMemory
  <2> DEFINE h == Head(memoryMsgChan)
             delayed == h \in Deferred
  <2>1. /\ h \in Msg /\ stage[h] = "queued" /\ Contains(memoryMsgChan, h)
        /\ ~Contains(memoryMsgChan', h) /\ ~Contains(backend, h) /\ h \notin spilled
        /\ \A m \in Msg : m # h => (Contains(memoryMsgChan', m) <=> Contains(memoryMsgChan, m))
        /\ Distinct(memoryMsgChan')
    BY <1>0, <1>1, LeavesMemory DEF PumpMemory
  <2>2. /\ pump.pc = "loop" /\ backend' = backend /\ stage' = [stage EXCEPT ![h] = "pump"]
        /\ UNCHANGED <<toFile, spilled>> /\ delayed = (h \in Deferred) /\ delayed \in BOOLEAN
        /\ pump' = [pump EXCEPT !.pc = "fan", !.msg = h, !.delayed = delayed, !.rest = pump.chans]
    BY <1>1 DEF PumpMemory, Take
  <2> HIDE DEF h, delayed
  <2>3. pump'.pc = "fan" /\ pump'.msg = h /\ pump'.delayed = delayed
    BY <2>2 DEF PumpType
  <2>4. stage'[h] = "pump" /\ \A m \in Msg : m # h => stage'[m] = stage[m]
    BY <1>0, <2>1, <2>2
  <2>5. PlaceInv'
    BY <1>0, <2>1, <2>2, <2>3, <2>4 DEF PlaceInv
  <2>6. \A c \in Chan : \A e \in got'[c] : stage'[e[1]] \in {"pump", "fanned", "panic"}
    BY <1>0, <1>g, <2>4 DEF DelayInv
  <2>7. SameDelay'
    BY <1>0, <2>2 DEF DelayInv, SameDelay
  <2>8. \A m \in Msg : /\ Contains(memoryMsgChan', m) => m \notin spilled'
                       /\ Contains(backend', m) => m \in spilled'
    BY <2>1, <2>2 DEF DelayInv
  <2>9. (h \in Deferred) = (h \in Deferred \ spilled')
    BY <2>1, <2>2
  <2>10. pump'.delayed = (pump'.msg \in Deferred \ spilled')
    BY <2>2, <2>3, <2>9, Zenon
  <2> QED  BY <2>5, <2>6, <2>7, <2>8, <2>10, Zenon DEF DelayInv
<1>2. CASE PumpBackend
  <2> DEFINE h == Head(backend)
  <2>1. /\ h \in Msg /\ stage[h] = "queued" /\ Contains(backend, h)
        /\ ~Contains(backend', h) /\ ~Contains(memoryMsgChan, h) /\ h \in spilled
        /\ \A m \in Msg : m # h => (Contains(backend', m) <=> Contains(backend, m))
        /\ Distinct(backend')
    BY <1>0, <1>2, LeavesBackend DEF PumpBackend
  <2>2. /\ pump.pc = "loop" /\ memoryMsgChan' = memoryMsgChan
        /\ stage' = [stage EXCEPT ![h] = "pump"] /\ UNCHANGED <<toFile, spilled>>
        /\ pump' = [pump EXCEPT !.pc = "fan", !.msg = h, !.delayed = FALSE, !.rest = pump.chans]
    BY <1>2 DEF PumpBackend, Take
  <2> HIDE DEF h
  <2>3. pump'.pc = "fan" /\ pump'.msg = h /\ pump'.delayed = FALSE
    BY <2>2 DEF PumpType
  <2>4. stage'[h] = "pump" /\ \A m \in Msg : m # h => stage'[m] = stage[m]
    BY <1>0, <2>1, <2>2
  <2>5. PlaceInv'
    BY <1>0, <2>1, <2>2, <2>3, <2>4 DEF PlaceInv
  <2>6. \A c \in Chan : \A e \in got'[c] : stage'[e[1]] \in {"pump", "fanned", "panic"}
    BY <1>0, <1>g, <2>4 DEF DelayInv
  <2>7. SameDelay'
    BY <1>0, <2>2 DEF DelayInv, SameDelay
  <2>8. \A m \in Msg : /\ Contains(memoryMsgChan', m) => m \notin spilled'
                       /\ Contains(backend', m) => m \in spilled'
    BY <2>1, <2>2 DEF DelayInv
  <2>9. FALSE = (h \in Deferred \ spilled')
    BY <2>1, <2>2
  <2>10. pump'.delayed = (pump'.msg \in Deferred \ spilled')
    BY <2>3, <2>9, Zenon
  <2> QED  BY <2>5, <2>6, <2>7, <2>8, <2>10, Zenon DEF DelayInv
<1>3. CASE PumpNext
  <2> DEFINE h == pump.msg
  <2>1. /\ pump.pc = "fan" /\ stage' = [stage EXCEPT ![h] = "fanned"]
        /\ UNCHANGED <<queues, toFile, spilled>>
        /\ pump' = [pump EXCEPT !.pc = "loop", !.msg = Nil, !.delayed = FALSE]
    BY <1>3 DEF PumpNext
  <2>2. h \in Msg /\ stage[h] = "pump" /\ pump'.pc = "loop"
    BY <1>0, <2>1 DEF PumpType, PlaceInv
  <2>3. stage'[h] = "fanned" /\ \A m \in Msg : m # h => stage'[m] = stage[m]
    BY <1>0, <2>1, <2>2
  <2>4. PlaceInv'
    BY <1>0, <2>1, <2>2, <2>3 DEF PlaceInv
  <2>5. \A c \in Chan : \A e \in got'[c] : stage'[e[1]] \in {"pump", "fanned", "panic"}
    BY <1>0, <1>g, <2>3 DEF DelayInv
  <2>6. SameDelay'
    BY <1>0, <2>1 DEF DelayInv, SameDelay
  <2> QED  BY <2>1, <2>2, <2>4, <2>5, <2>6 DEF DelayInv
<1>4. CASE ToFileReceive
  <2> DEFINE h == Head(memoryMsgChan)
  <2>1. /\ h \in Msg /\ stage[h] = "queued" /\ Contains(memoryMsgChan, h)
        /\ ~Contains(memoryMsgChan', h) /\ ~Contains(backend, h) /\ h \notin spilled
        /\ \A m \in Msg : m # h => (Contains(memoryMsgChan', m) <=> Contains(memoryMsgChan, m))
        /\ Distinct(memoryMsgChan')
    BY <1>0, <1>4, LeavesMemory DEF ToFileReceive
  <2>2. /\ backend' = backend /\ stage' = [stage EXCEPT ![h] = "toFile"]
        /\ UNCHANGED <<pump, spilled>> /\ toFile = "recv" /\ toFile' = h
    BY <1>4 DEF ToFileReceive
  <2> HIDE DEF h
  <2>3. stage'[h] = "toFile" /\ \A m \in Msg : m # h => stage'[m] = stage[m]
    BY <1>0, <2>1, <2>2
  <2>4. PlaceInv'
    BY <1>0, <2>1, <2>2, <2>3, Constants DEF PlaceInv
  <2>5. \A c \in Chan : \A e \in got'[c] : stage'[e[1]] \in {"pump", "fanned", "panic"}
    BY <1>0, <1>g, <2>1, <2>3 DEF DelayInv
  <2>6. SameDelay'
    BY <1>0, <2>2 DEF DelayInv, SameDelay
  <2>7. \A m \in Msg : /\ Contains(memoryMsgChan', m) => m \notin spilled'
                       /\ Contains(backend', m) => m \in spilled'
    BY <2>1, <2>2 DEF DelayInv
  <2> QED  BY <2>2, <2>4, <2>5, <2>6, <2>7 DEF DelayInv
<1>5. CASE ToFileError
  <2>1. /\ toFile \in Msg /\ toFile' = "done" /\ stage' = [stage EXCEPT ![toFile] = "stray"]
        /\ UNCHANGED <<queues, pump, spilled>>
    BY <1>5 DEF ToFileError
  <2>2. stage[toFile] = "toFile"
    BY <1>0, <2>1 DEF PlaceInv
  <2>3. stage'[toFile] = "stray" /\ \A m \in Msg : m # toFile => stage'[m] = stage[m]
    BY <1>0, <2>1
  <2>4. PlaceInv'
    BY <1>0, <2>1, <2>2, <2>3, Constants DEF PlaceInv
  <2>5. \A c \in Chan : \A e \in got'[c] : stage'[e[1]] \in {"pump", "fanned", "panic"}
    BY <1>0, <1>g, <2>2, <2>3 DEF DelayInv
  <2>6. SameDelay'
    BY <1>0, <2>1 DEF DelayInv, SameDelay
  <2> QED  BY <2>1, <2>4, <2>5, <2>6 DEF DelayInv
<1>6. CASE EmptyStep \/ ExitEmpty
  <2>1. (UNCHANGED <<queues, stage>> \/ Drain) /\ UNCHANGED <<pump, toFile, spilled>>
    BY <1>6 DEF EmptyStep, ExitEmpty
  <2>2. /\ Distinct(memoryMsgChan') /\ Distinct(backend')
        /\ \A m \in Msg : Contains(memoryMsgChan', m) => Contains(memoryMsgChan, m)
        /\ \A m \in Msg : Contains(backend', m) => Contains(backend, m)
        /\ \A m \in Msg :
                 \/ stage'[m] = stage[m] /\ (Queued(m)' <=> Queued(m))
                 \/ stage'[m] = "emptied" /\ stage[m] = "queued" /\ ~Queued(m)'
    <3>1. CASE UNCHANGED <<queues, stage>>
      BY <3>1 DEF PlaceInv, Queued
    <3>2. CASE Drain
      BY <1>0, <3>2, DrainStep
    <3> QED  BY <2>1, <3>1, <3>2
  <2>3. PlaceInv'
    BY <1>0, <2>1, <2>2 DEF PlaceInv, Queued
  <2>4. \A c \in Chan : \A e \in got'[c] : stage'[e[1]] \in {"pump", "fanned", "panic"}
    BY <1>0, <1>g, <2>2 DEF DelayInv
  <2>5. SameDelay'
    BY <1>0, <2>1 DEF DelayInv, SameDelay
  <2>6. \A m \in Msg : /\ Contains(memoryMsgChan', m) => m \notin spilled'
                       /\ Contains(backend', m) => m \in spilled'
    BY <2>1, <2>2 DEF DelayInv
  <2> QED  BY <2>1, <2>3, <2>4, <2>5, <2>6 DEF DelayInv
<1>7. CASE ExitFlush
  <2>1. UNCHANGED <<pump, toFile>>
    BY <1>7 DEF ExitFlush
  <2>2. CASE memoryMsgChan = << >>
    <3>1. UNCHANGED <<queues, stage, spilled>>
      BY <1>7, <2>2 DEF ExitFlush
    <3> QED  BY <1>0, <2>1, <3>1 DEF PlaceInv, DelayInv, SameDelay
  <2>3. CASE memoryMsgChan # << >>
    <3> DEFINE h == Head(memoryMsgChan)
    <3>1. memoryMsgChan' = Tail(memoryMsgChan)
      BY <1>7, <2>3 DEF ExitFlush
    <3>2. /\ h \in Msg /\ stage[h] = "queued" /\ Contains(memoryMsgChan, h)
          /\ ~Contains(memoryMsgChan', h) /\ ~Contains(backend, h) /\ h \notin spilled
          /\ \A m \in Msg : m # h => (Contains(memoryMsgChan', m) <=> Contains(memoryMsgChan, m))
          /\ Distinct(memoryMsgChan')
      BY <1>0, <2>3, <3>1, LeavesMemory
    <3>3. \/ /\ stage' = [stage EXCEPT ![h] = "dropped"] \/ stage' = [stage EXCEPT ![h] = "unwritten"]
             /\ UNCHANGED <<backend, spilled>>
          \/ /\ backend' = Append(backend, h) /\ spilled' = spilled \cup {h} /\ stage' = stage
      BY <1>7, <2>3 DEF ExitFlush
    <3> HIDE DEF h
    <3>4. /\ pump.pc = "fan" => pump.msg # h /\ pump.msg \in Msg
          /\ \A c \in Chan : \A e \in got[c] : e[1] # h
      BY <1>0, <3>2 DEF PlaceInv, DelayInv, PumpType
    <3>5. CASE /\ stage' = [stage EXCEPT ![h] = "dropped"] \/ stage' = [stage EXCEPT ![h] = "unwritten"]
               /\ UNCHANGED <<backend, spilled>>
      <4>1. stage'[h] \in {"dropped", "unwritten"} /\ \A m \in Msg : m # h => stage'[m] = stage[m]
        BY <1>0, <3>2, <3>5
      <4>2. PlaceInv'
        BY <1>0, <2>1, <3>2, <3>5, <4>1 DEF PlaceInv
      <4>3. \A c \in Chan : \A e \in got'[c] : stage'[e[1]] \in {"pump", "fanned", "panic"}
        BY <1>0, <1>g, <3>4, <4>1 DEF DelayInv
      <4>4. SameDelay'
        BY <1>0, <3>5 DEF DelayInv, SameDelay
      <4>5. \A m \in Msg : /\ Contains(memoryMsgChan', m) => m \notin spilled'
                           /\ Contains(backend', m) => m \in spilled'
        BY <3>2, <3>5 DEF DelayInv
      <4> QED  BY <2>1, <3>5, <4>2, <4>3, <4>4, <4>5 DEF DelayInv
    <3>6. CASE backend' = Append(backend, h) /\ spilled' = spilled \cup {h} /\ stage' = stage
      <4>1. /\ \A x \in Msg : Contains(backend', x) <=> Contains(backend, x) \/ x = h
            /\ Distinct(backend')
        BY <3>2, <3>6, JoinsBackend
      <4>2. PlaceInv'
        BY <1>0, <2>1, <3>2, <3>6, <4>1 DEF PlaceInv
      <4>3. \A c \in Chan : \A e \in got'[c] : stage'[e[1]] \in {"pump", "fanned", "panic"}
        BY <1>0, <3>6 DEF DelayInv
      <4>4. SameDelay'
        BY <1>0, <3>4, <3>6 DEF DelayInv, SameDelay
      <4>5. \A m \in Msg : /\ Contains(memoryMsgChan', m) => m \notin spilled'
                           /\ Contains(backend', m) => m \in spilled'
        BY <3>2, <3>6, <4>1 DEF DelayInv
      <4>6. pump'.pc = "fan" => pump'.delayed = (pump'.msg \in Deferred \ spilled')
        BY <2>1, <3>4, <3>6 DEF DelayInv
      <4> QED  BY <4>2, <4>3, <4>4, <4>5, <4>6 DEF DelayInv
    <3> QED  BY <3>3, <3>5, <3>6
  <2> QED  BY <2>2, <2>3
<1> QED  BY <1>1, <1>2, <1>3, <1>4, <1>5, <1>6, <1>7 DEF Moves

LEMMA PlaceStill ==
    ASSUME Inv, Still
    PROVE  PlaceInv' /\ DelayInv'
<1> USE DEF Inv, Types
<1>1. /\ UNCHANGED <<queues, toFile, proc, spilled, stage>>
      /\ pump'.pc = "fan" <=> pump.pc = "fan"
      /\ pump.pc = "fan" => pump'.msg = pump.msg /\ pump'.delayed = pump.delayed
  BY StillStep
<1>2. PlaceInv'
  BY <1>1 DEF PlaceInv
<1>3. \A m \in Msg : /\ Contains(memoryMsgChan', m) => m \notin spilled'
                     /\ Contains(backend', m) => m \in spilled'
  BY <1>1 DEF DelayInv
<1>4. pump'.pc = "fan" => pump'.delayed = (pump'.msg \in Deferred \ spilled')
  BY <1>1 DEF DelayInv
<1>5. CASE PumpPut
  <2>1. proc = "up" /\ pump.pc = "fan" /\ pump.msg \in Msg /\ stage[pump.msg] = "pump"
    BY <1>5 DEF PumpPut, PumpType, PlaceInv
  <2> DEFINE x == <<pump.msg, pump.delayed>>
  <2>2. x[1] = pump.msg /\ x[2] = (x[1] \in Deferred \ spilled)
    BY <2>1 DEF DelayInv
  <2>3. \A c \in Chan : \A e \in got'[c] : e \in got[c] \/ e = x
    <3>1. got' = got \/ \E c \in Chan : got' = [got EXCEPT ![c] = @ \cup {x}]
      BY <1>5 DEF PumpPut, CopyDelayed, PumpType
    <3> HIDE DEF x
    <3> QED  BY <3>1 DEF HistoryType
  <2> HIDE DEF x
  <2>4. \A c \in Chan : \A e \in got'[c] : stage'[e[1]] \in {"pump", "fanned", "panic"}
    BY <1>1, <2>1, <2>2, <2>3 DEF DelayInv
  <2>5. SameDelay'
    BY <1>1, <2>2, <2>3 DEF DelayInv, SameDelay
  <2> QED  BY <1>2, <1>3, <1>4, <2>4, <2>5 DEF DelayInv
<1>6. CASE got' = got
  BY <1>1, <1>2, <1>3, <1>4, <1>6 DEF DelayInv, SameDelay
<1> QED  BY <1>5, <1>6 DEF Still, doPUB, doMPUB, PutMessages, Start, PumpStart, PumpChannelUpdate, PumpPause,
            PumpExit, GetChannel, DeleteExistingChannel, DeleteChannel, doPause, GiveUp, Empty, Exit,
            DeleteCallback, ExitWait, ExitChannels, vars

LEMMA PlacePut ==
    ASSUME Inv, NEW b \in Call, put(b)
    PROVE  PlaceInv' /\ DelayInv'
<1> USE DEF Inv, Types
<1> DEFINE m == b[call[b].i]
<1>1. /\ proc = "up" /\ m \in Msg
      /\ stage[m] = "new" /\ ~Contains(memoryMsgChan, m) /\ ~Contains(backend, m)
      /\ m \notin spilled
      /\ UNCHANGED <<proc, pump, toFile, got>>
      /\ \A x \in Msg : x # m => stage'[x] = stage[x]
      /\ ToMemory(b, m) \/ ToBackend(b, m) \/ ToNobody(b, m) \/ Refused(b, m)
  BY PutStep
<1> HIDE DEF m
<1>2. /\ \A c \in Chan : \A e \in got[c] : e[1] # m /\ e[1] \in Msg
      /\ pump.pc = "fan" => pump.msg # m
      /\ toFile # m
  BY <1>1 DEF DelayInv, HistoryType, PlaceInv
<1>3. \A c \in Chan : \A e \in got'[c] : stage'[e[1]] \in {"pump", "fanned", "panic"}
  BY <1>1, <1>2 DEF DelayInv
<1>4. spilled' = spilled \/ spilled' = spilled \cup {m}
  BY <1>1 DEF ToMemory, ToBackend, ToNobody, Refused
<1>5. SameDelay'
  BY <1>1, <1>2, <1>4 DEF DelayInv, SameDelay
<1>6. pump'.pc = "fan" => pump'.delayed = (pump'.msg \in Deferred \ spilled')
  BY <1>1, <1>2, <1>4 DEF DelayInv
<1>7. PlaceInv' /\ \A x \in Msg : /\ Contains(memoryMsgChan', x) => x \notin spilled'
                                  /\ Contains(backend', x) => x \in spilled'
  <2>1. CASE ToMemory(b, m)
    <3>1. /\ \A x \in Msg : Contains(memoryMsgChan', x) <=> Contains(memoryMsgChan, x) \/ x = m
          /\ Distinct(memoryMsgChan')
      BY <1>1, <2>1, JoinsMemory DEF ToMemory
    <3>2. stage'[m] = "queued" /\ backend' = backend /\ spilled' = spilled
      BY <2>1 DEF ToMemory
    <3> QED  BY <1>1, <1>2, <3>1, <3>2 DEF PlaceInv, DelayInv
  <2>2. CASE ToBackend(b, m)
    <3>1. /\ \A x \in Msg : Contains(backend', x) <=> Contains(backend, x) \/ x = m
          /\ Distinct(backend')
      BY <1>1, <2>2, JoinsBackend DEF ToBackend
    <3>2. stage'[m] = "queued" /\ memoryMsgChan' = memoryMsgChan /\ spilled' = spilled \cup {m}
      BY <2>2 DEF ToBackend
    <3> QED  BY <1>1, <1>2, <3>1, <3>2 DEF PlaceInv, DelayInv
  <2>3. CASE ToNobody(b, m)
    BY <1>1, <1>2, <2>3 DEF ToNobody, PlaceInv, DelayInv
  <2>4. CASE Refused(b, m)
    BY <1>1, <1>2, <2>4 DEF Refused, PlaceInv, DelayInv
  <2> QED  BY <1>1, <2>1, <2>2, <2>3, <2>4
<1> QED  BY <1>3, <1>5, <1>6, <1>7 DEF DelayInv

LEMMA PlaceNext ==
    ASSUME Inv, [Next]_vars
    PROVE  PlaceInv' /\ DelayInv'
<1> USE DEF Inv, Types
<1>1. CASE Panic
  <2>1. PlaceInv'
    BY <1>1, PanicStep DEF PlaceInv
  <2>2. \A c \in Chan : \A e \in got[c] : e[1] \in Msg
    BY DEF HistoryType
  <2>3. \A c \in Chan : \A e \in got'[c] : stage'[e[1]] \in {"pump", "fanned", "panic"}
    BY <1>1, <2>2, PanicStep DEF DelayInv
  <2>4. UNCHANGED <<queues, pump, got, spilled>>
    BY <1>1, PanicStep
  <2> QED  BY <2>1, <2>3, <2>4 DEF DelayInv, SameDelay
<1>2. CASE NewTopic
  <2>1. /\ backend' = backend /\ pump'.pc # "fan" /\ toFile' \notin Msg /\ proc' = "up"
        /\ got' = got /\ spilled' = spilled /\ (\A x : ~Contains(memoryMsgChan', x))
        /\ proc = "panic" \/ (exit = "done" /\ ~deleted)
        /\ \A m \in Msg : stage'[m] = IF stage[m] \in {"queued", "toFile"} /\ ~Contains(backend, m)
                                      THEN "unwritten" ELSE stage[m]
        /\ Distinct(memoryMsgChan')
    BY <1>2, NewTopicStep, Constants DEF NewPump
  <2>2. \A m \in Msg : stage[m] # "pump"
    BY <2>1 DEF PlaceInv, CloseInv
  <2>3. \A m \in Msg : stage[m] = "toFile" => ~Contains(backend, m)
    BY DEF PlaceInv
  <2>4. PlaceInv'
    BY <2>1, <2>2, <2>3 DEF PlaceInv
  <2>5. \A c \in Chan : \A e \in got[c] : e[1] \in Msg
    BY DEF HistoryType
  <2>6. \A c \in Chan : \A e \in got'[c] : stage'[e[1]] \in {"pump", "fanned", "panic"}
    BY <2>1, <2>5 DEF DelayInv
  <2> QED  BY <2>1, <2>4, <2>6 DEF DelayInv, SameDelay
<1> QED  BY <1>1, <1>2, PlaceStill, PlaceMoves, PlacePut, Steps

-----------------------------------------------------------------------------
(* What Close() keeps, what messageCount counts.                            *)

LEMMA CloseNext ==
    ASSUME Inv, [Next]_vars
    PROVE  CloseInv'
<1> USE DEF Inv, Types, CloseInv
<1>1. CASE Still
  <2>1. UNCHANGED <<memoryMsgChan, toFile, acked>> /\ (pump.pc = "exited" => pump' = pump)
    BY <1>1, StillStep
  <2>2. CASE ExitWait \/ ExitChannels
    BY <2>1, <2>2 DEF ExitWait, ExitChannels
  <2>3. CASE (\E kind \in ExitKinds : Exit(kind = "delete")) \/ DeleteCallback
    BY <2>3 DEF Exit, DeleteCallback
  <2>4. CASE UNCHANGED <<exit, deleted>>
    BY <2>1, <2>4
  <2> QED  BY <1>1, <2>2, <2>3, <2>4 DEF Still, doPUB, doMPUB, PutMessages, Start, PumpStart, PumpChannelUpdate,
              PumpPause, PumpPut, PumpExit, GetChannel, DeleteExistingChannel, DeleteChannel, doPause,
              GiveUp, Empty, vars
<1>2. CASE Moves
  <2>1. /\ UNCHANGED <<acked, deleted>> /\ acked \subseteq Msg
        /\ \A m \in Msg : Contains(memoryMsgChan', m) => Contains(memoryMsgChan, m)
    BY <1>2, MoveStep DEF HistoryType
  <2>2. CASE PumpMemory \/ PumpBackend \/ PumpNext
    BY <2>1, <2>2 DEF PumpMemory, PumpBackend, PumpNext, Take
  <2>3. CASE ToFileReceive \/ ToFileError
    BY <2>1, <2>3, Constants DEF ToFileReceive, ToFileError
  <2>4. CASE EmptyStep
    BY <2>1, <2>4 DEF EmptyStep
  <2>5. CASE ExitEmpty
    <3>1. exit = "empty" /\ UNCHANGED <<pump, toFile>> /\ exit' \in {"empty", "done"}
      BY <2>5 DEF ExitEmpty
    <3>2. exit' = "done" => memoryMsgChan' = << >>
      BY <2>5 DEF ExitEmpty, Drain
    <3> QED  BY <3>1, <3>2, EmptyFacts
  <2>6. CASE ExitFlush
    <3>1. exit = "flush" /\ UNCHANGED <<pump, toFile>> /\ exit' \in {"flush", "done"}
      BY <2>6 DEF ExitFlush
    <3>2. exit' = "done" => memoryMsgChan' = << >>
      BY <2>6 DEF ExitFlush
    <3> QED  BY <3>1, <3>2, EmptyFacts
  <2> QED  BY <1>2, <2>2, <2>3, <2>4, <2>5, <2>6 DEF Moves
<1>3. ASSUME NEW b \in Call, put(b) PROVE CloseInv'
  <2> DEFINE m == b[call[b].i]
  <2>1. /\ UNCHANGED <<exit, deleted, pump, toFile>> /\ m \in Msg /\ ~Contains(memoryMsgChan, m)
        /\ m \notin acked
        /\ ToMemory(b, m) \/ ToBackend(b, m) \/ ToNobody(b, m) \/ Refused(b, m)
    BY <1>3, PutStep
  <2> HIDE DEF m
  <2>2. exit # "no" => acked' = acked
    BY <2>1 DEF ToMemory, ToBackend, ToNobody, Refused, Return, exitFlag
  <2>3. \A x \in Msg : Contains(memoryMsgChan', x) => Contains(memoryMsgChan, x) \/ x = m
    <3>1. CASE ToMemory(b, m)
      BY <2>1, <3>1, JoinsMemory DEF ToMemory
    <3> QED  BY <2>1, <3>1 DEF ToBackend, ToNobody, Refused
  <2> QED  BY <2>1, <2>2, <2>3 DEF HistoryType
<1>4. CASE Panic
  BY <1>4, PanicStep
<1>5. CASE NewTopic
  BY <1>5, NewTopicStep
<1> QED  BY <1>1, <1>2, <1>3, <1>4, <1>5, Steps

LEMMA PrefixCount ==
    ASSUME NEW b \in Call, NEW n \in 0..Len(b)
    PROVE  /\ IsFiniteSet({b[j] : j \in 1..n})
           /\ Cardinality({b[j] : j \in 1..n}) = n
<1> DEFINE T == {b[j] : j \in 1..n}
           g == [j \in 1..n |-> b[j]]
<1>1. n \in Nat /\ \A i, j \in 1..n : b[i] = b[j] => i = j
  BY Constants
<1>2. g \in Bijection(1..n, T)
  BY <1>1 DEF Bijection, Injection, Surjection, IsInjective
<1>3. ExistsBijection(1..n, T)
  BY <1>2 DEF ExistsBijection
<1>4. IsFiniteSet(1..n) /\ Cardinality(1..n) = n
  BY <1>1, FS_Interval
<1> QED  BY <1>3, <1>4, FS_Bijection

LEMMA CountKept ==
    ASSUME Inv, UNCHANGED <<messageCount, opens>>,
           \A m \in Msg : stage'[m] = "new" <=> stage[m] = "new",
           \A b \in Call : Inside(b) => Inside(b)',
           \A b \in Call : Inside(b)' /\ ~Inside(b) => \A m \in Range(b) : stage[m] = "new"
    PROVE  CountInv'
<1>1. {m \in Msg : stage'[m] # "new"} = {m \in Msg : stage[m] # "new"}
  OBVIOUS
<1>2. Tally' = Tally
  BY DEF Tally
<1> QED  BY <1>1, <1>2 DEF Inv, CountInv

\* What a call adds to messageCount when it returns is the number of messages it has
\* queued, also when it fails half-way.
LEMMA CountPut ==
    ASSUME Inv, NEW b \in Call, put(b)
    PROVE  CountInv'
<1> USE DEF Inv, Types
<1> DEFINE i == call[b].i
           m == b[i]
           Old == {x \in Msg : stage[x] # "new"}
<1>1. /\ Inside(b) /\ m \in Msg /\ i \in 1..Len(b) /\ stage[m] = "new"
      /\ \A x \in Msg : x # m => stage'[x] = stage[x]
      /\ ToMemory(b, m) \/ ToBackend(b, m) \/ ToNobody(b, m) \/ Refused(b, m)
      /\ opens' = opens
  BY PutStep
<1>2. m = b[i] /\ i = call[b].i
  OBVIOUS
<1> HIDE DEF m, i
<1>3. \E failed \in BOOLEAN : /\ Return(b, i, failed)
                              /\ failed => stage'[m] = "new"
                              /\ ~failed => stage'[m] # "new"
  BY <1>1, <1>2 DEF ToMemory, ToBackend, ToNobody, Refused
<1>4. PICK failed \in BOOLEAN : /\ Return(b, i, failed)
                                /\ failed => stage'[m] = "new"
                                /\ ~failed => stage'[m] # "new"
  BY <1>3
<1>5. /\ \A e \in Call : e # b => call'[e] = call[e]
      /\ failed => call'[b].pc = "error"
      /\ ~failed /\ i < Len(b) => call'[b].pc = "put"
      /\ ~failed /\ i = Len(b) => call'[b].pc = "ok"
      /\ messageCount' = messageCount + (IF failed THEN i - 1
                                         ELSE IF i = Len(b) THEN Len(b) ELSE 0)
  BY <1>1, <1>2, <1>4, ReturnStep
<1>6. \A e \in Call : e # b => (Inside(e)' <=> Inside(e))
  BY <1>5 DEF Inside
<1>7. \A x \in Range(b) : x \in Msg
  BY CallRange, Constants
<1>8. \A e \in Call : e # b /\ Inside(e) => \A x \in Range(b) : x \notin Range(e)
  BY <1>1 DEF CallInv, Publishing, Inside
<1>9. Old = {x \in Msg : stage[x] # "new"} /\ IsFiniteSet(Old)
  BY DEF CountInv
<1> HIDE DEF Old
<1>10. IsFiniteSet({x \in Msg : stage'[x] # "new"})
  <2>1. {x \in Msg : stage'[x] # "new"} = Old \/ {x \in Msg : stage'[x] # "new"} = Old \cup {m}
    BY <1>1, <1>4, <1>9
  <2> QED  BY <1>9, <2>1, FS_AddElement
<1>11. IsFiniteSet(Tally) /\ Cardinality(Tally) \in Nat
  <2>1. Tally \in SUBSET Old
    BY <1>9 DEF Tally
  <2> QED  BY <1>9, <2>1, FS_Subset, FS_CardinalityType
<1>12. \A x \in Range(b) : x \notin Tally
  BY <1>1 DEF Tally
<1>13. \A j \in 1..Len(b) : j # i => stage'[b[j]] = stage[b[j]] /\ (stage[b[j]] = "new" <=> j >= i)
  BY <1>1, <1>2, Constants DEF CallInv
<1>14. ASSUME NEW n \in 0..Len(b), ~Inside(b)',
              \A j \in 1..Len(b) : stage'[b[j]] # "new" <=> j <= n
       PROVE  Cardinality(Tally') = Cardinality(Tally) + n
  <2> DEFINE T == {b[j] : j \in 1..n}
  <2>1. \A x \in Range(b) : stage'[x] # "new" <=> x \in T
    <3>1. ASSUME NEW x \in Range(b), stage'[x] # "new" PROVE x \in T
      <4>1. PICK j \in 1..Len(b) : b[j] = x
        BY CallRange
      <4>2. j <= n
        BY <1>14, <3>1, <4>1
      <4>3. j \in 1..n
        BY <4>2, Constants
      <4> QED  BY <4>1, <4>3
    <3>2. ASSUME NEW x \in T PROVE stage'[x] # "new"
      <4>1. PICK j \in 1..n : b[j] = x
        OBVIOUS
      <4>2. j \in 1..Len(b) /\ j <= n
        BY Constants
      <4> QED  BY <1>14, <4>1, <4>2
    <3> QED  BY <3>1, <3>2
  <2>2. T \subseteq Range(b) /\ IsFiniteSet(T) /\ Cardinality(T) = n
    <3>1. \A j \in 1..n : j \in 1..Len(b)
      BY Constants
    <3> QED  BY <3>1, PrefixCount, CallRange
  <2> HIDE DEF T
  <2>3. ASSUME NEW x \in Msg, x \notin Range(b) PROVE x \in Tally' <=> x \in Tally
    <3>1. stage'[x] = stage[x]
      BY <1>1, <1>2, <2>3, CallRange
    <3> QED  BY <1>6, <2>3, <3>1 DEF Tally
  <2>4. ASSUME NEW x \in Range(b) PROVE x \in Tally' <=> x \in T
    <3>1. \A e \in Call : Inside(e)' => x \notin Range(e)
      BY <1>6, <1>8, <1>14
    <3> QED  BY <1>7, <2>1, <3>1 DEF Tally
  <2>5. Tally' = Tally \cup T
    <3>1. Tally \subseteq Msg /\ Tally' \subseteq Msg
      BY DEF Tally
    <3>2. ASSUME NEW x \in Msg PROVE x \in Tally' <=> x \in Tally \cup T
      BY <1>12, <2>2, <2>3, <2>4
    <3> QED  BY <1>7, <2>2, <3>1, <3>2
  <2>6. Tally \cap T = {}
    BY <1>12, <2>2
  <2>7. Cardinality(Tally \cup T) = Cardinality(Tally) + Cardinality(T) - Cardinality(Tally \cap T)
    BY <1>11, <2>2, FS_Union
  <2>8. Cardinality(Tally \cap T) = 0
    BY <2>6, FS_EmptySet
  <2> QED  BY <1>11, <2>2, <2>5, <2>7, <2>8
<1>15. opens = 0 => messageCount' = Cardinality(Tally')
  <2>0. i \in Nat /\ Len(b) \in Nat /\ (opens = 0 => messageCount = Cardinality(Tally))
    BY <1>1, Constants DEF CountInv
  <2>1. CASE failed
    <3> DEFINE n == i - 1
    <3>1. n \in 0..Len(b) /\ ~Inside(b)' /\ messageCount' = messageCount + n
      BY <1>1, <1>5, <2>0, <2>1 DEF Inside
    <3>2. \A j \in 1..Len(b) : stage'[b[j]] # "new" <=> j <= n
      <4>1. TAKE j \in 1..Len(b)
      <4>2. CASE j = i
        BY <1>2, <1>4, <2>0, <2>1, <4>2
      <4>3. CASE j # i
        BY <1>13, <2>0, <4>3
      <4> QED  BY <4>2, <4>3
    <3> HIDE DEF n
    <3>3. Cardinality(Tally') = Cardinality(Tally) + n
      BY <1>14, <3>1, <3>2
    <3> QED  BY <2>0, <3>1, <3>3
  <2>2. CASE ~failed /\ i = Len(b)
    <3>1. ~Inside(b)' /\ messageCount' = messageCount + Len(b) /\ Len(b) \in 0..Len(b)
      BY <1>1, <1>5, <2>0, <2>2 DEF Inside
    <3>2. \A j \in 1..Len(b) : stage'[b[j]] # "new" <=> j <= Len(b)
      <4>1. TAKE j \in 1..Len(b)
      <4>2. CASE j = i
        BY <1>2, <1>4, <2>0, <2>2, <4>2
      <4>3. CASE j # i
        BY <1>13, <2>0, <2>2, <4>3
      <4> QED  BY <4>2, <4>3
    <3>3. Cardinality(Tally') = Cardinality(Tally) + Len(b)
      BY <1>14, <3>1, <3>2
    <3> QED  BY <2>0, <3>1, <3>3
  <2>3. CASE ~failed /\ i # Len(b)
    <3>1. call'[b].pc = "put" /\ messageCount' = messageCount
      BY <1>1, <1>5, <2>0, <2>3 DEF CounterType
    <3>2. \A e \in Call : Inside(e)' <=> Inside(e)
      BY <1>1, <1>6, <3>1 DEF Inside
    <3>3. m \in Range(b)
      BY <1>1, <1>2, CallRange
    <3>4. Tally' = Tally
      BY <1>1, <3>2, <3>3 DEF Tally
    <3> QED  BY <2>0, <3>1, <3>4
  <2> QED  BY <2>1, <2>2, <2>3
<1> QED  BY <1>1, <1>10, <1>15 DEF CountInv

LEMMA CountNext ==
    ASSUME Inv, [Next]_vars
    PROVE  CountInv'
<1> USE DEF Inv, Types
<1>1. CASE \E b \in Call : put(b)
  BY <1>1, CountPut
<1>2. CASE ~\E b \in Call : put(b)
  <2>1. \A m \in Msg : stage'[m] = "new" <=> stage[m] = "new"
    BY <1>2, NewStays
  <2>2. CASE \E b \in Call : doPUB(b) \/ doMPUB(b)
    <3>1. PICK b \in Call : PutMessages(b)
      BY <2>2 DEF doPUB, doMPUB
    <3>2. /\ call[b].pc = "new" /\ \A m \in Range(b) : stage[m] = "new"
          /\ \A e \in Call : e # b => call'[e] = call[e]
          /\ UNCHANGED <<messageCount, opens>>
      BY <3>1, CallPublish, CallStep DEF PutMessages
    <3>3. \A e \in Call : /\ Inside(e) => Inside(e)'
                          /\ Inside(e)' /\ ~Inside(e) => e = b
      BY <3>2 DEF Inside
    <3> QED  BY <2>1, <3>2, <3>3, CountKept
  <2>3. CASE UNCHANGED <<call, messageCount, opens>>
    BY <2>1, <2>3, CountKept DEF Inside
  <2>4. CASE NewTopic
    <3>1. {m \in Msg : stage'[m] # "new"} = {m \in Msg : stage[m] # "new"}
      BY <2>1
    <3>2. opens' # 0
      BY <2>4, NewTopicStep DEF CounterType
    <3> QED  BY <3>1, <3>2 DEF CountInv
  <2>5. CASE Still /\ ~\E b \in Call : doPUB(b) \/ doMPUB(b)
    <3>1. UNCHANGED call
      BY <2>5 DEF Still, Start, PumpStart, PumpChannelUpdate, PumpPause, PumpPut, PumpExit,
              GetChannel, DeleteExistingChannel, DeleteChannel, doPause, GiveUp, Empty, Exit,
              DeleteCallback, ExitWait, ExitChannels, vars
    <3> QED  BY <2>3, <2>5, <3>1, StillStep
  <2> QED  BY <1>2, <2>2, <2>3, <2>4, <2>5, Steps, MoveStep, PanicStep
<1> QED  BY <1>1, <1>2

-----------------------------------------------------------------------------
(* messagePump and the channels.                                            *)

\* Steps that leave messagePump alone: no channel becomes due or settled.
LEMMA FanKept ==
    ASSUME Inv, UNCHANGED <<due, got>>,
           pump' = pump \/ (pump'.pc = pump.pc /\ pump'.chans = pump.chans
                            /\ pump'.rest = pump.rest /\ pump'.msg = pump.msg)
                        \/ pump'.pc \in {"wait", "exited"},
           Known \subseteq Known',
           \A c \in channelMap' : c \in channelMap \/ c \notin Known,
           ~exitFlag' /\ Working' => ~exitFlag /\ Settled' \subseteq Settled,
           \A m \in Msg : stage'[m] \in {"queued", "fanned"} => stage'[m] = stage[m]
    PROVE  FanInv'
<1> USE DEF Inv, Types
<1>1. \A m \in Msg : due'[m] \subseteq Known' /\ due[m] \subseteq Known /\ due'[m] = due[m]
  BY DEF FanInv
<1>2. \A m \in Msg : due'[m] \cap channelMap' \subseteq due[m] \cap channelMap
  BY <1>1
<1>3. FanOutComplete'
  BY <1>2 DEF FanInv, FanOutComplete
<1>4. CASE pump'.pc \in {"wait", "exited"}
  BY <1>1, <1>3, <1>4 DEF FanInv, Working
<1>5. CASE pump'.pc = pump.pc /\ pump'.chans = pump.chans /\ pump'.rest = pump.rest /\ pump'.msg = pump.msg
  <2>1. Working' <=> Working
    BY <1>5 DEF Working
  <2>2. Working' /\ ~exitFlag' => Settled' \subseteq pump'.chans
    BY <1>5, <2>1 DEF FanInv
  <2>3. Working' => \A m \in Msg : stage'[m] = "queued" => due'[m] \cap channelMap' \subseteq pump'.chans
    BY <1>2, <1>5, <2>1 DEF FanInv
  <2>4. \A m \in Msg : pump'.pc = "fan" /\ pump'.msg = m =>
          \A c \in due'[m] \cap channelMap' : c \in pump'.rest \/ Has(c, m)'
    BY <1>2, <1>5 DEF FanInv, Has
  <2> QED  BY <1>1, <1>3, <2>2, <2>3, <2>4 DEF FanInv
<1> QED  BY <1>4, <1>5

\* A new snapshot of the map.
LEMMA FanRefreshed ==
    ASSUME Inv, UNCHANGED <<due, got, stage, channelMap, exitedChans, dropping>>,
           pump'.pc = "loop", pump'.chans = channelMap
    PROVE  FanInv'
<1> USE DEF Inv, Types
<1>1. Known' = Known
  BY DEF Known
<1>2. Settled' \subseteq channelMap'
  BY DEF Settled
<1>3. FanOutComplete'
  BY DEF FanInv, FanOutComplete
<1> QED  BY <1>1, <1>2, <1>3 DEF FanInv

LEMMA FanStill ==
    ASSUME Inv, Still
    PROVE  FanInv'
<1> USE DEF Inv, Types
<1>1. UNCHANGED stage
  BY StillStep
<1>2. CASE PumpPut
  <2>1. PICK c \in pump.rest :
              /\ pump.pc = "fan" /\ pump' = [pump EXCEPT !.rest = @ \ {c}]
              /\ \/ got' = [got EXCEPT ![c] = @ \cup {<<pump.msg, pump.delayed>>}] /\ due' = due
                 \/ due' = [due EXCEPT ![pump.msg] = @ \ {c}] /\ got' = got
    BY <1>2 DEF PumpPut, CopyDelayed
  <2>2. c \in Chan /\ pump.msg \in Msg /\ pump.delayed \in BOOLEAN
    BY <2>1 DEF PumpType
  <2>3. /\ pump'.pc = "fan" /\ pump'.chans = pump.chans /\ pump'.msg = pump.msg
        /\ pump'.rest = pump.rest \ {c}
    BY <2>1 DEF PumpType
  <2>4. UNCHANGED <<chans, exit>> /\ Known' = Known /\ Settled' = Settled
    BY <1>2 DEF PumpPut, Known, Settled, exitFlag
  <2>5. \A m \in Msg : due'[m] \subseteq due[m]
    BY <2>1, <2>2 DEF HistoryType
  <2>6. \A d \in Chan : got[d] \subseteq got'[d]
    <3> DEFINE x == <<pump.msg, pump.delayed>>
    <3>1. got' = got \/ got' = [got EXCEPT ![c] = @ \cup {x}]
      BY <2>1
    <3> HIDE DEF x
    <3> QED  BY <2>2, <3>1 DEF HistoryType
  <2>7. \A d \in Chan, m \in Msg : Has(d, m) => Has(d, m)'
    BY <2>6 DEF Has
  <2>8. \A m \in Msg : m = pump.msg => Has(c, m)' \/ c \notin due'[m]
    <3>1. CASE due' = [due EXCEPT ![pump.msg] = @ \ {c}]
      BY <2>2, <3>1 DEF HistoryType
    <3>2. CASE got' = [got EXCEPT ![c] = @ \cup {<<pump.msg, pump.delayed>>}]
      <4>1. <<pump.msg, pump.delayed>> \in got'[c]
        BY <2>2, <3>2 DEF HistoryType
      <4> QED  BY <2>2, <4>1 DEF Has
    <3> QED  BY <2>1, <3>1, <3>2
  <2>9. \A m \in Msg : due'[m] \subseteq Known'
    BY <2>4, <2>5 DEF FanInv
  <2>10. Working /\ Working' /\ (~exitFlag' => ~exitFlag)
    BY <2>1, <2>3, <2>4 DEF Working, exitFlag
  <2>11. \A m \in Msg : stage'[m] = "queued" => due'[m] \cap channelMap' \subseteq pump'.chans
    BY <1>1, <2>3, <2>4, <2>5, <2>10 DEF FanInv
  <2>12. ASSUME NEW m \in Msg, pump'.msg = m, NEW d \in due'[m] \cap channelMap'
         PROVE  d \in pump'.rest \/ Has(d, m)'
    <3>1. m = pump.msg /\ d \in due[m] \cap channelMap /\ d \in Chan
      BY <2>2, <2>3, <2>4, <2>5, <2>12 DEF ChanType
    <3>2. d \in pump.rest \/ Has(d, m)
      BY <2>1, <3>1 DEF FanInv
    <3>3. CASE d = c
      BY <2>8, <2>12, <3>1, <3>3
    <3>4. CASE d # c
      BY <2>3, <2>7, <3>1, <3>2, <3>4
    <3> QED  BY <3>3, <3>4
  <2>13. FanOutComplete'
    <3>1. SUFFICES ASSUME NEW m \in Msg, stage'[m] = "fanned", NEW d \in due'[m] \cap channelMap'
                   PROVE  Has(d, m)'
      BY DEF FanOutComplete, Has
    <3>2. d \in due[m] \cap channelMap /\ d \in Chan
      BY <2>4, <2>5 DEF ChanType
    <3>3. Has(d, m)
      BY <1>1, <3>1, <3>2 DEF FanInv, FanOutComplete, Has
    <3> QED  BY <2>7, <3>2, <3>3
  <2>14. ~exitFlag' => Settled' \subseteq pump'.chans
    BY <2>3, <2>4, <2>10 DEF FanInv
  <2> QED  BY <2>9, <2>11, <2>12, <2>13, <2>14 DEF FanInv
<1>3. CASE PumpStart
  <2>1. pump'.pc = "loop" /\ pump'.chans = channelMap
    BY <1>3 DEF PumpStart, Refreshed, PumpType
  <2> QED  BY <1>3, <2>1, FanRefreshed DEF PumpStart
<1>4. CASE PumpChannelUpdate
  <2>1. CASE pump.pc = "loop"
    <3>1. pump'.pc = "loop" /\ pump'.chans = channelMap
      BY <1>4, <2>1 DEF PumpChannelUpdate, Refreshed, PumpType
    <3> QED  BY <1>4, <3>1, FanRefreshed DEF PumpChannelUpdate
  <2>2. CASE pump.pc = "wait"
    <3>1. pump'.pc = "wait" /\ UNCHANGED <<due, got, channelMap, exitedChans, dropping>>
      BY <1>4, <2>2 DEF PumpChannelUpdate
    <3> QED  BY <1>1, <3>1, FanKept DEF Known, Working
  <2> QED  BY <1>4, <2>1, <2>2 DEF PumpChannelUpdate
<1>5. CASE PumpPause
  <2>1. /\ pump'.pc = pump.pc /\ pump'.chans = pump.chans /\ pump'.rest = pump.rest
        /\ pump'.msg = pump.msg /\ UNCHANGED <<due, got, chans, exit>>
    BY <1>5 DEF PumpPause, Repaused, PumpType
  <2> QED  BY <1>1, <2>1, FanKept DEF Known, Settled, exitFlag
<1>6. CASE PumpExit
  <2>1. pump'.pc = "exited" /\ UNCHANGED <<due, got, chans>>
    BY <1>6 DEF PumpExit, NewPump
  <2> QED  BY <1>1, <2>1, FanKept DEF Known, Working
<1>7. ASSUME NEW c \in Chan, GetChannel(c) PROVE FanInv'
  <2>1. /\ c \notin Known /\ channelMap' = channelMap \cup {c}
        /\ updates' = updates \cup {<<c, FALSE>>}
        /\ UNCHANGED <<due, got, pump, exit, exitedChans, dropping>>
    BY <1>7 DEF GetChannel, Announced, Known
  <2>2. Known \subseteq Known'
    BY <2>1 DEF Known
  <2>3. Settled' \subseteq Settled
    <3> DEFINE u == <<c, FALSE>>
    <3>1. u[1] = c /\ updates' = updates \cup {u}
      BY <2>1
    <3> HIDE DEF u
    <3> QED  BY <2>1, <3>1 DEF Settled, exitFlag
  <2> QED  BY <1>1, <2>1, <2>2, <2>3, FanKept DEF exitFlag
<1>8. ASSUME NEW c \in Chan, DeleteExistingChannel(c) PROVE FanInv'
  <2> DEFINE d == <<c, channelMap = {c}>>
  <2>1. /\ channelMap' = channelMap \ {c} /\ dropping' = dropping \cup {d} /\ d[1] = c
        /\ UNCHANGED <<due, got, pump, exit, exitedChans, updates>>
    BY <1>8 DEF DeleteExistingChannel
  <2> HIDE DEF d
  <2>2. Known \subseteq Known'
    BY <2>1 DEF Known
  <2>3. Settled' \subseteq Settled
    BY <2>1 DEF Settled, exitFlag
  <2> QED  BY <1>1, <2>1, <2>2, <2>3, FanKept DEF exitFlag
<1>9. ASSUME NEW c \in Chan, DeleteChannel(c) PROVE FanInv'
  <2>1. PICK drop \in dropping : drop[1] = c /\ dropping' = dropping \ {drop} /\ updates' = updates \cup {drop}
    BY <1>9 DEF DeleteChannel
  <2>2. exitedChans' = exitedChans \cup {c} /\ UNCHANGED <<due, got, pump, exit, channelMap>>
    BY <1>9 DEF DeleteChannel
  <2>3. Known \subseteq Known'
    BY <2>1, <2>2 DEF Known
  <2>4. Settled' \subseteq Settled
    BY <2>1, <2>2 DEF Settled, exitFlag
  <2> QED  BY <1>1, <2>2, <2>3, <2>4, FanKept DEF exitFlag
<1>10. CASE GiveUp
  <2>1. exit # "no" /\ UNCHANGED <<due, got, pump, exit, channelMap, exitedChans, dropping>>
    BY <1>10 DEF GiveUp, exitChanClosed
  <2> QED  BY <1>1, <2>1, FanKept DEF Known, exitFlag
<1>11. CASE ExitChannels
  <2>1. /\ exit' # "no" /\ channelMap' \subseteq channelMap /\ exitedChans' = exitedChans \cup channelMap
        /\ UNCHANGED <<due, got, pump, dropping>>
    BY <1>11 DEF ExitChannels
  <2>2. Known \subseteq Known'
    BY <2>1 DEF Known
  <2> QED  BY <1>1, <2>1, <2>2, FanKept DEF exitFlag
<1>12. CASE UNCHANGED <<due, got, pump, chans>> /\ (exit' = exit \/ exit' # "no")
  BY <1>1, <1>12, FanKept DEF Known, Settled, exitFlag
<1> QED  BY <1>2, <1>3, <1>4, <1>5, <1>6, <1>7, <1>8, <1>9, <1>10, <1>11, <1>12
         DEF Still, doPUB, doMPUB, PutMessages, Start, doPause, Empty, Exit, DeleteCallback, ExitWait, vars

LEMMA FanMoves ==
    ASSUME Inv, Moves
    PROVE  FanInv'
<1> USE DEF Inv, Types
<1>1. UNCHANGED <<chans, got, due>> /\ Known' = Known
  BY MoveStep DEF Known
<1>2. \A m \in Msg : stage'[m] = "queued" => stage[m] = "queued"
  BY DEF Moves, PumpMemory, PumpBackend, Take, PumpNext, ToFileReceive, ToFileError, EmptyStep,
         ExitEmpty, ExitFlush, Drain, HistoryType
<1>3. CASE PumpMemory \/ PumpBackend
  <2>1. /\ pump.pc = "loop" /\ pump'.pc = "fan" /\ pump'.chans = pump.chans
        /\ pump'.rest = pump.chans /\ exit' = exit
    BY <1>3 DEF PumpMemory, PumpBackend, Take, PumpType
  <2>2. \E h \in Msg : /\ stage[h] = "queued" /\ pump'.msg = h
                       /\ stage' = [stage EXCEPT ![h] = "pump"]
    <3>1. CASE PumpMemory
      BY <3>1, LeavesMemory DEF PumpMemory, Take, PumpType
    <3>2. CASE PumpBackend
      BY <3>2, LeavesBackend DEF PumpBackend, Take, PumpType
    <3> QED  BY <1>3, <3>1, <3>2
  <2>3. Settled' = Settled /\ (exitFlag' <=> exitFlag) /\ Working
    BY <1>1, <2>1 DEF Settled, exitFlag, Working
  <2>4. \A m \in Msg : stage[m] = "queued" => due[m] \cap channelMap \subseteq pump.chans
    BY <2>3 DEF FanInv
  <2>5. FanOutComplete'
    BY <1>1, <2>2 DEF FanInv, FanOutComplete, HistoryType
  <2>6. \A m \in Msg : pump'.msg = m => \A c \in due'[m] \cap channelMap' : c \in pump'.rest
    BY <1>1, <2>1, <2>2, <2>4
  <2>7. \A m \in Msg : stage'[m] = "queued" => due'[m] \cap channelMap' \subseteq pump'.chans
    BY <1>1, <1>2, <2>1, <2>4
  <2>8. ~exitFlag' => Settled' \subseteq pump'.chans
    BY <2>1, <2>3 DEF FanInv
  <2> QED  BY <1>1, <2>5, <2>6, <2>7, <2>8 DEF FanInv
<1>4. CASE PumpNext
  <2>1. /\ pump.pc = "fan" /\ pump.rest = {} /\ pump'.pc = "loop" /\ pump'.chans = pump.chans
        /\ exit' = exit /\ pump.msg \in Msg /\ stage' = [stage EXCEPT ![pump.msg] = "fanned"]
    BY <1>4 DEF PumpNext, PumpType
  <2>2. \A m \in Msg : m = pump.msg => \A c \in due[m] \cap channelMap : Has(c, m)
    BY <2>1 DEF FanInv
  <2>3. \A m \in Msg : m # pump.msg => stage'[m] = stage[m]
    BY <2>1 DEF HistoryType
  <2>4. FanOutComplete'
    <3>1. SUFFICES ASSUME NEW m \in Msg, stage'[m] = "fanned", NEW d \in due[m] \cap channelMap
                   PROVE  Has(d, m)
      BY <1>1 DEF FanOutComplete, Has
    <3>2. CASE m = pump.msg
      BY <2>2, <3>2
    <3>3. CASE m # pump.msg
      BY <2>3, <3>1, <3>3 DEF FanInv, FanOutComplete, Has
    <3> QED  BY <3>2, <3>3
  <2>5. Settled' = Settled /\ (exitFlag' <=> exitFlag) /\ Working
    BY <1>1, <2>1 DEF Settled, exitFlag, Working
  <2>6. \A m \in Msg : stage'[m] = "queued" => due'[m] \cap channelMap' \subseteq pump'.chans
    BY <1>1, <1>2, <2>1, <2>5 DEF FanInv
  <2>7. ~exitFlag' => Settled' \subseteq pump'.chans
    BY <2>1, <2>5 DEF FanInv
  <2> QED  BY <1>1, <2>1, <2>4, <2>6, <2>7 DEF FanInv
<1>5. CASE ToFileReceive \/ ToFileError \/ EmptyStep \/ ExitEmpty \/ ExitFlush
  <2>1. pump' = pump /\ (exit' = exit \/ (exit # "no" /\ exit' # "no"))
    BY <1>5 DEF ToFileReceive, ToFileError, EmptyStep, ExitEmpty, ExitFlush
  <2>2. \A m \in Msg : stage'[m] = "fanned" => stage[m] = "fanned"
    BY <1>5 DEF ToFileReceive, ToFileError, EmptyStep, ExitEmpty, ExitFlush, Drain, HistoryType
  <2>3. Settled' = Settled /\ (exitFlag' <=> exitFlag)
    BY <1>1, <2>1 DEF Settled, exitFlag
  <2> QED  BY <1>1, <1>2, <2>1, <2>2, <2>3, FanKept
<1> QED  BY <1>3, <1>4, <1>5 DEF Moves

LEMMA FanPut ==
    ASSUME Inv, NEW b \in Call, put(b)
    PROVE  FanInv'
<1> USE DEF Inv, Types
<1> DEFINE m == b[call[b].i]
<1>1. /\ m \in Msg /\ stage[m] = "new" /\ proc = "up"
      /\ UNCHANGED <<chans, pump, exit, got>>
      /\ \A x \in Msg : x # m => stage'[x] = stage[x]
      /\ ToMemory(b, m) \/ ToBackend(b, m) \/ ToNobody(b, m) \/ Refused(b, m)
  BY PutStep
<1> HIDE DEF m
<1>2. Known' = Known /\ Settled' = Settled /\ (exitFlag' <=> exitFlag) /\ (Working' <=> Working)
  BY <1>1 DEF Known, Settled, exitFlag, Working
<1>3. pump.pc = "fan" => pump.msg # m
  BY <1>1 DEF PlaceInv
<1>4. CASE due' = [due EXCEPT ![m] = Settled] /\ stage'[m] = "queued"
  <2>1. due'[m] = Settled /\ \A x \in Msg : x # m => due'[x] = due[x]
    BY <1>1, <1>4 DEF HistoryType
  <2>2. Settled \subseteq channelMap /\ channelMap \subseteq Known
    BY DEF Settled, Known
  <2>3. Working => Settled \subseteq pump.chans
    BY DEF FanInv, Settled
  <2>4. \A x \in Msg : due'[x] \subseteq Known'
    BY <1>2, <2>1, <2>2 DEF FanInv
  <2>5. Working' => \A x \in Msg : stage'[x] = "queued" => due'[x] \cap channelMap' \subseteq pump'.chans
    BY <1>1, <1>2, <2>1, <2>3 DEF FanInv
  <2>6. \A x \in Msg : pump'.pc = "fan" /\ pump'.msg = x =>
          \A c \in due'[x] \cap channelMap' : c \in pump'.rest \/ Has(c, x)'
    BY <1>1, <1>3, <2>1 DEF FanInv, Has
  <2>7. FanOutComplete'
    BY <1>1, <1>4, <2>1 DEF FanInv, FanOutComplete
  <2>8. Working' /\ ~exitFlag' => Settled' \subseteq pump'.chans
    BY <1>1, <1>2 DEF FanInv
  <2> QED  BY <2>4, <2>5, <2>6, <2>7, <2>8 DEF FanInv
<1>5. CASE due' = due /\ stage'[m] # "queued" /\ stage'[m] # "fanned"
  <2>1. \A x \in Msg : stage'[x] \in {"queued", "fanned"} => stage'[x] = stage[x]
    BY <1>1, <1>5
  <2> QED  BY <1>1, <1>2, <1>5, <2>1, FanKept
<1> QED  BY <1>1, <1>4, <1>5 DEF ToMemory, ToBackend, ToNobody, Refused

LEMMA FanNext ==
    ASSUME Inv, [Next]_vars
    PROVE  FanInv'
<1> USE DEF Inv, Types
<1>1. CASE Panic
  <2>1. UNCHANGED <<due, got, pump, chans, exit>>
    BY <1>1, PanicStep
  <2>2. \A m \in Msg : stage'[m] \in {"queued", "fanned"} => stage'[m] = stage[m]
    BY <1>1, PanicStep
  <2> QED  BY <2>1, <2>2, FanKept DEF Known, Settled, exitFlag
<1>2. CASE NewTopic
  <2>1. /\ UNCHANGED <<due, got, channelMap>> /\ pump'.pc = "wait"
        /\ exitedChans' = (exitedChans \cup {drop[1] : drop \in dropping}) \ channelMap
    BY <1>2, NewTopicStep DEF NewPump
  <2>2. \A m \in Msg : stage'[m] \in {"queued", "fanned"} => stage'[m] = stage[m]
    BY <1>2, NewTopicStep
  <2>3. Known \subseteq Known'
    BY <2>1 DEF Known
  <2> QED  BY <2>1, <2>2, <2>3, FanKept DEF Working
<1> QED  BY <1>1, <1>2, FanStill, FanMoves, FanPut, Steps

LEMMA PumpInvNext ==
    ASSUME Inv, [Next]_vars
    PROVE  PumpInv'
<1> USE DEF Inv, Types
<1>1. ASSUME UNCHANGED <<pump, updates, dropping, channelMap, paused, pausers>>,
             exit' = exit \/ exit' # "no"
      PROVE  PumpInv'
  BY <1>1 DEF PumpInv, Working, exitFlag
<1>2. CASE PumpStart \/ PumpChannelUpdate
  <2>1. pump'.pc \notin {"loop", "fan"} \/ (/\ pump'.chans = channelMap
                                            /\ pump'.on = (channelMap # {} /\ ~paused))
    BY <1>2 DEF PumpStart, PumpChannelUpdate, Refreshed, PumpType
  <2>2. UNCHANGED <<channelMap, paused>>
    BY <1>2 DEF PumpStart, PumpChannelUpdate
  <2> QED  BY <2>1, <2>2 DEF PumpInv, Working
<1>3. CASE PumpPause
  <2>1. pump'.pc \notin {"loop", "fan"} \/ (/\ pump.pc = "loop" /\ pump'.chans = pump.chans
                                            /\ pump'.on = (pump.chans # {} /\ ~paused))
    BY <1>3 DEF PumpPause, Repaused, PumpType
  <2>2. UNCHANGED <<channelMap, updates, dropping, paused, exit>>
    BY <1>3 DEF PumpPause
  <2> QED  BY <2>1, <2>2 DEF PumpInv, Working, exitFlag
<1>4. CASE PumpMemory \/ PumpBackend \/ PumpPut \/ PumpNext
  <2>1. Working /\ pump'.chans = pump.chans /\ pump'.on = pump.on
    BY <1>4 DEF PumpMemory, PumpBackend, PumpPut, PumpNext, Take, Working, PumpType
  <2>2. UNCHANGED <<channelMap, updates, dropping, paused, pausers, exit>>
    BY <1>4 DEF PumpMemory, PumpBackend, PumpPut, PumpNext, Take
  <2> QED  BY <2>1, <2>2 DEF PumpInv, exitFlag
<1>5. CASE PumpExit \/ NewTopic
  <2>1. pump'.pc \in {"exited", "wait"}
    BY <1>5 DEF PumpExit, NewTopic, NewPump
  <2> QED  BY <2>1 DEF PumpInv, Working
<1>6. ASSUME NEW c \in Chan, GetChannel(c) \/ DeleteExistingChannel(c) \/ DeleteChannel(c)
      PROVE  PumpInv'
  <2>1. UNCHANGED <<pump, paused, pausers, exit>>
    BY <1>6 DEF GetChannel, DeleteExistingChannel, DeleteChannel
  <2>2. updates' # {} \/ dropping' # {}
    BY <1>6 DEF GetChannel, Announced, DeleteExistingChannel, DeleteChannel
  <2> QED  BY <2>1, <2>2 DEF PumpInv, Working, exitFlag
<1>7. ASSUME NEW pause \in BOOLEAN, doPause(pause) PROVE PumpInv'
  <2>1. UNCHANGED <<pump, updates, dropping, channelMap, exit>> /\ pausers' # 0
    BY <1>7 DEF doPause, CounterType
  <2> QED  BY <2>1 DEF PumpInv, Working, exitFlag
<1>8. CASE GiveUp \/ ExitChannels
  <2>1. exit' # "no"
    BY <1>8 DEF GiveUp, ExitChannels, exitChanClosed
  <2> QED  BY <2>1 DEF PumpInv, exitFlag
<1>9. ASSUME NEW b \in Call, doPUB(b) \/ doMPUB(b) \/ put(b) PROVE PumpInv'
  BY <1>1, <1>9 DEF doPUB, doMPUB, PutMessages, put
<1>10. CASE Start \/ ToFileReceive \/ ToFileError \/ Panic \/ Empty \/ EmptyStep \/ UNCHANGED vars
  BY <1>1, <1>10 DEF Start, ToFileReceive, ToFileError, Panic, Empty, EmptyStep, vars
<1>11. CASE (\E kind \in ExitKinds : Exit(kind = "delete")) \/ DeleteCallback
  BY <1>1, <1>11 DEF Exit, DeleteCallback
<1>12. CASE ExitWait \/ ExitEmpty \/ ExitFlush
  BY <1>1, <1>12 DEF ExitWait, ExitEmpty, ExitFlush
<1> QED  BY <1>2, <1>3, <1>4, <1>5, <1>6, <1>7, <1>8, <1>9, <1>10, <1>11, <1>12
         DEF Next, PumpStep, ExitStep

-----------------------------------------------------------------------------
(* The theorems.                                                            *)

\* What the goroutines of a topic maintain together.
THEOREM TopicInvariant == Spec => []Inv
<1>1. Inv /\ [Next]_vars => Inv'
  BY TypesNext, CallNext, PlaceNext, CloseNext, CountNext, FanNext, PumpInvNext DEF Inv
<1> QED  BY InitInv, <1>1, PTL DEF Spec

\* Type correctness: in particular the memory queue never holds more than its capacity,
\* and a call never goes past its last message.
THEOREM TypeCorrect == Spec => []TypeOK
<1>1. Inv => TypeOK
  <2> SUFFICES ASSUME Inv PROVE TypeOK
    OBVIOUS
  <2> USE DEF Inv, Types
  <2>1. \A b \in Call : call[b] \in [pc : {"new", "put", "ok", "error"}, i : DOMAIN b]
    BY Constants DEF CallType
  <2> QED  BY <2>1 DEF TypeOK, QueueType, ChanType, PumpType, FlagType, CounterType, PCType, HistoryType
<1> QED  BY <1>1, TopicInvariant, PTL

\* Once every call that changes the channels or pauses the topic has returned,
\* messagePump works with the channels of the map, and receives messages exactly if
\* there are some and the topic is not paused.
THEOREM SnapshotUpToDate == Spec => []PumpUpToDate
<1>1. Inv => PumpUpToDate
  BY DEF Inv, PumpInv, PumpUpToDate, Working
<1> QED  BY <1>1, TopicInvariant, PTL

\* messagePump is done with a message only when every channel that existed when it was
\* published, and has not been deleted since, has got it or failed to write it.
THEOREM EveryChannelGets == Spec => []FanOutComplete
<1>1. Inv => FanOutComplete
  BY DEF Inv, FanInv
<1> QED  BY <1>1, TopicInvariant, PTL

\* All channels get a message with the same delay: the one it was published with, or
\* none if it has been through the disk queue.
THEOREM OneDelay == Spec => []SameDelay
<1>1. Inv => SameDelay
  BY DEF Inv, DelayInv
<1> QED  BY <1>1, TopicInvariant, PTL

\* When Close() returns, a message acknowledged before it began has been handed to the
\* channels or is in the disk queue, but for the one that putMemoryToFile took and for
\* writes that failed.
THEOREM CloseLosesNothing == Spec => []CloseKeeps
<1>1. Inv => CloseKeeps
  <2> SUFFICES ASSUME Inv, proc = "up", exit = "done", ~deleted, NEW m \in acked,
                      stage[m] \notin {"fanned", "stray", "emptied", "dropped", "unwritten", "panic"}
               PROVE  Contains(backend, m)
    BY DEF CloseKeeps
  <2> USE DEF Inv, Types
  <2>1. m \in Msg /\ stage[m] # "new" /\ ~Contains(memoryMsgChan, m)
    BY DEF HistoryType, CallInv, CloseInv
  <2>2. stage[m] # "pump" /\ stage[m] # "toFile"
    BY <2>1, Constants DEF PlaceInv, CloseInv
  <2>3. stage[m] = "queued"
    BY <2>1, <2>2 DEF HistoryType
  <2> QED  BY <2>1, <2>3 DEF PlaceInv
<1> QED  BY <1>1, TopicInvariant, PTL

\* messageCount is the number of messages queued, also when MPUB fails half-way.
THEOREM CountIsRight == Spec => []CountsQueued
<1>1. Inv => CountsQueued
  <2> SUFFICES ASSUME Inv, opens = 0, Unlocked
               PROVE  messageCount = Cardinality({m \in Msg : stage[m] # "new"})
    BY DEF CountsQueued
  <2>1. Tally = {m \in Msg : stage[m] # "new"}
    BY DEF Tally, Unlocked
  <2> QED  BY <2>1 DEF Inv, CountInv
<1> QED  BY <1>1, TopicInvariant, PTL
=============================================================================
