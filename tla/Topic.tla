------------------------------- MODULE Topic -------------------------------
(***************************************************************************)
(* A topic (nsqd/topic.go): publishers put messages into a bounded memory  *)
(* queue that overflows to a disk queue; messagePump copies each message   *)
(* to every channel of a snapshot of channelMap; handlers create and       *)
(* delete channels, pause, empty, close and delete the topic meanwhile;    *)
(* putMemoryToFile takes one message from the memory queue and writes it   *)
(* through memoryBackend, a second disk queue on the same files.           *)
(*                                                                         *)
(* A step is what a goroutine does between two points where another can    *)
(* interfere.  The disk queue is a sequence here (DiskQueue says what it   *)
(* does with it); a channel is the set of what was put into it.            *)
(***************************************************************************)
EXTENDS Integers, Sequences, FiniteSets, SequencesExt

CONSTANTS
    Msg,            \* messages; each is published at most once
    Deferred,       \* those published with a delay (DPUB, /pub?defer=)
    Call,           \* what a call may publish: sequences of messages (PUB, MPUB)
    MaxPublished,   \* bound: messages published in a run
    Chan,           \* channel objects: a name created again is a new one
    Nil,
    MemQueueSize,
    Ephemerals,     \* which kinds of topic to consider: subset of BOOLEAN
    Fails,          \* TRUE: writes to a disk queue may fail
    ExitKinds,      \* subset of {"close", "delete"}
    MaxCalls,       \* bound: calls of the topic in a run
    MaxOpens        \* bound: times the topic is opened again

ASSUME TopicAssumption ==
    /\ Deferred \subseteq Msg
    /\ Call \subseteq Seq(Msg) \ {<< >>}   \* a call without messages does nothing
    /\ \A b \in Call : \A i, j \in DOMAIN b : b[i] = b[j] => i = j
    /\ MaxPublished \in Nat
    /\ MemQueueSize \in Nat \ {0}
    /\ Ephemerals \subseteq BOOLEAN /\ Fails \in BOOLEAN
    /\ ExitKinds \subseteq {"close", "delete"}
    /\ MaxCalls \in Nat /\ MaxOpens \in Nat
    /\ {Nil, "recv", "done"} \cap Msg = {}

VARIABLES
    proc,           \* "up", or "panic" once a goroutine has panicked
    ephemeral,
    memoryMsgChan,
    backend,        \* what the disk queue holds: messages without a delay
    channelMap,     \* the channels in the map
    exitedChans,    \* channels whose exitFlag is set
    dropping,       \* channels out of the map whose Delete() is still to come
    updates,        \* goroutines sending on channelUpdateChan: <<channel, last>>
    paused,
    pausers,        \* goroutines sending on pauseChan
    startChan,
    pump,           \* messagePump: pc, its chans, its select, message in hand
    toFile,         \* putMemoryToFile: "recv", a message, or "done"
    readAhead,      \* memoryBackend found a backlog when it was opened
    call,           \* publishing calls: pc, and the index of the next message
    messageCount,
    emptying,
    exit,           \* pc of exit()
    deleted,        \* its argument
    callback,       \* the deleter of an ephemeral topic is due
    admin, opens,   \* calls so far, for the bounds
    got,            \* history: <<message, delayed>> put into a channel
    due,            \* history: channels that existed when m was queued
    acked,          \* history: acknowledged before exit() began
    spilled,        \* history: written to the disk queue
    stage           \* history: where m went last

queues == <<memoryMsgChan, backend>>
chans == <<channelMap, exitedChans, dropping, updates>>
pausing == <<paused, pausers>>
exiting == <<exit, deleted, callback>>
disk2 == <<toFile, readAhead>>
bounds == <<admin, opens>>
history == <<got, due, acked, spilled, stage>>
vars == <<proc, ephemeral, queues, chans, pausing, startChan, pump, disk2, call,
          messageCount, emptying, exiting, bounds, history>>

NewPump == [pc |-> "wait", chans |-> {}, on |-> FALSE, msg |-> Nil,
            delayed |-> FALSE, rest |-> {}]

Init ==
    /\ proc = "up"
    /\ ephemeral \in Ephemerals
    /\ memoryMsgChan = << >> /\ backend = << >>
    /\ channelMap = {} /\ exitedChans = {} /\ dropping = {} /\ updates = {}
    /\ paused = FALSE /\ pausers = 0
    /\ startChan = FALSE
    /\ pump = NewPump
    /\ toFile = "recv" /\ readAhead = FALSE
    /\ call = [b \in Call |-> [pc |-> "new", i |-> 1]]
    /\ messageCount = 0
    /\ emptying = FALSE
    /\ exit = "no" /\ deleted = FALSE /\ callback = FALSE
    /\ admin = 0 /\ opens = 0
    /\ got = [c \in Chan |-> {}]
    /\ due = [m \in Msg |-> {}]
    /\ acked = {} /\ spilled = {}
    /\ stage = [m \in Msg |-> "new"]

-----------------------------------------------------------------------------
(* Locks.  A publishing call holds the topic's read lock from the check of  *)
(* exitFlag to its return; whoever wants the write lock waits for it.       *)

Publishing == {b \in Call : call[b].pc # "new"}
Published == UNION {Range(b) : b \in Publishing}

MayCall == admin + Cardinality(Publishing) < MaxCalls
Admin == MayCall /\ admin' = admin + 1

Inside(b) == call[b].pc = "put"
Unlocked == \A b \in Call : ~Inside(b)

exitFlag == exit # "no"
exitChanClosed == exit # "no"

\* The channels whose GetChannel() has returned, but for an exiting topic.
Settled == IF exitFlag THEN {} ELSE {c \in channelMap : \A u \in updates : u[1] # c}

-----------------------------------------------------------------------------
(* Publishing: PutMessage and PutMessages.  The messages are new objects.    *)

PutMessages(b) ==
    /\ proc = "up" /\ MayCall
    /\ Range(b) \cap Published = {}
    /\ Cardinality(Published \cup Range(b)) <= MaxPublished
    /\ call' = [call EXCEPT ![b].pc = IF exitFlag THEN "error" ELSE "put"]
    /\ UNCHANGED <<proc, ephemeral, queues, chans, pausing, startChan, pump, disk2,
                   messageCount, emptying, exiting, bounds, history>>

\* What is malformed is refused before the topic sees it.  Only a single message
\* can have a delay.
doPUB(b) == Len(b) = 1 /\ PutMessages(b)

doMPUB(b) == Range(b) \cap Deferred = {} /\ PutMessages(b)

\* A plausible bug, for mutation: the whole batch is counted when it fails.
Mut_Counted(b, i, failed) == Len(b)

\* What a call adds to messageCount when it returns after its i-th message.
Counted(b, i, failed) == IF failed THEN i - 1 ELSE Len(b)

Return(b, i, failed) ==
    /\ call' = [call EXCEPT ![b] =
                  IF failed THEN [pc |-> "error", i |-> i]
                  ELSE IF i < Len(b) THEN [pc |-> "put", i |-> i + 1]
                  ELSE [pc |-> "ok", i |-> i]]
    /\ messageCount' = IF failed \/ i = Len(b)
                       THEN messageCount + Counted(b, i, failed) ELSE messageCount
    /\ acked' = IF ~failed /\ i = Len(b) /\ ~exitFlag THEN acked \cup Range(b) ELSE acked

Full == Len(memoryMsgChan) >= MemQueueSize

\* put(): memory first; when it is full, the backend.  An ephemeral topic's
\* dummy backend takes and forgets; a closed disk queue refuses.
put(b) ==
    /\ proc = "up"
    /\ Inside(b)
    /\ LET i == call[b].i
           m == b[i]
       IN  \/ /\ ~Full
              /\ memoryMsgChan' = Append(memoryMsgChan, m)
              /\ stage' = [stage EXCEPT ![m] = "queued"]
              /\ due' = [due EXCEPT ![m] = Settled]
              /\ Return(b, i, FALSE)
              /\ UNCHANGED <<backend, spilled>>
           \/ /\ Full
              /\ ephemeral
              /\ stage' = [stage EXCEPT ![m] = "dropped"]
              /\ Return(b, i, FALSE)
              /\ UNCHANGED <<queues, due, spilled>>
           \/ /\ Full
              /\ ~ephemeral
              /\ exit # "done"
              /\ backend' = Append(backend, m)
              /\ stage' = [stage EXCEPT ![m] = "queued"]
              /\ spilled' = spilled \cup {m}
              /\ due' = [due EXCEPT ![m] = Settled]
              /\ Return(b, i, FALSE)
              /\ UNCHANGED memoryMsgChan
           \/ /\ Full
              /\ ~ephemeral
              /\ Fails \/ exit = "done"
              /\ Return(b, i, TRUE)
              /\ UNCHANGED <<queues, stage, due, spilled>>
    /\ UNCHANGED <<proc, ephemeral, chans, pausing, startChan, pump, disk2,
                   emptying, exiting, bounds, got>>

-----------------------------------------------------------------------------
(* messagePump.                                                             *)

Start ==
    /\ proc = "up"
    /\ pump.pc = "wait"
    /\ startChan' = TRUE
    /\ UNCHANGED <<proc, ephemeral, queues, chans, pausing, pump, disk2, call,
                   messageCount, emptying, exiting, bounds, history>>

\* A plausible bug, for mutation: the pump forgets to look at the map again.
Mut_Refreshed == [pump EXCEPT !.on = pump.chans # {} /\ ~paused]

\* The pump's snapshot and its select after a change of the channels.
Refreshed == [pump EXCEPT !.chans = channelMap, !.on = channelMap # {} /\ ~paused]

\* A plausible bug, for mutation: unpausing does not look at the flag.
Mut_Repaused == [pump EXCEPT !.on = pump.chans # {}]

Repaused == [pump EXCEPT !.on = pump.chans # {} /\ ~paused]

PumpStart ==
    /\ proc = "up"
    /\ pump.pc = "wait"
    /\ startChan
    /\ startChan' = FALSE
    /\ pump' = [Refreshed EXCEPT !.pc = "loop"]
    /\ UNCHANGED <<proc, ephemeral, queues, chans, pausing, disk2, call,
                   messageCount, emptying, exiting, bounds, history>>

\* case <-t.channelUpdateChan, and the sender goes on: the last channel of an
\* ephemeral topic takes the topic with it.
PumpChannelUpdate ==
    /\ proc = "up"
    /\ pump.pc \in {"wait", "loop"}
    /\ \E u \in updates :
          /\ updates' = updates \ {u}
          /\ callback' = (callback \/ (u[2] /\ ephemeral))
    /\ pump' = IF pump.pc = "wait" THEN pump ELSE Refreshed
    /\ UNCHANGED <<proc, ephemeral, queues, channelMap, exitedChans, dropping,
                   pausing, startChan, disk2, call, messageCount, emptying,
                   exit, deleted, bounds, history>>

PumpPause ==
    /\ proc = "up"
    /\ pump.pc \in {"wait", "loop"}
    /\ pausers > 0
    /\ pausers' = pausers - 1
    /\ pump' = IF pump.pc = "wait" THEN pump ELSE Repaused
    /\ UNCHANGED <<proc, ephemeral, queues, chans, paused, startChan,
                   disk2, call, messageCount, emptying, exiting, bounds,
                   history>>

Take(m, delayed) ==
    /\ pump' = [pump EXCEPT !.pc = "fan", !.msg = m, !.delayed = delayed,
                            !.rest = pump.chans]
    /\ stage' = [stage EXCEPT ![m] = "pump"]
    /\ UNCHANGED <<proc, ephemeral, chans, pausing, startChan, disk2, call,
                   messageCount, emptying, exiting, bounds, got, due, acked, spilled>>

PumpMemory ==
    /\ proc = "up"
    /\ pump.pc = "loop" /\ pump.on
    /\ memoryMsgChan # << >>
    /\ memoryMsgChan' = Tail(memoryMsgChan)
    /\ Take(Head(memoryMsgChan), Head(memoryMsgChan) \in Deferred)
    /\ UNCHANGED backend

\* A decoded message has no delay: WriteTo() does not write it.
PumpBackend ==
    /\ proc = "up"
    /\ pump.pc = "loop" /\ pump.on
    /\ backend # << >>
    /\ exit # "done"
    /\ backend' = Tail(backend)
    /\ Take(Head(backend), FALSE)
    /\ UNCHANGED memoryMsgChan

\* A plausible bug, for mutation: only the first copy keeps the delay.
Mut_CopyDelayed == pump.delayed /\ pump.rest = pump.chans

\* The delay of the copy for the next channel.
CopyDelayed == pump.delayed

\* PutMessage or PutMessageDeferred of one channel, in the map's random order.
\* A channel that is exiting refuses, but not a delayed message; a channel's
\* write to its own backend may fail.
PumpPut ==
    /\ proc = "up"
    /\ pump.pc = "fan"
    /\ \E c \in pump.rest :
          /\ pump' = [pump EXCEPT !.rest = @ \ {c}]
          /\ \/ /\ CopyDelayed \/ c \notin exitedChans
                /\ got' = [got EXCEPT ![c] = @ \cup {<<pump.msg, CopyDelayed>>}]
                /\ UNCHANGED due
             \/ /\ ~CopyDelayed
                /\ c \in exitedChans \/ Fails
                /\ due' = [due EXCEPT ![pump.msg] = @ \ {c}]
                /\ UNCHANGED got
    /\ UNCHANGED <<proc, ephemeral, queues, chans, pausing, startChan, disk2,
                   call, messageCount, emptying, exiting, bounds, acked,
                   spilled, stage>>

PumpNext ==
    /\ proc = "up"
    /\ pump.pc = "fan" /\ pump.rest = {}
    /\ pump' = [pump EXCEPT !.pc = "loop", !.msg = Nil, !.delayed = FALSE]
    /\ stage' = [stage EXCEPT ![pump.msg] = "fanned"]
    /\ UNCHANGED <<proc, ephemeral, queues, chans, pausing, startChan, disk2,
                   call, messageCount, emptying, exiting, bounds, got, due, acked, spilled>>

PumpExit ==
    /\ proc = "up"
    /\ pump.pc \in {"wait", "loop"}
    /\ exitChanClosed
    /\ pump' = [NewPump EXCEPT !.pc = "exited"]
    /\ UNCHANGED <<proc, ephemeral, queues, chans, pausing, startChan, disk2,
                   call, messageCount, emptying, exiting, bounds, history>>

-----------------------------------------------------------------------------
(* putMemoryToFile and memoryBackend.  The second disk queue is created     *)
(* with a nil logf, which it calls when it opens a file to write or read.   *)

ToFileReceive ==
    /\ proc = "up"
    /\ toFile = "recv"
    /\ memoryMsgChan # << >>
    /\ toFile' = Head(memoryMsgChan)
    /\ memoryMsgChan' = Tail(memoryMsgChan)
    /\ stage' = [stage EXCEPT ![Head(memoryMsgChan)] = "toFile"]
    /\ UNCHANGED <<proc, ephemeral, backend, chans, pausing, startChan, pump,
                   readAhead, call, messageCount, emptying, exiting,
                   bounds, got, due, acked, spilled>>

\* The file cannot be opened: the error is ignored, the message is gone.
ToFileError ==
    /\ proc = "up"
    /\ toFile \in Msg
    /\ Fails
    /\ toFile' = "done"
    /\ stage' = [stage EXCEPT ![toFile] = "stray"]
    /\ UNCHANGED <<proc, ephemeral, queues, chans, pausing, startChan, pump,
                   readAhead, call, messageCount, emptying, exiting,
                   bounds, got, due, acked, spilled>>

\* The nil logf is called: the process ends.  What was in memory is lost.
Panic ==
    /\ proc = "up"
    /\ toFile \in Msg \/ readAhead
    /\ proc' = "panic"
    /\ stage' = [m \in Msg |->
                   IF stage[m] \in {"queued", "toFile", "pump"} /\ ~Contains(backend, m)
                   THEN "panic" ELSE stage[m]]
    /\ UNCHANGED <<ephemeral, queues, chans, pausing, startChan, pump, disk2,
                   call, messageCount, emptying, exiting, bounds, got, due, acked, spilled>>

-----------------------------------------------------------------------------
(* Channels, pause, empty.                                                  *)

\* A plausible bug, for mutation: GetChannel() does not tell messagePump.
Mut_Announced(c) == updates

\* The senders on channelUpdateChan once GetChannel() has created c.
Announced(c) == updates \cup {<<c, FALSE>>}

\* GetChannel() of a name that is not in the map.
GetChannel(c) ==
    /\ proc = "up"
    /\ Admin
    /\ Unlocked
    /\ c \notin channelMap \cup exitedChans \cup {drop[1] : drop \in dropping}
    /\ channelMap' = channelMap \cup {c}
    /\ updates' = Announced(c)
    /\ UNCHANGED <<proc, ephemeral, queues, exitedChans, dropping, pausing,
                   startChan, pump, disk2, call, messageCount, emptying, exiting, opens, history>>

DeleteExistingChannel(c) ==
    /\ proc = "up"
    /\ Admin
    /\ Unlocked
    /\ c \in channelMap
    /\ channelMap' = channelMap \ {c}
    /\ dropping' = dropping \cup {<<c, channelMap = {c}>>}
    /\ UNCHANGED <<proc, ephemeral, queues, exitedChans, updates, pausing,
                   startChan, pump, disk2, call, messageCount, emptying, exiting, opens, history>>

\* channel.Delete(), after which the goroutine sends on channelUpdateChan.
DeleteChannel(c) ==
    /\ proc = "up"
    /\ \E drop \in dropping :
          /\ drop[1] = c
          /\ dropping' = dropping \ {drop}
          /\ updates' = updates \cup {drop}
    /\ exitedChans' = exitedChans \cup {c}
    /\ UNCHANGED <<proc, ephemeral, queues, channelMap, pausing, startChan, pump,
                   disk2, call, messageCount, emptying, exiting, bounds,
                   history>>

doPause(pause) ==
    /\ proc = "up"
    /\ Admin
    /\ paused' = pause
    /\ pausers' = pausers + 1
    /\ UNCHANGED <<proc, ephemeral, queues, chans, startChan, pump, disk2, call,
                   messageCount, emptying, exiting, opens, history>>

\* case <-t.exitChan, in GetChannel, DeleteExistingChannel and doPause.
GiveUp ==
    /\ proc = "up"
    /\ exitChanClosed
    /\ \/ /\ \E u \in updates :
                /\ updates' = updates \ {u}
                /\ callback' = (callback \/ (u[2] /\ ephemeral))
          /\ UNCHANGED pausers
       \/ /\ pausers > 0
          /\ pausers' = pausers - 1
          /\ UNCHANGED <<updates, callback>>
    /\ UNCHANGED <<proc, ephemeral, queues, channelMap, exitedChans, dropping,
                   paused, startChan, pump, disk2, call, messageCount,
                   emptying, exit, deleted, bounds, history>>

\* One round of Empty(): a message of the memory queue, or at last the backend.
Drain ==
    IF memoryMsgChan # << >>
    THEN /\ memoryMsgChan' = Tail(memoryMsgChan)
         /\ stage' = [stage EXCEPT ![Head(memoryMsgChan)] = "emptied"]
         /\ UNCHANGED backend
    ELSE /\ backend' = << >>
         /\ stage' = [m \in Msg |-> IF Contains(backend, m) THEN "emptied" ELSE stage[m]]
         /\ UNCHANGED memoryMsgChan

Empty ==
    /\ proc = "up"
    /\ ~emptying
    /\ Admin
    /\ emptying' = TRUE
    /\ UNCHANGED <<proc, ephemeral, queues, chans, pausing, startChan, pump, disk2,
                   call, messageCount, exiting, opens, history>>

EmptyStep ==
    /\ proc = "up"
    /\ emptying
    /\ IF memoryMsgChan = << >> /\ exit = "done" THEN UNCHANGED <<queues, stage>> ELSE Drain
    /\ emptying' = (memoryMsgChan # << >>)
    /\ UNCHANGED <<proc, ephemeral, chans, pausing, startChan, pump, disk2, call,
                   messageCount, exiting, bounds, got, due, acked, spilled>>

-----------------------------------------------------------------------------
(* exit(), for Close() and Delete().                                        *)

Exit(del) ==
    /\ proc = "up"
    /\ Admin
    /\ exit = "no"
    /\ exit' = "wait"
    /\ deleted' = del
    /\ UNCHANGED <<proc, ephemeral, queues, chans, pausing, startChan, pump, disk2,
                   call, messageCount, emptying, callback, opens, history>>

DeleteCallback ==
    /\ callback
    /\ Exit(TRUE)

\* t.waitGroup.Wait(): for messagePump and for putMemoryToFile.
ExitWait ==
    /\ proc = "up"
    /\ exit = "wait"
    /\ pump.pc = "exited" /\ toFile = "done"
    /\ exit' = "channels"
    /\ UNCHANGED <<proc, ephemeral, queues, chans, pausing, startChan, pump, disk2,
                   call, messageCount, emptying, deleted, callback,
                   bounds, history>>

\* Only Delete() locks the topic and takes the channels out of the map.
ExitChannels ==
    /\ proc = "up"
    /\ exit = "channels"
    /\ deleted => Unlocked
    /\ exit' = IF deleted THEN "empty" ELSE "flush"
    /\ exitedChans' = exitedChans \cup channelMap
    /\ channelMap' = IF deleted THEN {} ELSE channelMap
    /\ UNCHANGED <<proc, ephemeral, queues, dropping, updates, pausing, startChan,
                   pump, disk2, call, messageCount, emptying, deleted,
                   callback, bounds, history>>

\* Empty() and then backend.Delete().
ExitEmpty ==
    /\ proc = "up"
    /\ exit = "empty"
    /\ Drain
    /\ exit' = IF memoryMsgChan # << >> THEN exit ELSE "done"
    /\ UNCHANGED <<proc, ephemeral, chans, pausing, startChan, pump, disk2, call,
                   messageCount, emptying, deleted, callback, bounds,
                   got, due, acked, spilled>>

\* A plausible bug, for mutation: closes the backend without flushing.
Mut_ExitFlush ==
    /\ proc = "up"
    /\ exit = "flush"
    /\ exit' = "done"
    /\ UNCHANGED <<proc, ephemeral, queues, chans, pausing, startChan, pump, disk2,
                   call, messageCount, emptying, deleted, callback, bounds,
                   history>>

\* flush(), a message at a time, and then backend.Close().
ExitFlush ==
    /\ proc = "up"
    /\ exit = "flush"
    /\ \/ /\ memoryMsgChan = << >>
          /\ exit' = "done"
          /\ UNCHANGED <<queues, spilled, stage>>
       \/ /\ memoryMsgChan # << >>
          /\ memoryMsgChan' = Tail(memoryMsgChan)
          /\ \/ /\ ephemeral
                /\ stage' = [stage EXCEPT ![Head(memoryMsgChan)] = "dropped"]
                /\ UNCHANGED <<backend, spilled>>
             \/ /\ ~ephemeral
                /\ backend' = Append(backend, Head(memoryMsgChan))
                /\ spilled' = spilled \cup {Head(memoryMsgChan)}
                /\ UNCHANGED stage
             \/ /\ ~ephemeral /\ Fails
                /\ stage' = [stage EXCEPT ![Head(memoryMsgChan)] = "unwritten"]
                /\ UNCHANGED <<backend, spilled>>
          /\ UNCHANGED exit
    /\ UNCHANGED <<proc, ephemeral, chans, pausing, startChan, pump, disk2, call,
                   messageCount, emptying, deleted, callback, bounds,
                   got, due, acked>>

\* nsqd starts again: NewTopic() with what the disk queue kept, and the
\* channels of the metadata, as GetChannel() left them.
NewTopic ==
    /\ opens < MaxOpens
    /\ ~ephemeral
    /\ proc = "panic" \/ (exit = "done" /\ ~deleted)
    /\ opens' = opens + 1
    /\ proc' = "up"
    /\ memoryMsgChan' = << >>
    /\ dropping' = {} /\ updates' = {}
    /\ exitedChans' = (exitedChans \cup {drop[1] : drop \in dropping}) \ channelMap
    /\ pausers' = 0
    /\ startChan' = FALSE
    /\ pump' = NewPump
    /\ toFile' = "recv" /\ readAhead' = (backend # << >>)
    /\ call' = [b \in Call |-> IF Inside(b) THEN [call[b] EXCEPT !.pc = "error"]
                              ELSE call[b]]
    /\ messageCount' = 0
    /\ emptying' = FALSE
    /\ exit' = "no" /\ deleted' = FALSE /\ callback' = FALSE
    /\ stage' = [m \in Msg |->
                   IF stage[m] \in {"queued", "toFile"} /\ ~Contains(backend, m)
                   THEN "unwritten" ELSE stage[m]]
    /\ UNCHANGED <<ephemeral, backend, channelMap, paused, admin, got, due, acked, spilled>>

-----------------------------------------------------------------------------
PumpStep ==
    \/ PumpStart \/ PumpChannelUpdate \/ PumpPause \/ PumpMemory \/ PumpBackend
    \/ PumpPut \/ PumpNext \/ PumpExit

ExitStep == ExitWait \/ ExitChannels \/ ExitEmpty \/ ExitFlush

Next ==
    \/ \E b \in Call : doPUB(b) \/ doMPUB(b) \/ put(b)
    \/ Start
    \/ PumpStep
    \/ ToFileReceive \/ ToFileError \/ Panic
    \/ \E c \in Chan : GetChannel(c) \/ DeleteExistingChannel(c) \/ DeleteChannel(c)
    \/ \E pause \in BOOLEAN : doPause(pause)
    \/ GiveUp
    \/ Empty \/ EmptyStep
    \/ \E kind \in ExitKinds : Exit(kind = "delete")
    \/ DeleteCallback
    \/ ExitStep
    \/ NewTopic

Spec == Init /\ [][Next]_vars

(* Every goroutine that is inside a call or a loop goes on; GetTopic starts *)
(* the topic it has created.  Nothing is assumed of clients.  There are     *)
(* finitely many calls, so that one of them going on is all of them.        *)
Fairness ==
    /\ WF_vars(PumpStep)
    /\ WF_vars(Start)
    /\ WF_vars(ToFileReceive \/ ToFileError \/ Panic)
    /\ WF_vars(\E b \in Call : put(b))
    /\ WF_vars(\E c \in Chan : DeleteChannel(c))
    /\ WF_vars(GiveUp) /\ WF_vars(EmptyStep) /\ WF_vars(ExitStep)

FairSpec == Spec /\ Fairness

-----------------------------------------------------------------------------
(* Properties.                                                              *)

Queued(m) == Contains(memoryMsgChan, m) \/ Contains(backend, m)

TypeOK ==
    /\ proc \in {"up", "panic"}
    /\ ephemeral \in BOOLEAN
    /\ memoryMsgChan \in Seq(Msg) /\ Len(memoryMsgChan) <= MemQueueSize
    /\ backend \in Seq(Msg)
    /\ channelMap \subseteq Chan /\ exitedChans \subseteq Chan
    /\ dropping \subseteq Chan \X BOOLEAN /\ updates \subseteq Chan \X BOOLEAN
    /\ paused \in BOOLEAN /\ pausers \in Nat
    /\ startChan \in BOOLEAN
    /\ pump \in [pc : {"wait", "loop", "fan", "exited"}, chans : SUBSET Chan,
                  on : BOOLEAN, msg : Msg \cup {Nil}, delayed : BOOLEAN,
                  rest : SUBSET Chan]
    /\ toFile \in Msg \cup {"recv", "done"} /\ readAhead \in BOOLEAN
    /\ \A b \in Call : call[b] \in [pc : {"new", "put", "ok", "error"}, i : DOMAIN b]
    /\ messageCount \in Nat
    /\ emptying \in BOOLEAN /\ admin \in Nat /\ opens \in Nat
    /\ exit \in {"no", "wait", "channels", "empty", "flush", "done"}
    /\ deleted \in BOOLEAN /\ callback \in BOOLEAN
    /\ got \in [Chan -> SUBSET (Msg \X BOOLEAN)]
    /\ due \in [Msg -> SUBSET Chan]
    /\ acked \subseteq Msg /\ spilled \subseteq Msg
    /\ stage \in [Msg -> {"new", "queued", "toFile", "pump", "fanned", "stray",
                          "emptied", "dropped", "unwritten", "panic"}]

\* Once every Pause(), UnPause(), GetChannel() and DeleteExistingChannel() has
\* returned, messagePump works with the channels of the map, and receives
\* messages exactly if there are some and the topic is not paused.
PumpUpToDate ==
    (/\ proc = "up" /\ ~exitFlag
     /\ pump.pc \in {"loop", "fan"}
     /\ pausers = 0 /\ updates = {} /\ dropping = {})
    => /\ pump.chans = channelMap
       /\ pump.on = (channelMap # {} /\ ~paused)

\* messagePump is done with a message only when every channel that existed
\* when it was published, and has not been deleted since, has got it, unless
\* that channel's own write failed.  (A message that putMemoryToFile took is not the
\* pump's any more.)
FanOutComplete ==
    \A m \in Msg : stage[m] = "fanned" =>
        \A c \in due[m] \cap channelMap : \E delayed \in BOOLEAN : <<m, delayed>> \in got[c]

\* All channels get a message with the same delay: the one it was published
\* with, or none if it has been through the disk queue, which drops it.
SameDelay ==
    \A c \in Chan : \A e \in got[c] : e[2] = (e[1] \in Deferred \ spilled)

\* When Close() returns, a message acknowledged before it began has been
\* handed to the channels or is in the disk queue, but for the one that
\* putMemoryToFile took and for writes that failed.
CloseKeeps ==
    (proc = "up" /\ exit = "done" /\ ~deleted) =>
        \A m \in acked :
            stage[m] \notin {"fanned", "stray", "emptied", "dropped", "unwritten", "panic"}
            => Contains(backend, m)

\* messageCount is the number of messages queued, also when MPUB fails
\* half-way: the messages before the failure stay queued and are counted.
CountsQueued ==
    (proc = "up" /\ opens = 0 /\ Unlocked) =>
        messageCount = Cardinality({m \in Msg : stage[m] # "new"})

\* A queued message of a topic with channels that is neither paused nor
\* exiting is taken out of the queue some day, by the pump or by putMemoryToFile,
\* unless the process panics first, as putMemoryToFile can make it.
QueuedMoves ==
    \A m \in Msg : Queued(m) ~> (\/ ~Queued(m) \/ paused \/ channelMap = {}
                                 \/ exitFlag \/ proc = "panic")

\* Close() and Delete() return: TestDeletes deletes a topic that nothing was
\* ever published to and expects that.
ExitReturns == (exit = "wait") ~> (exit = "done" \/ proc = "panic")
=============================================================================
