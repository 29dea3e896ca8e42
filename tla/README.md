# A TLA+ verification project for nsqd, nsqlookupd and nsq_to_file

TLA+ modules for the parts of this repository that decide what happens to a
message, the TLC configurations that check them, and TLAPS proofs of the
properties that matter most. `PROJECT.json` maps every definition to the lines
of Go it models, and lists the runs, the findings, the hazards and the theorems.

## The system

`nsqd` queues messages and delivers them. A *producer* publishes to a **topic**;
the topic's `messagePump` copies each message into every **channel** of the
topic; each channel hands a message to one of its **consumers** and waits until
it is finished. `nsqlookupd` is the directory consumers ask which nsqd has a
topic. The other programs are clients of these two.

| Component | State | Operations | Interacts through |
|---|---|---|---|
| Message IDs, `nsqd/guid.go` | sequence, lastTimestamp, lastID | NewGUID | the wall clock; one factory per topic |
| Channel, `nsqd/channel.go`, `in_flight_pqueue.go` | memory queue, backend, in-flight map and time-out queue, deferred map and queue, clients, exit flag | PutMessage, PutMessageDeferred, Finish-, Requeue-, TouchMessage, AddClient, RemoveClient, StartInFlightTimeout, processInFlightQueue, processDeferredQueue, Empty, Close, Delete | five mutexes, Go channels; called by the topic, by two goroutines per client, by scan workers and by HTTP handlers |
| Protocol V2, `protocol_v2.go`, `client_v2.go` | ReadyCount, InFlightCount, state, settings, the Writer and its layers, authorizations | IDENTIFY, AUTH, PUB, DPUB, MPUB, SUB, RDY, FIN, REQ, TOUCH, CLS; messagePump | IOLoop and messagePump of a client share atomics and four Go channels |
| Disk queue, `disk/diskqueue.go` (of a topic; channels import the go-diskqueue package it was taken from) | data files, metadata file, positions, depth, a read-ahead buffer | Put, ReadChan, Empty, Close, Delete, New | one goroutine, ioLoop; the file system |
| Topic, `nsqd/topic.go` | memory queue, two backends, channel map, pause and exit flags | PutMessage(s), GetChannel, DeleteExistingChannel, Pause, Empty, Close, Delete; messagePump, putMemoryToFile | channels, disk queue, Notify |
| NSQD, `nsqd/nsqd.go` | topic map, metadata file, isLoading | GetTopic, DeleteExistingTopic, Load- and PersistMetadata, Notify, Exit, queueScanLoop | everything |
| Lookup client, `nsqd/lookup.go`, `lookup_peer.go` | peers and their connections | lookupLoop: connect, ping, register, unregister | notifyChan; TCP to nsqlookupd |
| nsqlookupd | registrations, producers, tombstones | IDENTIFY, REGISTER, UNREGISTER, PING, HTTP create, delete, tombstone, lookup | an RWMutex; TCP and HTTP |
| nsq_to_file | open file, messages not yet finished, work and output directory | router: write, rotate, sync, rename, finish; discoverer: topics, signals | go-nsq, the file system |
| nsqadmin, clusterinfo, statistics, tools | none that outlives a request | | HTTP |

What is hard here is listed in `PROJECT.json` under `hazards`, each at the line
where it bites: a message moves between a queue, a map and a priority queue in
several critical sections and five kinds of goroutine do so at once; time-outs
race with late answers; the disk queue must survive a kill between any two
system calls. What makes each component correct:

* **IDs** strictly increase and never collide between nodes.
* **Channel**: a message is in one place at a time; a finished message does not
  come back; a message in flight has a time-out; a client's count is right,
  because it decides whether the client gets messages; Close persists.
* **Disk queue**: first in, first out; what was synced survives; the depth is
  exact; no file leaks.
* **Topic**: the pump works with the channels there are; a message reaches every
  channel that existed when it was published; Close keeps what was acknowledged;
  exit terminates.
* **NSQD**: a name has one topic; what the metadata file was told survives.
* **Client**: a ready client is not left asleep; settings, encryption and policy
  hold for both goroutines; what is buffered goes out.
* **Lookup**: the directory converges to what exists and names nobody who is gone.
* **nsq_to_file**: a message is finished only when it is on disk for good.

## Modules

| Module | Models | Checked by | Proved in |
|---|---|---|---|
| `Guid` | `nsqd/guid.go` | `MCGuid` | `GuidProofs` |
| `Channel` | a channel, its clients' IOLoop and messagePump, the scan worker | `MCChannel` | `ChannelProofs` |
| `DiskQueue` | `disk/diskqueue.go` | `MCDiskQueue` | `DiskQueueProofs` |
| `Topic` | `nsqd/topic.go`, `/pub`, `/mpub`, `/topic/empty` | `MCTopic` | `TopicProofs` |
| `NSQD` | `nsqd/nsqd.go` around its topics, the administrative handlers of `nsqd/http.go`, `apps/nsqd/main.go` | `MCNSQD` | `NSQDProofs` |
| `Client` | one connection: `protocol_v2.go`, `client_v2.go`, the authorizations | `MCClient` | `ClientProofs` |
| `Lookup` | `nsqd/lookup.go` and `lookup_peer.go` composed with nsqlookupd | `MCLookup` | `LookupProofs` |
| `Relay` | abstract: what a consumer that stores messages promises | | |
| `FileLogger` | nsq_to_file, shown to implement `Relay` | `MCFileLogger` | `FileLoggerProofs` |

A module sees its neighbours through what they promise: `Topic` has a sequence
for a disk queue and a set for a channel, `Client` counts messages that `Channel`
tells apart, `NSQD` has topics that only exist, start, pause and exit.

Definitions named `Mut_...` are deliberate bugs. Each stands before the
definition it would replace; with it in place the property named in
`PROJECT.json` fails. No specification uses them.

### Guid

`NewGUID` runs under a mutex, so it is one action per outcome: `TimeBackwards`,
`SequenceExpired` (which keeps the wrapped sequence), and `Issue`, which updates
`sequence` and `lastTimestamp` even when the id is refused as not larger than
`lastID`. `Tick` sets the host's clock to any reading. Shifts and ors are
multiplication and addition (`Compose`); the fields do not overlap, which is
what NodeSize and SeqSize say. 64-bit overflow is out of reach: the timestamp
has 41 bits.

### Channel

A step of the model is what a goroutine does between two points where another
can interfere: one critical section of `inFlightMutex` or `deferredMutex`, one
Go channel operation, one atomic update. So `FIN` is `popInFlightMessage`
(`FIN`), `removeFromInFlightPQ` (`AnswerPQ`) and `FinishedMessage`
(`AnswerCount`); `StartInFlightTimeout` is `PumpPush` and `PumpAddPQ`;
`Empty()` is five steps; `exit()` as many as it has loops. `pub`, `io[c]`,
`pump[c]`, `scan`, `emp` and `ext` are the program counters of the goroutines.

Objects matter: a message that went through the backend is decoded into a *new*
`Message` (`Fresh`, at most `Copies` per ID alive at once), whose entry in the
time-out queue is a different one from the old object's. `inFlightPQ` counts the
entries of each object, and `index` abstracts `Message.index` to what
`removeFromInFlightPQ` can do with it: `none` (-1), `in` (its own position),
`fresh` (0 because it was never pushed), `stale` (a position in a queue that
`Empty()` has thrown away). `Swap()` may repair the index of any entry, which
`Reindexed` allows.

Time is abstracted: whatever is in a priority queue may be due when the scanner
looks. The heap order is therefore irrelevant here. The scanner is one process:
`queueScanLoop` waits for all its workers before it selects again, so a channel
is never scanned by two of them for the same pass.

`loc` is a history variable with the place each message was last moved to; the
properties compare it with the real queues, maps and hands.

Left out: pause, `messageCount` and the other statistics, output buffering, a
body that cannot be decoded, and the 16-bit wrap of `Attempts`
(bound: `MaxAttempts`).

### DiskQueue

A byte range is a sequence of cells; a message is `Size[m]` cells, the first of
which is its length prefix. `files` is what a process sees, `synced` what a
power failure leaves. `LoopTop`, `ReadAhead` and the cases of the `select` are
the actions of `ioLoop`; `Fill` is `bufio.Reader` reading ahead. The metadata
file is replaced atomically (written, synced, renamed) and removals are durable:
directory entries are not modelled as volatile. A cell that is not a length
prefix, read as one, is an invalid length (zeros always are).
Between `Empty()` and `Delete()` the owner does nothing else (`deleting`), as in
`Topic.exit` and `Channel.exit`. A `Close()` whose metadata write fails leaves
what `Crash("kill")` leaves. `env` is what may happen in a behaviour: which exits,
crashes and failures.

A write that fails (`WriteFails`) may have left any number of the message's cells after
the write position. They do no harm when the next Put overwrites them first. When the
reader has buffered them before that (`BufferedPastEnd`), it goes on with the old bytes,
delivers a mixture, swallows a message or passes the write position; the same holds of
what a process that was killed had written after its last sync. The history variable
`mixed` records that a Put has overwritten what the reader holds, and every property is
about the behaviour until then.

`q` is the abstract queue the properties compare with, `owed` what must be
delivered: a message whose `Put` returned nil, and after a crash what the last
sync covered.

### Topic

Steps are those of a goroutine between two points of interference: a publishing call
that holds the read lock (`PutMessages`, then `put` once per message), the cases of
`messagePump`'s select, one channel of its fan-out (`PumpPut`), a handler that sends on
`channelUpdateChan` or `pauseChan` (`updates`, `pausers`), the steps of `exit()`, and
the goroutine `putMemoryToFile`. That one takes a single message from the memory queue
and writes it with `memoryBackend`, a second disk queue on the same files. That disk
queue has a nil logger, which it calls as soon as it has opened a file: either the file
cannot be opened and the message is gone (`ToFileError`, stage `stray`), or the process
panics (`Panic`). The handlers `/pub` and `/mpub` are `doPUB` and `doMPUB`; PUB, DPUB
and MPUB of a client make the same calls. `stage`, `due`, `got` and `acked` are history.
A topic that was closed is opened again by `NewTopic`.

### NSQD

`topics` are objects, `topicMap` maps names to them. Requests and the goroutines
of `Notify` are actors that hold or wait for the lock; `PersistMetadata` visits
one topic per step, since its topics change under it, and then renames the file.
`Crash` may strike at any step; `Restart` begins with `LoadMetadata` from what the
file says. The file is replaced as a whole (written to another, synced, renamed).
`doubled` records that two deletions of one name overlapped in this life of the
process, `failed` that a write of the file failed: `NoOrphan`, `PauseSurvives` and
`MetaSettled` say where these matter. A life in which deletions overlapped may have
lost an answered pause, so `Restart` then also forgets which ones were answered. What the
lookup daemons answer to a new topic is any subset of `LookupChans`.

### Client

`Reading` and `Done`, `Fatal` are IOLoop around a command; IDENTIFY may be refused by
any of its setters, after those before it took their values (`Refused`), and otherwise
goes on in `Upgrade`, one layer at a time of one of the `Upgrades` it can negotiate.
`pump` holds what the pump has read for itself (version of the settings, tickers,
whether it is subscribed) and which of its two selects it is in. A delivery is three
steps: in flight (`PumpMessage`), counted (`SendingMessage`), written (`SendMessage`).
`inflight` is the size of the in-flight map and `InFlightCount` the client's own count,
which answers (`Answer`, `Answered`), time-outs (`processInFlightQueue`,
`TimedOutMessage`) and /channel/empty (`initPQ`, `Empty`) also change a step after the
map: it is -1 when an answer comes before `SendingMessage`, and may stay wrong after an
Empty. `Written` is what stays behind a write: the tail of a message that did not fit
the buffer, and what the deflate writer holds. `ReadyStateChan` has room for one: `Wake`
and `Poke` are the goroutines that are about to try it. `layers` and `writer` say
through which layers the connection goes and which of them `client.Writer` covers.

### Lookup

Every method of `RegistrationDB` is one critical section, so a TCP command or an
HTTP request is a sequence of calls (`Program`, `Request`), run by `Call` one at a
time among those of other connections. A notification carries an object; whether
it becomes REGISTER or UNREGISTER is decided when the loop receives it (`Verb`).
A connection may break at any point; the loop notices with the next command, and
nsqlookupd when it reads. The run has one nsqd: what concerns two producers (the
registrations of an old connection and of a new one) happens between two of its
connections. `excuse` collects the ways in which the code lets the
directory go wrong, so that `Converges` and `ChannelHasTopic` hold for everything
else:

* `snapshot of an exiting topic`: a reconnection registers a topic that is being
  deleted, after its notification was handled;
* `old object after the new one`: the notification of a deleted topic or channel
  is handled after that of its successor, and unregisters it;
* `channel after its topic`: a channel is registered after its topic was
  unregistered;
* `dropped under another producer`: UNREGISTER of an ephemeral key counts the
  producers that are left and removes the key in two calls, and a REGISTER comes
  between them;
* `deleted by an administrator`: an HTTP deletion of a key that still has
  producers, who only register it again when they reconnect.

### FileLogger and Relay

A file is a sequence of messages and newlines with the length that was fsynced; a
directory maps names (datetime and revision) to files. The router's loop is split at
every system call, so that a kill or a power failure (`PowerFail`, which cuts files back
to what was fsynced) can come between the message and its newline, the link and the
removal, the fsync and the finish. Directory entries are not modelled as volatile: an
fsync is taken to make the file's own entry durable, and the link and the removal of
`exclusiveRename` to be durable at once. `Relay` says that a message is finished only
once stored and that what is stored stays; `FileLogger` implements it with `stored`
mapped to the messages in the fsynced part of a named file.

## Runs

| Run | Result | Instance and why it is enough |
|---|---|---|
| `guid` | pass | two factories, four clock readings on both sides of the epoch, four ids a tick, so the sequence wraps and the clock goes back |
| `channel` | pass | two messages with one client or one message with two clients (`SmallWorkload`), three deliveries, one TOUCH, everything in memory: a late answer needs two deliveries, a stolen entry two messages, an answer by a former owner two clients |
| `channel_admin` | pass | two messages, one client, a memory queue of one so that messages overflow and are decoded again, failing writes, sampling, one /channel/empty, Close and Delete (`SmallAdmin` limits exits with consumers to one message, and an emptied channel to three deliveries) |
| `channel_live` | pass | two messages, one client, two deliveries, a memory queue of one: a message overflows to the backend and is decoded again, so that the time-out entry of the other is stolen (after which `InFlightEnds` claims nothing, and would be false) and the process panics |
| `channel_late_answer` | violation | as `channel_admin`, nothing failing |
| `diskqueue` | pass | messages of one, two and three cells in files of two: one ends exactly at the limit, one is larger than a file; sync every two operations; a buffer of three cells; failing operations (writes at every cell) without crashes, kills with failing writes, or kills and power failures, two of them, anywhere, with Puts after each |
| `topic` | pass | a delayed message, and two published alone or as one MPUB; two messages in a run, so that one overflows a memory queue of one; two channels; four calls, so that both channels, a publication and a pause, deletion, Empty or exit meet; failing writes; one reopening; ephemeral or not |
| `topic_exit` | violation | the same with one channel, nothing failing, Delete |
| `nsqd` | pass | one name that is ephemeral or not, one channel, two requests at a time of three in all, two topic objects in a life, one failed write, one restart: a deletion, a creation and a pause of one name overlap |
| `lookup` | pass | one nsqd with an ephemeral topic and a channel, each made twice, two connections, four operations, HTTP requests or breaks: a reconnection, the old connection's clean-up and an administrator meet |
| `client` | pass | RDY up to 1, a write buffer of one message, two messages, an IDENTIFY out of four that differ in heartbeat, flush ticker, buffer and layers or are refused, with and without TLS and authorization; one goroutine at a time between a change and its wake-up. An answer, a time-out and an Empty come between any two steps of the pump |
| `file_logger` | pass | two messages, two datetimes, four configurations (plain; gzip with work directory; work directory that skips empty files; rotation by interval and size), two events (a rotation, HUP, TERM, a time-out, a kill or power failure, a logger that cannot be created, another process's file, a tick of the clock) |

Messages and clients are interchangeable, which the safety runs use as symmetry.
Deadlock is not checked where the system may stop: clients may leave, a process may end,
and the bounds end a run. The modules' type invariants hold in the same instances; the
runs list those of `Guid`, `Channel` and `FileLogger`. `client` was also run once with
RDY up to 2 and two IDENTIFYs, with its safety properties and `TypeOK` (6 million
states). `file_logger` was also run once with three events, without its liveness
property (2.1 million states).

What the passing runs say:

* `OnePlace`, `EndedStays`: no interleaving of delivery, FIN, REQ, TOUCH,
  time-out and Empty duplicates a message, forgets one, or brings back one that
  has ended. What is lost is lost to a failed write, and the model says where.
* `CountExact`, `RdyBound`: a client's InFlightCount is the number of messages
  it owns plus the updates under way. This needs a channel that is not emptied
  and requeues that do not fail.
* `RemovesOwnEntry`, `TimeoutArmed`: an answer removes its own queue entry, and
  no message in flight is without one. This needs messages that stay in memory.
* `ClosePersists`: Close writes everything, if no consumer is connected.
* `InFlightEnds`: no message stays in flight for ever, as long as no answer has removed
  another message's queue entry or panicked. Finding 1 shows both, and the message whose
  entry is gone stays in flight. `DeferredEnds`: no message stays deferred, unless the
  process panics.
* `InOrder`, `NothingOwed`, `DepthExact`, `NoStrayFiles`, `OwedDelivered`: the
  disk queue is a FIFO that loses nothing, after failed and half-written Puts too; after
  crashes it still delivers, in order, what was synced. All five hold until a Put
  overwrites bytes the reader has buffered (`mixed`); depth and stray files are stated
  without crashes.
* `PumpUpToDate`, `FanOutComplete`, `QueuedMoves`: no order of pausing, creating
  and deleting channels leaves the pump with an old view; a message the pump is done
  with is in every channel that existed when it was published; a queued message is
  taken by the pump or by `putMemoryToFile`, or the process panics. What
  `putMemoryToFile` takes is written to disk at best, and never fanned out.
* `SameDelay`, `CountsQueued`, `CloseKeeps`: the delay is the same in every
  channel (and gone once a message has been on disk); the count is right when an
  MPUB fails half-way; Close keeps what was acknowledged before it began.
* `PauseSurvives`, `NoOrphan`, `MetaSettled`, `CreatedSettles`: an answered pause whose
  write of the file succeeded is in the file whatever crashes (the handlers ignore an
  error of PersistMetadata and answer 200 all the same); a name has one topic; the file
  describes the topics once all is quiet; a created topic is started and gets into the
  file.
* `Awake`, `SettingsAgree`, `PolicyFirst`, `Flushed`: a dropped wake-up is never
  missed; the pump and the Writer follow the negotiated settings; no topic is
  created past TLS or stale authorizations; a buffered message goes out.
* `NoGhosts`, `ChannelHasTopic`, `Converges`: no registration outlives its
  connection; a channel's producer is its topic's; the directory converges.
* `ImplementsRelay`, `OwnLine`, `OutputFinal`, `AllFinished`: nsq_to_file is a
  relay; a finished message is a line of its own; a file of the output directory
  never changes again; every message is finished in the end. `TypeOK` holds that
  the router's `output` is never written past its end.

### Findings

1. `channel_late_answer`. A message decoded from disk has index 0. If its client
   answers an earlier delivery of it between `pushInFlightMessage` and
   `addToInFlightPQ`, `Remove(0)` takes another message's entry (that message
   then stays in flight without a time-out) or panics on an empty queue.
2. `topic_exit`. `exit()` waits for `putMemoryToFile`, which waits for a message:
   a topic that nothing was published to can be neither closed nor deleted, which
   TestDeletes expects.

Two more defects met on the way, which no run is about. Once a message has been
published, `putMemoryToFile` usually panics: its disk queue has no logger and logs the
first file it opens, so publishing in TestPause or TestDeleteLast takes the process down
(`Panic`, a disjunct of several properties of `Topic`). And `nsqlookupd/http.go:116`
calls `FindRegistlrations`, which does not exist: nsqlookupd does not compile as it
stands. `Lookup` reads it as `FindRegistrations`.

Conditions the properties carry because the code does not do better:

* `client.Empty()` stores 0 while a pump or an answer still has to add or subtract
  one: the count is off from then on (`CountExact` without Empty).
* A message in the hands of a pump or of a REQ while a channel's Close() flushes
  is not written (`ClosePersists` without consumers).
* `writeOne` neither truncates nor remembers what a failed write, or a process that was
  killed, left after the write position. A reader that buffers those bytes before the
  next Put overwrites them delivers a mixture, loses messages and may pass the write
  position (the `mixed` condition). Without it the run finds `InOrder`, `NothingOwed` and
  `DepthExact` violated with no crash at all; with five messages, of one, three and four
  cells in files of four, a length read from the mixture takes the reader past the file
  being written, where it renames files that do not exist for ever, and `NoStrayFiles`
  says nothing of the file left behind.
* A failed write or fsync closes the file without fsync, as Close() does, and the
  metadata then count what a power failure can take: `diskqueue` has no power failure
  together with these.
* An answer that removes the queue entry of another message leaves that one in flight for
  ever (`InFlightEnds`).
* A publication acknowledged while the topic's `exit()` runs, and the message that
  `putMemoryToFile` took, may be lost (`CloseKeeps`).
* Overlapping deletions of one name can orphan a topic created in between, and an
  answered pause is lost with it (`NoOrphan`, `PauseSurvives`); the file may keep a
  deleted topic (`MetaSettled`).
* A second IDENTIFY never reaches the pump and may put a Writer on the bare
  connection (`SettingsAgree`, `Flushed` for at most one IDENTIFY).
* The `excuse` reasons of `Lookup`, above.
* The logger of a topic named on the command line that could not be created is
  not tried again (`AllFinished`). After the optimistic rename `Close()` leaves a
  closed file in `f.out`, and the next use ends the process: a restart recovers.
* The signal channels of nsq_to_file are unbuffered: a signal that comes while the
  discoverer does not listen is dropped, and no property needs one to arrive.

### Fairness

* `channel_live` assumes that a goroutine inside a handler goes on (weak fairness
  of the rest of each handler: they block on short mutexes only), and that the
  scanner shifts an entry when there is one again and again (strong fairness of the scan
  as a whole, not per entry: `queueScanLoop` visits channels at random for ever, and
  which entry is due is left open. A run has a bounded number of deliveries, so that
  the scan gets to every entry that stays). Nothing is assumed of clients, producers
  or of messages arriving.
* `diskqueue` assumes that ioLoop runs, that the process is restarted, and that
  somebody receives from ReadChan() again and again (strong fairness, since
  `select` may take other cases in between, and Go's `select` chooses among ready
  cases at random).
* `topic`: every goroutine inside a call or a loop goes on; nobody need call.
* `nsqd`: weak fairness of the goroutines' steps. The deletion of a topic's
  channels and the shutdown may hang (`topic_exit` shows how), so they are not
  fair.
* `lookup`: the calls on the database, the time-outs, the client side of every
  connection; strong fairness of the loop's tickers and notifications, which its
  select takes at random. The end of a connection need not be noticed, and a
  deleted topic need not leave the map.
* `client`: the pump goes round and finishes a delivery (weak), and takes the flush
  ticker and the heartbeat when they are ready again and again (strong). No command need
  come.
* `file_logger`: the process is restarted, its goroutines go on, and the select
  takes StopChan, the sync ticker and messages when they are ready again and again.

## Proofs

Every safety property that a passing run checks is also a theorem: the 28 invariants,
the action properties `EndedStays`, `PolicyFirst` and `OutputFinal`, and the refinement
of `Relay`. The theorems hold for every value of the constants that satisfies the named
assumptions; five of them have a hypothesis on the behaviour, given below.

### Assumptions

`GuidAssumption`, `ChannelAssumption`, `DiskQueueAssumption`, `TopicAssumption`,
`NSQDAssumption`, `LookupAssumption`, `FileLoggerAssumption` and, in `Client`,
`IdentifyAssumption`, `PolicyAssumption` and `BoundAssumption` say the sets the
constants are from. Beyond that they say only what the code or the encoding gives:

* names that the encoding uses are not data: `Nil`, a newline, the actors of
  `NSQD`, the key of a client in `Lookup`;
* a publishing call has at least one message, and each once (`Call`): `readMPUB`
  refuses a body without messages, a text body of empty lines publishes nothing,
  and a message has an ID of its own;
* the sets of messages of a channel, and of channels of `NSQD` and `Lookup`, are finite;
* a message fits the read buffer of the disk queue (`Size[m] <= BufSize`), whose
  cells are counted by the same bound. A message may be larger than a file.

### The arguments

* `GuidProofs`. The inductive invariant `IInv` adds to `TypeOK` that `lastID`
  bounds all ids issued, that they increase, and that each is a `Compose` with
  the factory's own node ID. `Increasing` follows from the first two; the
  uniqueness of the split into fields (`SplitUnique`, `ComposeNode`) turns the
  last into `CollisionFree`.
* `ChannelProofs` rests on two invariants. `Wf` is `TypeOK` with `Pointers`: a hand
  holds an object whenever its program counter says so, and an entry of a map is
  filed under its own ID. `Custody` says, until the channel exits, that `loc[m]`
  and the real state agree in both directions for every kind of place, and that
  no ID occurs twice in a queue; `PlacesCounted` turns it into the cardinalities of
  `OnePlace`. The lemmas `Move` and `Still` say once what it takes to move a
  message; each action is an instance. `EachInOnePlace` and `FinishedForGood` are
  its corollaries. On top of them:
  * `RdyRespected`: `RdyInv` adds that a pump that has decided to take a message
    (`Chosen`) is below the limit: only the pump itself counts up, once, before it
    decides again.
  * `CloseWritesAll`: `QuietInv` says what it means that no consumer is there,
    `CloseInv` that at each stage of `exit()` a message that has not ended is in the
    backend or in a place that is still to be flushed.
  * `OwnEntryRemoved` and `NeverStranded`, in every behaviour in which always
    `Resident`: the backend is empty and the channel is neither emptied nor exiting.
    `RefInv` says that then each ID has one object, `IndexInv` that the index of an
    object is right once it has been pushed. `channel_late_answer` shows that the
    first fails without the hypothesis.
  * `CountIsExact`, if no write fails (`~MayFail`) and `/channel/empty` does not
    run: `OwnerInv` says whose messages are whose; the finite-set lemmas count what
    one action adds to or takes from `Owned(c)`.
* `DiskQueueProofs`. `Layout(F, P)` says that message `m` of `q` is at position
  `P[m]` of file `F[m]`, that each message begins where the one before ends, from
  the read to the write position, and that its cells are there; `Buffered` that what
  the reader has buffered is what follows its position in the file. `F` and `P` are
  quantified in the invariant: `Put` extends them, no other step changes them. From
  `ReadsHead` (what `readOne` parses at the read position is the head of `q`)
  it follows that `handleReadError` and the tail corruption of
  `checkTailCorruption` do not happen. A half-written Put leaves cells after the write
  position, which `Layout` does not speak of; `Buffered` lets the reader hold them, and
  the next Put keeps the invariant unless it overwrites what the reader holds. All of
  this is until the first crash and until `mixed` (`UntilLost`): `DepthIsExact` and
  `NoFileLeftBehind` state that in the property, `FirstInFirstOut` and `AllDelivered`
  have `mixed` in the property and assume `[](crashes = 0)`. Failing and half-written
  Puts, failing fsyncs and metadata writes, Empty, Close, Delete and a new process are
  included.
* `TopicProofs`. Where a message is agrees with its `stage` (`PlaceInv`), what the
  calls under way have still to publish is new (`CallInv`), each message has the
  channels it is due in what is left of the fan-out or has reached them (`FanInv`),
  the pump lags behind only while somebody is about to tell it (`PumpInv`), what
  was acknowledged before `Close()` is not left in memory (`CloseInv`), and the
  count is that of the messages whose call has added it (`CountInv`).
* `NSQDProofs`. `LockInv` is the discipline of the lock. `MapInv` says that the
  topic being deleted stays in the map until its own deleter removes it. `PauseInv`
  ties what was answered to the file and to every snapshot that has got past the
  topic, `MetaInv` says that what the file or such a snapshot misses is about to be
  persisted. The attempt to prove `PauseSurvives` across a restart showed that
  `doubled` must not be forgotten while `acked` is kept; `Restart` says so now, and
  `MetaSettled` turned out to hold without excepting overlapping deletions.
* `LookupProofs`. `LinkInv` ties the loop's connection to nsqlookupd's, `GhostInv` says
  that what a closed connection left is what IOLoop has still to remove,
  `CommandInv` which calls a command may have left, in which order: that order is
  what keeps a channel's producer with its topic's (`TopicInv`).
* `ClientProofs`. `Types` for the program counters and the three Go channels, and that
  a client subscribes once. `CountType` bounds InFlightCount from both sides: with what
  the pump, IOLoop and the scan still owe it (`Sending`, `Answering`, `TimingOut`) it
  exceeds neither what was put, nor falls below the in-flight map by more than the
  last Empty found there. `Awake` is inductive with them. `Agree` says
  where the negotiated settings are at each moment: in the defaults, in the event
  or in the pump. `PoliciesComeFirst` is an action property: it follows from each
  step.
* `FileLoggerProofs`. A message in `output` is durable, or in the open file with its
  newline behind it (`KeptInv`); the open file has its name (`OpenInv`); a file is
  complete when it is moved, and no name taken in the output directory is opened
  again (`MovedInv`); messages and newlines alternate (`LineInv`). `Implements`
  maps each step to a step of `Relay` or to a stutter: storing is an fsync, or the
  link of a synced file, and a finish finds the message stored.

The inductive invariants of `Topic` (0.6 million states), `NSQD` (4.3 million), `Lookup`
(9.7 million) and `DiskQueue` (81 thousand, with `F` and `P` computed from the files,
before half-written Puts were added) were checked by TLC before they were proved, on
instances as in the runs.

### Only model-checked

* Liveness: `InFlightEnds`, `DeferredEnds`, `OwedDelivered`, `QueuedMoves`,
  `CreatedSettles`, `Converges`, `Flushed`, `AllFinished`. Fairness is out of the
  prover's reach.
* `InOrder` and `NothingOwed` of the disk queue after a crash. What is left to deliver is
  then a `SelectSeq` of what was synced: a recursive definition over a sequence,
  about which the prover cannot argue by induction.
* The two findings, which are counterexamples.

## Plan

1. `DiskQueue` after a crash: state what a crash leaves without `SelectSeq` (as the
   longest stretch of `saved` that the files hold), check with TLC that it is the
   same, and extend `Layout` to it.
2. `OwnEntryRemoved` and `NeverStranded` with a weaker hypothesis than `Resident`: what
   has to be excluded is a message that is decoded again while an answer to an
   earlier delivery can still come.
3. An abstract specification of the channel (a set of messages, each waiting, with a
   client, or ended) that `Channel` implements, with `Custody` as the step lemma.

## Not modelled

* The size of the scan pool and the choice of channels in `queueScanLoop`: they
  decide how soon a channel is scanned. (With QueueScanWorkerPoolMax 0 the pool
  has no worker, and nothing times out.)
* nsqadmin and internal/clusterinfo: every request gathers HTTP answers afresh.
* nsq_to_nsq, nsq_to_http, nsq_tail, nsq_stat, to_nsq: their state is that of the
  go-nsq library, which is not part of this repository.
* Statistics, quantiles and statsd: views of counters.
* TLS, snappy and deflate themselves, the formats of commands and metadata, option
  parsing, logging, HTTP decorators, the directory lock.
* The heap of `in_flight_pqueue.go` as an array: `Channel` uses a bag.
