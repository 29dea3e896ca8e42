----------------------------- MODULE FileLogger -----------------------------
(***************************************************************************)
(* nsq_to_file (apps/nsq_to_file/file_logger.go, topic_discoverer.go): the *)
(* router of one topic writes messages to a file, rotates, syncs, and only *)
(* then finishes them; the discoverer creates the router and passes        *)
(* signals on.  The process may die at any step and is started again, and  *)
(* the power may fail, which loses what has not been fsynced.              *)
(*                                                                         *)
(* A file is a sequence of messages and newlines.  A name is a datetime    *)
(* and a revision; a directory maps names to files.  nsqd and the consumer *)
(* library are external: messages in `queue` are delivered, `flight` holds *)
(* those nsqd waits an answer for, and a message may time out.             *)
(***************************************************************************)
EXTENDS Integers, Sequences, SequencesExt, FiniteSets, FiniteSetsExt

CONSTANTS
    Msg,
    Configs,        \* the options: gzip, workdir, interval, skip, size, topics
    MaxInFlight,    \* the capacity of `output`
    MaxDate, MaxRev,        \* bounds: datetimes, revisions
    MaxEach, MaxEvents      \* bounds: events of a kind, and of all kinds

NL == "newline"

ASSUME FileLoggerAssumption ==
    /\ NL \notin Msg
    /\ Configs \subseteq [gzip : BOOLEAN, workdir : BOOLEAN, interval : BOOLEAN,
                          skip : BOOLEAN, size : Nat, topics : BOOLEAN]
    /\ MaxInFlight \in Nat \ {0}
    /\ MaxDate \in Nat /\ MaxRev \in Nat /\ MaxEach \in Nat /\ MaxEvents \in Nat

Name == (0..MaxDate) \X (0..MaxRev)
Kind == {"rotate", "hup", "term", "timeout", "crash", "fail", "other", "clock"}

VARIABLES
    cfg,        \* the options of the command line
    date,       \* the clock, as far as the datetime format shows it
    file,       \* the files: data, and how much of it is durable
    work, output,       \* the directories: name -> file, 0 if there is none
    queue, flight, finished,            \* messages, at nsqd
    consumer,   \* "running", "stopping", "stopped" (StopChan is closed)
    logChan,    \* the message in it, if any
    disc,       \* TopicDiscoverer.run: "loop", "hup" (sending), "term", "down"
    logger,     \* "none", "on", "lost": could not be created, not tried again
    f,          \* FileLogger: out, id, date and rev of the name, size, gz
    r,          \* router: pc, msg, sync, closeFile, exit, then
    pending,    \* the messages in router's `output`
    used        \* history: the events so far, for the bounds

nsqd == <<queue, flight, finished>>
dirs == <<work, output>>
process == <<consumer, logChan, disc, logger, f, r, pending>>
vars == <<cfg, date, file, dirs, nsqd, process, used>>

NoFile == [out |-> "nil", id |-> 0, date |-> -1, rev |-> 0, size |-> 0, gz |-> << >>]
NewRouter == [pc |-> "select", msg |-> NL, sync |-> FALSE, closeFile |-> FALSE,
              exit |-> FALSE, then |-> "select"]

Init ==
    /\ cfg \in Configs
    /\ date = 0
    /\ file = << >>
    /\ work = [n \in Name |-> 0] /\ output = [n \in Name |-> 0]
    /\ queue = Msg /\ flight = {} /\ finished = {}
    /\ consumer = "running" /\ logChan = << >>
    /\ disc = "loop" /\ logger = "none"
    /\ f = NoFile /\ r = NewRouter /\ pending = << >>
    /\ used = [k \in Kind |-> 0]

May(k) == used[k] < MaxEach /\ FoldFunction(+, 0, used) < MaxEvents
Use(k) == May(k) /\ used' = [used EXCEPT ![k] = @ + 1]

-----------------------------------------------------------------------------
(* The environment: the clock, nsqd and the consumer library, another      *)
(* process that writes to the output directory.                             *)

Clock ==
    /\ date < MaxDate /\ Use("clock")
    /\ date' = date + 1
    /\ UNCHANGED <<cfg, file, dirs, nsqd, process>>

\* A message is delivered, and HandleMessage hands it to the router.
HandleMessage(m) ==
    /\ logger = "on" /\ consumer # "stopped" /\ m \in queue
    /\ logChan = << >>
    /\ queue' = queue \ {m} /\ flight' = flight \cup {m}
    /\ logChan' = <<m>>
    /\ UNCHANGED <<cfg, date, file, dirs, finished, consumer, disc, logger, f, r, pending, used>>

TimedOut(m) ==
    /\ m \in flight /\ Use("timeout")
    /\ flight' = flight \ {m} /\ queue' = queue \cup {m}
    /\ UNCHANGED <<cfg, date, file, dirs, finished, process>>

StopConsumer ==
    /\ consumer = "stopping"
    /\ consumer' = "stopped"
    /\ UNCHANGED <<cfg, date, file, dirs, nsqd, logChan, disc, logger, f, r, pending, used>>

OtherFile(n) ==
    /\ cfg.workdir /\ n[2] = 0 /\ output[n] = 0 /\ Use("other")
    /\ file' = Append(file, [data |-> << >>, synced |-> 0])
    /\ output' = [output EXCEPT ![n] = Len(file) + 1]
    /\ UNCHANGED <<cfg, date, work, nsqd, process>>

-----------------------------------------------------------------------------
(* The process as a whole.                                                  *)

\* It is gone: nsqd takes back what was in flight.
Gone ==
    /\ queue' = queue \cup flight /\ flight' = {}
    /\ disc' = "down" /\ logger' = "none" /\ consumer' = "running" /\ logChan' = << >>
    /\ f' = NoFile /\ r' = NewRouter /\ pending' = << >>
    /\ UNCHANGED <<cfg, date, finished>>

\* os.Exit(1), when an operation fails; or killed.
Crash ==
    /\ disc # "down" /\ Use("crash")
    /\ Gone
    /\ UNCHANGED <<file, dirs>>

\* The tail of what was not fsynced is lost: k entries of it.
PowerFail(k) ==
    /\ disc # "down" /\ Use("crash")
    /\ Gone
    /\ file' = [i \in DOMAIN file |->
                  [file[i] EXCEPT !.data = SubSeq(@, 1, Max({file[i].synced, Len(@) - k}))]]
    /\ UNCHANGED dirs

Restart ==
    /\ disc = "down"
    /\ disc' = "loop"
    /\ UNCHANGED <<cfg, date, file, dirs, nsqd, consumer, logChan, logger, f, r, pending, used>>

\* updateTopics: at the start for the topics of the command line, on a ticker for
\* those of nsqlookupd; only the latter is tried again.
UpdateTopics ==
    /\ disc = "loop" /\ logger = "none"
    /\ \/ logger' = "on" /\ UNCHANGED used
       \/ /\ Use("fail")
          /\ logger' = IF cfg.topics THEN "lost" ELSE "none"
    /\ UNCHANGED <<cfg, date, file, dirs, nsqd, consumer, logChan, disc, f, r, pending>>

\* A signal that comes while the discoverer does not listen is lost.
Signal ==
    /\ disc = "loop"
    /\ \/ /\ logger = "on" /\ Use("hup")
          /\ disc' = "hup"
       \/ /\ Use("term")
          /\ disc' = "term"
    /\ UNCHANGED <<cfg, date, file, dirs, nsqd, consumer, logChan, logger, f, r, pending>>

\* wg.Wait is over and main returns.
Ended ==
    /\ disc = "term" /\ (logger # "on" \/ r.pc = "exited")
    /\ Gone
    /\ UNCHANGED <<file, dirs, used>>

-----------------------------------------------------------------------------
(* FileLogger.                                                              *)

\* computeFilenameFormat takes <REV> out of names that need none.
NameOf(d, v) == <<d, IF cfg.gzip \/ cfg.size > 0 \/ cfg.interval \/ cfg.workdir THEN v ELSE 0>>
Exclusive == cfg.gzip \/ cfg.interval       \* O_EXCL, otherwise O_APPEND

needsRotation(due) ==
    \/ f.out = "nil"
    \/ f.date # date
    \/ cfg.interval /\ due
    \/ cfg.size > 0 /\ f.size > cfg.size

\* time.Since(f.openTime) > RotateInterval: may be found at any time.
Rotates(due) == due => cfg.interval /\ f.out # "nil" /\ May("rotate")
Rotated(due) == IF due THEN Use("rotate") ELSE UNCHANGED used

\* A plausible bug, for mutation: the output directory is not looked at.
Mut_NotMoved(n) == TRUE

\* os.Stat: the name is not taken in the output directory.
NotMoved(n) == cfg.workdir => output[n] = 0

\* A plausible bug, for mutation: O_EXCL is forgotten.
Mut_IsNew(n) == TRUE

\* os.OpenFile: nor in the working directory, if the file has to be new.
IsNew(n) == Exclusive => work[n] = 0

\* A name updateFile accepts; the file is not too large already, either.
Good(n) ==
    /\ NotMoved(n) /\ IsNew(n)
    /\ cfg.size > 0 /\ work[n] # 0 => Len(file[work[n]].data) <= cfg.size

\* The entries that f.gzipWriter holds back go to the file, and then f.out.Sync().
Fsynced == [file EXCEPT ![f.id] = [data |-> @.data \o f.gz, synced |-> Len(@.data \o f.gz)]]

Die == Gone /\ UNCHANGED <<file, dirs, used>>

\* Close, the first part: fsync and close.  f.out may be a closed file, after a
\* Close that left it there: that is fatal.
CloseFile ==
    /\ r.pc = "close"
    /\ IF f.out = "stale" THEN Die
       ELSE /\ IF f.out = "nil"
               THEN r' = [r EXCEPT !.pc = r.then] /\ UNCHANGED <<file, f>>
               ELSE /\ file' = Fsynced
                    /\ f' = [f EXCEPT !.gz = << >>, !.out = IF cfg.workdir THEN @ ELSE "nil"]
                    /\ r' = [r EXCEPT !.pc = IF cfg.workdir THEN "link" ELSE r.then]
            /\ UNCHANGED <<cfg, date, dirs, nsqd, consumer, logChan, disc, logger, pending, used>>

\* exclusiveRename: a link under the same name or, when that is taken, under the
\* next revision that is free; then the old name goes.
Link ==
    /\ r.pc = "link"
    /\ \E v \in f.rev..MaxRev :
          /\ output[NameOf(f.date, v)] = 0
          /\ \A u \in f.rev..(v - 1) : output[NameOf(f.date, u)] # 0
          /\ output' = [output EXCEPT ![NameOf(f.date, v)] = f.id]
          /\ r' = [r EXCEPT !.pc = IF v = f.rev THEN "remove" ELSE "bumped"]
    /\ UNCHANGED <<cfg, date, file, work, nsqd, consumer, logChan, disc, logger, f, pending, used>>

\* The optimistic rename returns and leaves f.out as it is.
Unlink ==
    /\ r.pc \in {"remove", "bumped"}
    /\ work' = [work EXCEPT ![NameOf(f.date, f.rev)] = 0]
    /\ f' = [f EXCEPT !.out = IF r.pc = "remove" THEN "stale" ELSE "nil"]
    /\ r' = [r EXCEPT !.pc = r.then]
    /\ UNCHANGED <<cfg, date, file, output, nsqd, consumer, logChan, disc, logger, pending, used>>

\* updateFile, after Close: the first name that is good.
OpenFile ==
    /\ r.pc = "open"
    /\ \E v \in (IF f.date = date THEN f.rev + 1 ELSE 0)..MaxRev :
          LET n == NameOf(date, v)
          IN /\ Good(n)
             /\ \A u \in (IF f.date = date THEN f.rev + 1 ELSE 0)..(v - 1) : ~Good(NameOf(date, u))
             /\ IF work[n] = 0
                THEN /\ file' = Append(file, [data |-> << >>, synced |-> 0])
                     /\ work' = [work EXCEPT ![n] = Len(file) + 1]
                ELSE UNCHANGED <<file, work>>
             /\ f' = [out |-> "open", id |-> work'[n], date |-> date, rev |-> v,
                      size |-> Len(file'[work'[n]].data), gz |-> << >>]
    /\ r' = [r EXCEPT !.pc = IF r.msg = NL THEN "sync" ELSE "body"]
    /\ UNCHANGED <<cfg, date, output, nsqd, consumer, logChan, disc, logger, pending, used>>

\* Write: into the file or into the compressor.
Write(x) ==
    /\ IF cfg.gzip
       THEN f' = [f EXCEPT !.gz = Append(@, x), !.size = @ + 1] /\ UNCHANGED file
       ELSE /\ file' = [file EXCEPT ![f.id].data = Append(@, x)]
            /\ f' = [f EXCEPT !.size = @ + 1]

WriteBody ==
    /\ r.pc = "body"
    /\ IF f.out = "stale" THEN Die          \* a closed file
       ELSE /\ Write(r.msg)
            /\ r' = [r EXCEPT !.pc = "newline"]
            /\ UNCHANGED <<cfg, date, dirs, nsqd, consumer, logChan, disc, logger, pending, used>>

\* A plausible bug, for mutation: the buffer of messages is synced one too late.
Mut_FullAt == MaxInFlight + 1

\* cap(output)
FullAt == MaxInFlight

WriteNewline ==
    /\ r.pc = "newline"
    /\ Write(NL)
    /\ pending' = Append(pending, r.msg)
    /\ r' = [r EXCEPT !.pc = "sync", !.msg = NL, !.sync = @ \/ Len(pending') = FullAt]
    /\ UNCHANGED <<cfg, date, dirs, nsqd, consumer, logChan, disc, logger, used>>

-----------------------------------------------------------------------------
(* router.                                                                  *)

Selecting == logger = "on" /\ r.pc = "select"

Stopped ==
    /\ Selecting /\ consumer = "stopped"
    /\ r' = [r EXCEPT !.pc = "sync", !.sync = TRUE, !.closeFile = TRUE, !.exit = TRUE]
    /\ UNCHANGED <<cfg, date, file, dirs, nsqd, consumer, logChan, disc, logger, f, pending, used>>

\* termChan is closed: this case is ready from then on.
Term ==
    /\ Selecting /\ disc = "term"
    /\ consumer' = IF consumer = "running" THEN "stopping" ELSE consumer
    /\ r' = [r EXCEPT !.pc = "sync", !.sync = TRUE]
    /\ UNCHANGED <<cfg, date, file, dirs, nsqd, logChan, disc, logger, f, pending, used>>

Hup ==
    /\ Selecting /\ disc = "hup"
    /\ disc' = "loop"
    /\ r' = [r EXCEPT !.pc = "sync", !.sync = TRUE, !.closeFile = TRUE]
    /\ UNCHANGED <<cfg, date, file, dirs, nsqd, consumer, logChan, logger, f, pending, used>>

\* A plausible bug, for mutation: a tick that rotates nothing syncs nothing.
Mut_Ticked(rotate) ==
    [r EXCEPT !.pc = IF rotate /\ ~cfg.skip THEN "close" ELSE "sync",
              !.then = IF rotate /\ ~cfg.skip THEN "open" ELSE @,
              !.closeFile = rotate /\ cfg.skip, !.sync = rotate]

\* A file that is to be rotated is closed, or closed and replaced; then there is a sync.
Ticked(rotate) ==
    [r EXCEPT !.pc = IF rotate /\ ~cfg.skip THEN "close" ELSE "sync",
              !.then = IF rotate /\ ~cfg.skip THEN "open" ELSE @,
              !.closeFile = rotate /\ cfg.skip, !.sync = TRUE]

Tick(due) ==
    /\ Selecting /\ consumer = "running" /\ Rotates(due)
    /\ Rotated(due)
    /\ r' = Ticked(needsRotation(due))
    /\ UNCHANGED <<cfg, date, file, dirs, nsqd, consumer, logChan, disc, logger, f, pending>>

Receive(due) ==
    /\ Selecting /\ logChan # << >> /\ Rotates(due)
    /\ Rotated(due)
    /\ logChan' = << >>
    /\ LET rotate == needsRotation(due)
       IN r' = [r EXCEPT !.msg = Head(logChan),
                         !.pc = IF rotate THEN "close" ELSE "body",
                         !.then = IF rotate THEN "open" ELSE @,
                         !.sync = @ \/ rotate]
    /\ UNCHANGED <<cfg, date, file, dirs, nsqd, consumer, disc, logger, f, pending>>

\* After the sync: the file is closed, router returns, or goes round.
Onward(q) ==
    [q EXCEPT !.closeFile = FALSE,
              !.then = IF q.exit THEN "exited" ELSE "select",
              !.pc = IF q.closeFile THEN "close" ELSE IF q.exit THEN "exited" ELSE "select"]

\* A plausible bug, for mutation: the compressor is not drained.
Mut_Synced == [file EXCEPT ![f.id].synced = Len(file[f.id].data)]

\* Sync()
Synced == Fsynced

\* The consumer may be starved at any time; nothing is synced when nothing is pending.
SyncStep ==
    /\ r.pc = "sync"
    /\ \E starved \in BOOLEAN :
          IF (r.sync \/ starved) /\ pending # << >>
          THEN /\ file' = Synced
               /\ f' = [f EXCEPT !.gz = << >>]
               /\ r' = [r EXCEPT !.pc = "finish", !.sync = FALSE]
          ELSE /\ r' = Onward([r EXCEPT !.sync = @ /\ ~(r.sync \/ starved)])
               /\ UNCHANGED <<file, f>>
    /\ UNCHANGED <<cfg, date, dirs, nsqd, consumer, logChan, disc, logger, pending, used>>

\* m.Finish(), from the last to the first; nsqd only knows those in flight.
Finish ==
    /\ r.pc = "finish"
    /\ LET m == Last(pending)
       IN IF m \in flight
          THEN flight' = flight \ {m} /\ finished' = finished \cup {m}
          ELSE UNCHANGED <<flight, finished>>
    /\ pending' = Front(pending)
    /\ r' = IF pending' = << >> THEN Onward(r) ELSE r
    /\ UNCHANGED <<cfg, date, file, dirs, queue, consumer, logChan, disc, logger, f, used>>

-----------------------------------------------------------------------------
Router ==
    \/ Stopped \/ Term \/ Hup
    \/ \E due \in BOOLEAN : Tick(due) \/ Receive(due)
    \/ CloseFile \/ Link \/ Unlink \/ OpenFile \/ WriteBody \/ WriteNewline
    \/ SyncStep \/ Finish

Next ==
    \/ Clock \/ StopConsumer \/ Crash \/ Restart \/ UpdateTopics \/ Signal \/ Ended
    \/ \E m \in Msg : HandleMessage(m) \/ TimedOut(m)
    \/ \E n \in Name : OtherFile(n)
    \/ \E k \in 1..(2 * MaxInFlight) : PowerFail(k)
    \/ Router

Spec == Init /\ [][Next]_vars

\* The process runs on, is started again, ticks; nsqd delivers; the consumer stops
\* when told to.  Go's select takes every case that is ready again and again.
FairSpec ==
    /\ Spec
    /\ WF_vars(Restart) /\ WF_vars(UpdateTopics) /\ WF_vars(Ended) /\ WF_vars(StopConsumer)
    /\ WF_vars(CloseFile \/ Link \/ Unlink \/ OpenFile \/ WriteBody \/ WriteNewline
               \/ SyncStep \/ Finish)
    /\ WF_vars(\E m \in Msg : HandleMessage(m))
    /\ SF_vars(Stopped) /\ SF_vars(Tick(FALSE)) /\ SF_vars(Receive(FALSE))

-----------------------------------------------------------------------------
\* Types; router's `output` is never written past its end, although messages may
\* time out and come again while they are in it.
TypeOK ==
    /\ f.out \in {"nil", "open", "stale"} /\ f.id \in 0..Len(file)
    /\ \A i \in DOMAIN file : file[i].synced \in 0..Len(file[i].data)
    /\ \A n \in Name : {work[n], output[n]} \subseteq 0..Len(file)
    /\ Len(pending) \in 0..MaxInFlight
    /\ r.pc \in {"newline", "finish"} => f.out = "open"
    /\ pending # << >> /\ r.pc \in {"select", "sync"} => f.out = "open"

\* What is on disk for good: within the fsynced part of a file that has a name.
Named(i) == \E n \in Name : work[n] = i \/ output[n] = i
Durable == {m \in Msg : \E i \in DOMAIN file :
              Named(i) /\ m \in Range(SubSeq(file[i].data, 1, file[i].synced))}

\* nsq_to_file keeps the promise of a relay: a message is finished only when it has
\* been fsynced, and neither rotation, rename, a crash nor a power failure takes
\* away what was.
R == INSTANCE Relay WITH stored <- Durable, finished <- finished
ImplementsRelay == R!Spec

\* "taking care not to overwrite existing files": a file of the output directory is
\* complete when it appears, and neither replaced nor written to again, also when
\* the process dies between the link and the removal and starts afresh.
OutputFinal ==
    [][\A n \in Name : output[n] # 0 =>
          output'[n] = output[n] /\ file'[output[n]] = file[output[n]]]_<<output, file>>

\* A finished message is a line of its own in a file: always if files are opened
\* exclusively, and otherwise as long as no process died; one that dies between the
\* message and its newline leaves the next message on the same line.
OwnLine ==
    Exclusive \/ used["crash"] = 0 =>
        \A m \in finished : \E i \in DOMAIN file : \E k \in 1..(file[i].synced - 1) :
            LET d == file[i].data
            IN d[k] = m /\ d[k + 1] = NL /\ (k > 1 => d[k - 1] = NL)

\* Every message is finished in the end, although the process dies a few times and
\* messages time out: unless the logger of a topic named on the command line could
\* not be created, which is not tried again.
AllFinished == <>(finished = Msg \/ logger = "lost")
=============================================================================
