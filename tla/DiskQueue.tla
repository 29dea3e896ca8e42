----------------------------- MODULE DiskQueue -----------------------------
(***************************************************************************)
(* The file-backed queue behind a topic's backend and memoryBackend        *)
(* (disk/diskqueue.go; channels use the go-diskqueue package it was taken  *)
(* from): one goroutine, ioLoop, that owns the files, the positions and    *)
(* the metadata file, a consumer of ReadChan(), producers calling Put(),   *)
(* Empty(), Close() and Delete(), and a process that may be killed, or a   *)
(* machine that may lose power, between any two steps.                     *)
(*                                                                         *)
(* A byte range is a sequence of cells; message m takes Size[m] of them,   *)
(* <<m, 1>> being the one with the length prefix.  Nothing on disk tells   *)
(* where a message begins: a reader in the wrong place reads garbage.      *)
(***************************************************************************)
EXTENDS Integers, Sequences, FiniteSets, FiniteSetsExt

CONSTANTS
    Msg,                \* messages; each is put at most once
    Size,               \* cells of a message, its length prefix included
    Nil, Garbage,
    MaxBytesPerFile, SyncEvery,
    BufSize,            \* cells bufio.Reader reads ahead
    MaxFile,            \* bound: the largest file number
    Environments,       \* what may happen, see env
    MaxCrashes          \* bound: crashes in a run

FileNum == 0 .. MaxFile
Cells(m) == [j \in 1 .. Size[m] |-> <<m, j>>]
Hole == <<Nil, 0>>
Cell == {<<m, j>> : m \in Msg, j \in 1 .. BufSize} \cup {Hole}

\* The fields of a diskQueue that say where it reads and writes.
Positions == [depth : Int, readFileNum : FileNum, readPos : 0 .. MaxBytesPerFile,
              writeFileNum : FileNum, writePos : 0 .. MaxBytesPerFile,
              nextReadFileNum : FileNum, nextReadPos : 0 .. MaxBytesPerFile,
              needSync : BOOLEAN]

ASSUME DiskQueueAssumption ==
    /\ Size \in [Msg -> Nat \ {0}]
    /\ \A m \in Msg : Size[m] <= BufSize
    /\ MaxBytesPerFile \in Nat \ {0} /\ SyncEvery \in Nat \ {0}
    /\ BufSize \in Nat \ {0} /\ MaxFile \in Nat /\ MaxCrashes \in Nat
    /\ Environments \subseteq [exits : SUBSET {"close", "delete"},
                               crashes : SUBSET {"kill", "power"},
                               fails : SUBSET {"write", "fsync", "persist"}]
    /\ Nil \notin Msg /\ Garbage \notin Msg \cup {Nil}
    /\ Nil \notin Seq(Cell) /\ Nil \notin Positions

VARIABLES
    env,            \* how it may be shut and crash, and what may fail
    pc,             \* of ioLoop; "down" once the process is gone
    d,              \* the diskQueue's positions, depth and needSync
    count,          \* operations since the last sync
    writeFile,      \* the number of the file open for writing, or Nil
    reader,         \* readFile and its bufio.Reader, or Nil
    dataRead,
    files,          \* the data files; Nil where there is none
    synced,         \* what of them a power failure cannot take
    metaData,       \* the metadata file, or Nil
    deleting,       \* the owner is between Empty() and Delete()
    crashes,
    q,              \* history: what is to be delivered, in order
    saved,          \* history: q when the metadata was persisted last
    put, owed, sent, \* history: put at all; acknowledged; delivered
    mixed           \* history: a Put wrote over bytes the reader had buffered

disk == <<files, synced, metaData>>
history == <<q, saved, put, owed, sent, mixed>>
vars == <<pc, d, count, writeFile, reader, dataRead, disk, deleting, crashes,
          history, env>>

Empty0 == [depth |-> 0, readFileNum |-> 0, readPos |-> 0, writeFileNum |-> 0,
           writePos |-> 0, nextReadFileNum |-> 0, nextReadPos |-> 0,
           needSync |-> FALSE]

Init ==
    /\ env \in Environments
    /\ pc = "loop"
    /\ d = Empty0
    /\ count = 0
    /\ writeFile = Nil
    /\ reader = Nil
    /\ dataRead = Nil
    /\ files = [n \in FileNum |-> Nil]
    /\ synced = [n \in FileNum |-> Nil]
    /\ metaData = Nil
    /\ deleting = FALSE
    /\ crashes = 0
    /\ q = << >>
    /\ saved = << >>
    /\ put = {} /\ owed = {} /\ sent = {}
    /\ mixed = FALSE

\* There is nothing to read.
AtTail(s) == ~(s.readFileNum < s.writeFileNum \/ s.readPos < s.writePos)

Remove(S) ==
    /\ files' = [n \in FileNum |-> IF n \in S THEN Nil ELSE files[n]]
    /\ synced' = [n \in FileNum |-> IF n \in S THEN Nil ELSE synced[n]]

-----------------------------------------------------------------------------
(* sync() with the positions s: fsync the file being written, then replace *)
(* the metadata file.                                                      *)

\* Mutant: the position after the message on offer is persisted.
Mut_persistMetaData(s, queue) ==
    /\ metaData' = [s EXCEPT !.needSync = FALSE,
                             !.readFileNum = s.nextReadFileNum,
                             !.readPos = s.nextReadPos]
    /\ saved' = queue

persistMetaData(s, queue) ==
    /\ metaData' = [s EXCEPT !.needSync = FALSE,
                             !.nextReadFileNum = s.readFileNum,
                             !.nextReadPos = s.readPos]
    /\ saved' = queue

\* Mutant: the data file is not fsynced.
Mut_Fsync(fs, w) == synced

Fsync(fs, w) == IF w = Nil THEN synced ELSE [synced EXCEPT ![w] = fs[w]]

\* The file being written is w, and the caller goes on with the file keep.
syncOK(s, fs, w, queue, keep) ==
    /\ synced' = Fsync(fs, w)
    /\ persistMetaData(s, queue)
    /\ d' = [s EXCEPT !.needSync = FALSE]
    /\ writeFile' = keep

\* fsync fails, and the file is closed; or the metadata cannot be written.
syncFails(s, fs, w, keep) ==
    /\ \/ /\ "fsync" \in env.fails /\ w # Nil
          /\ writeFile' = Nil
          /\ UNCHANGED synced
       \/ /\ "persist" \in env.fails
          /\ synced' = Fsync(fs, w)
          /\ writeFile' = keep
    /\ d' = s
    /\ UNCHANGED <<metaData, saved>>

-----------------------------------------------------------------------------
(* The top of ioLoop.                                                      *)

LoopTop ==
    /\ pc = "loop"
    /\ pc' = "read"
    /\ IF d.needSync \/ count = SyncEvery
         THEN /\ count' = 0
              /\ LET s == [d EXCEPT !.needSync = TRUE] IN
                    \/ syncOK(s, files, writeFile, q, writeFile)
                    \/ syncFails(s, files, writeFile, writeFile)
         ELSE UNCHANGED <<count, d, writeFile, synced, metaData, saved>>
    /\ UNCHANGED <<reader, dataRead, files, deleting, crashes, env, q, put, owed,
                   sent, mixed>>

\* bufio.Reader: when fewer than n cells are buffered it reads on, as much
\* as there is in the file up to BufSize.
Fill(r, n) ==
    LET f == files[d.readFileNum]
        to == Min({Len(f), r.off + BufSize})
    IN  IF Len(r.buf) >= n \/ to <= r.off THEN r
        ELSE [buf |-> r.buf \o SubSeq(f, r.off + 1, to), off |-> to]

Opened == IF reader = Nil THEN [buf |-> << >>, off |-> d.readPos] ELSE reader

\* The bytes at the reader's place: the message whose length prefix they
\* start with, garbage if they go on as something else; Nil for a file that
\* is missing or ends, and for a length out of range.
Parsed ==
    LET r == Fill(Opened, 1)
        m == r.buf[1][1]
        s == Fill(r, Size[m])
    IN  IF files[d.readFileNum] = Nil \/ r.buf = << >> THEN Nil
        ELSE IF r.buf[1][2] # 1 \/ Len(s.buf) < Size[m] THEN Nil
        ELSE IF SubSeq(s.buf, 1, Size[m]) = Cells(m) THEN m
        ELSE Garbage

\* The message that ends at p is the last one of its file.
ReadToEnd(p) == p > MaxBytesPerFile

\* readOne() succeeds.
readOne ==
    LET r == Fill(Opened, 1)
        n == Size[r.buf[1][1]]
        s == Fill(r, n)
        roll == ReadToEnd(d.readPos + n)
    IN  /\ Parsed # Nil
        /\ dataRead' = Parsed
        /\ d' = [d EXCEPT !.nextReadPos = IF roll THEN 0 ELSE d.readPos + n,
                          !.nextReadFileNum = d.readFileNum + (IF roll THEN 1 ELSE 0)]
        /\ reader' = IF roll THEN Nil
                     ELSE [s EXCEPT !.buf = SubSeq(@, n + 1, Len(@))]
        /\ pc' = "select"
        /\ UNCHANGED <<files, synced, writeFile>>

\* Mutant: the file is renamed, and reading stays where it is.
Mut_handleReadError ==
    /\ Parsed = Nil
    /\ Remove({d.readFileNum})
    /\ d' = [d EXCEPT !.needSync = TRUE]
    /\ reader' = Nil
    /\ pc' = "loop"
    /\ UNCHANGED <<dataRead, writeFile>>

\* handleReadError(): the file becomes a .bad file; reading, and if need be
\* writing, go on with the next one.
handleReadError ==
    /\ Parsed = Nil
    /\ LET same == d.readFileNum = d.writeFileNum
           next == d.readFileNum + 1
       IN  /\ d' = [d EXCEPT !.writeFileNum = IF same THEN @ + 1 ELSE @,
                             !.writePos = IF same THEN 0 ELSE @,
                             !.readFileNum = next, !.readPos = 0,
                             !.nextReadFileNum = next, !.nextReadPos = 0,
                             !.needSync = TRUE]
           /\ writeFile' = IF same THEN Nil ELSE writeFile
    /\ Remove({d.readFileNum})
    /\ reader' = Nil
    /\ pc' = "loop"
    /\ UNCHANGED dataRead

ReadAhead ==
    /\ pc = "read"
    /\ IF ~AtTail(d) /\ d.nextReadPos = d.readPos
         THEN readOne \/ handleReadError
         ELSE /\ pc' = "select"
              /\ UNCHANGED <<d, writeFile, reader, dataRead, files, synced>>
    /\ UNCHANGED <<count, metaData, deleting, crashes, env, history>>

-----------------------------------------------------------------------------
(* The select of ioLoop.                                                   *)

skipToNextRWFile(s) ==
    [s EXCEPT !.writeFileNum = @ + 1, !.writePos = 0,
              !.readFileNum = s.writeFileNum + 1, !.readPos = 0,
              !.nextReadFileNum = s.writeFileNum + 1, !.nextReadPos = 0,
              !.depth = 0]

\* checkTailCorruption: the second half, when the positions disagree.
Overrun(s) == AtTail(s) /\ (s.readFileNum # s.writeFileNum \/ s.readPos # s.writePos)

checkTailCorruption(s) ==
    IF Overrun(s) THEN [skipToNextRWFile(s) EXCEPT !.needSync = TRUE]
    ELSE IF AtTail(s) /\ s.depth # 0 THEN [s EXCEPT !.depth = 0, !.needSync = TRUE]
    ELSE s

\* Mutant: the depth is decremented only when a file is finished.
Mut_moveForward(s) ==
    [s EXCEPT !.readFileNum = s.nextReadFileNum,
              !.readPos = s.nextReadPos,
              !.depth = IF s.readFileNum # s.nextReadFileNum THEN @ - 1 ELSE @]

\* moveForward: the positions ...
moveForward(s) ==
    [s EXCEPT !.readFileNum = s.nextReadFileNum,
              !.readPos = s.nextReadPos,
              !.depth = @ - 1,
              !.needSync = @ \/ s.readFileNum # s.nextReadFileNum]

\* Mutant: the file that was read is not removed.
Mut_Finished(s) == {}

\* ... and the file that has been read to its end.
Finished(s) == IF s.readFileNum # s.nextReadFileNum THEN {s.readFileNum} ELSE {}

Deliver ==
    /\ pc = "select" /\ ~AtTail(d)
    /\ LET s == moveForward(d) IN
        /\ d' = checkTailCorruption(s)
        /\ Remove(Finished(d) \cup
                    (IF Overrun(s) THEN s.readFileNum .. s.writeFileNum ELSE {}))
        /\ reader' = IF Overrun(s) THEN Nil ELSE reader
        /\ writeFile' = IF Overrun(s) THEN Nil ELSE writeFile
    /\ count' = count + 1
    /\ sent' = sent \cup ({dataRead} \cap Msg)
    /\ q' = IF q # << >> /\ Head(q) = dataRead THEN Tail(q) ELSE q
    /\ pc' = "loop"
    /\ UNCHANGED <<dataRead, metaData, deleting, crashes, env, saved, put, owed,
                   mixed>>

deleteAllFiles ==
    /\ Remove(d.readFileNum .. d.writeFileNum)
    /\ d' = skipToNextRWFile(d)
    /\ metaData' = Nil
    /\ reader' = Nil /\ writeFile' = Nil
    /\ q' = << >> /\ saved' = << >> /\ owed' = {}

\* Empty(), on its own or as the first half of a deletion.
Empty(last) ==
    /\ pc = "select" /\ ~deleting
    /\ last => "delete" \in env.exits
    /\ d.writeFileNum <= MaxFile - 3
    /\ deleteAllFiles
    /\ count' = 0
    /\ deleting' = last
    /\ pc' = "loop"
    /\ UNCHANGED <<dataRead, crashes, env, put, sent, mixed>>

\* The cells cs written at position at of a file, which may end before it.
WriteAt(f, at, cs) ==
    LET old == IF f = Nil THEN << >> ELSE f
    IN  [i \in 1 .. Max({Len(old), at + Len(cs)}) |->
            IF i \in at + 1 .. at + Len(cs) THEN cs[i - at]
            ELSE IF i <= Len(old) THEN old[i] ELSE Hole]

\* The writer goes on to the next file.
Full(p) == p > MaxBytesPerFile

\* writeOne() cannot open the file, or gets only k cells into it (none: the
\* file exists from now on).  They stay there, past the write position.
WriteFails(m) ==
    /\ "write" \in env.fails
    /\ \/ UNCHANGED files
       \/ \E k \in 0 .. Size[m] - 1 :
            files' = [files EXCEPT ![d.writeFileNum] =
                        WriteAt(@, d.writePos, SubSeq(Cells(m), 1, k))]
    /\ writeFile' = Nil
    /\ UNCHANGED <<d, synced, metaData, q, saved, owed>>

\* writeOne() writes the message.  It starts a new file, after a sync, if this
\* one is full; an error of that sync is also the error of the Put.
WriteOK(m) ==
    LET n == d.writeFileNum
        p == d.writePos + Size[m]
        s == [d EXCEPT !.writePos = p, !.depth = @ + 1]
    IN  /\ files' = [files EXCEPT ![n] = WriteAt(@, d.writePos, Cells(m))]
        /\ q' = Append(q, m)
        /\ IF Full(p)
             THEN LET r == [s EXCEPT !.writeFileNum = n + 1, !.writePos = 0] IN
                  \/ /\ syncOK(r, files', n, q', Nil)
                     /\ owed' = owed \cup {m}
                  \/ /\ syncFails(r, files', n, Nil)
                     /\ UNCHANGED owed
             ELSE /\ d' = s
                  /\ writeFile' = n
                  /\ owed' = owed \cup {m}
                  /\ UNCHANGED <<synced, metaData, saved>>

\* The reader has buffered bytes from after the write position: what a failed
\* write, or a process that crashed, left in the file.
BufferedPastEnd ==
    reader # Nil /\ d.readFileNum = d.writeFileNum /\ reader.off > d.writePos

Put(m) ==
    /\ pc = "select" /\ ~deleting /\ m \notin put
    /\ d.writeFileNum <= MaxFile - 3
    /\ WriteOK(m) \/ WriteFails(m)
    /\ put' = put \cup {m}
    /\ mixed' = (mixed \/ (files' # files /\ BufferedPastEnd))
    /\ count' = count + 1
    /\ pc' = "loop"
    /\ UNCHANGED <<reader, dataRead, deleting, crashes, env, sent>>

Tick ==
    /\ pc = "select" /\ count # 0
    /\ d' = [d EXCEPT !.needSync = TRUE]
    /\ pc' = "loop"
    /\ UNCHANGED <<count, writeFile, reader, dataRead, disk, deleting, crashes, env,
                   history>>

-----------------------------------------------------------------------------
(* The end of the process, and the next one.                               *)

Gone ==
    /\ pc' = "down"
    /\ writeFile' = Nil /\ reader' = Nil
    /\ UNCHANGED <<d, count, dataRead, synced, put, sent, mixed>>

\* exit() has closed the files when Close() calls sync(): nothing is fsynced.
\* If the metadata cannot be written either, what is left is what a killed
\* process leaves.
Close ==
    /\ "close" \in env.exits
    /\ pc = "select" /\ ~deleting
    /\ persistMetaData(d, q)
    /\ Gone
    /\ UNCHANGED <<files, deleting, crashes, env, q, owed>>

\* The topic and the channel call Delete() after Empty().
Delete ==
    /\ pc = "select" /\ deleting
    /\ Gone
    /\ UNCHANGED <<files, metaData, deleting, crashes, env, q, saved, owed>>

OnDisk(fs, m) == \E n \in FileNum :
    fs[n] # Nil /\ \E i \in 1 .. Len(fs[n]) : fs[n][i][1] = m

\* A killed process leaves the files as they are; after a power failure any of
\* them may be back at what was fsynced.  The messages the metadata file knows
\* of are then owed, and those that still are in a file can be delivered: a
\* file that was read and removed since is not read again.
Crash(kind) ==
    /\ pc # "down" /\ crashes < MaxCrashes
    /\ crashes' = crashes + 1
    /\ \E S \in SUBSET {n \in FileNum : kind = "power" /\ synced[n] # files[n]} :
        LET fs == [n \in FileNum |-> IF n \in S THEN synced[n] ELSE files[n]]
        IN  /\ files' = fs
            /\ q' = SelectSeq(saved, LAMBDA m : OnDisk(fs, m))
    /\ Gone
    /\ owed' = {saved[i] : i \in 1 .. Len(saved)}
    /\ UNCHANGED <<metaData, deleting, saved, env>>

\* New(): retrieveMetaData
Restart ==
    /\ pc = "down"
    /\ pc' = "loop"
    /\ d' = IF metaData = Nil THEN Empty0 ELSE metaData
    /\ count' = 0
    /\ dataRead' = Nil
    /\ deleting' = FALSE
    /\ UNCHANGED <<writeFile, reader, disk, crashes, env, history>>

Next ==
    \/ LoopTop \/ ReadAhead
    \/ Deliver \/ Tick \/ \E last \in BOOLEAN : Empty(last)
    \/ \E m \in Msg : Put(m)
    \/ Close \/ Delete \/ Restart \/ \E kind \in env.crashes : Crash(kind)

Spec == Init /\ [][Next]_vars

\* ioLoop runs, the process is started again, and somebody reads ReadChan().
Fairness == WF_vars(LoopTop) /\ WF_vars(ReadAhead) /\ WF_vars(Restart)
               /\ SF_vars(Deliver)
LiveSpec == Spec /\ Fairness

-----------------------------------------------------------------------------
(* Properties.                                                             *)

TypeOK ==
    /\ pc \in {"loop", "read", "select", "down"}
    /\ d \in Positions
    /\ count \in Nat
    /\ writeFile \in {d.writeFileNum, Nil}
    /\ dataRead \in Msg \cup {Nil, Garbage}
    /\ reader # Nil => reader.buf \in Seq(Cell)
    /\ \A n \in FileNum : files[n] # Nil => files[n] \in Seq(Cell)
    /\ metaData \in Positions \cup {Nil}
    /\ deleting \in BOOLEAN
    /\ crashes \in 0 .. MaxCrashes
    /\ mixed \in BOOLEAN

(* A Put overwrites what a failed write or a crash left after the write    *)
(* position, and no harm is done, unless the reader has buffered it: then  *)
(* it reads the old bytes and loses its place, and may pass the write      *)
(* position.  The properties are about runs in which this has not happened *)
(* yet.                                                                    *)

\* The queue is first in, first out: the message ioLoop offers on readChan is
\* the oldest one that was written and not delivered.
InOrder ==
    pc = "select" /\ ~AtTail(d) /\ ~mixed => q # << >> /\ dataRead = Head(q)

\* A queue that has nothing to offer owes nothing: every message whose Put()
\* was acknowledged, or after a crash every message the last sync covered,
\* has been delivered.
NothingOwed == pc = "select" /\ AtTail(d) /\ ~mixed => owed \subseteq sent

\* Depth() is the number of messages still to be delivered.  After a crash it may
\* be off until the reader has caught up with the writer.
DepthExact == pc = "select" /\ crashes = 0 /\ ~mixed => d.depth = Len(q)

\* No data file is left behind: a file outside the range between the read
\* and the write position would never be read or removed.  (A crash may leave one.)
NoStrayFiles ==
    pc = "select" /\ crashes = 0 /\ ~mixed =>
        \A n \in FileNum : files[n] # Nil => n \in d.readFileNum .. d.writeFileNum

\* Everything that is owed is delivered if somebody reads, whatever else is
\* put, synced, failed, left half-written or restarted meanwhile.
OwedDelivered ==
    \A m \in Msg : (m \in owed) ~> (m \in sent \/ m \notin owed \/ mixed)
=============================================================================
