-------------------------- MODULE FileLoggerProofs --------------------------
(***************************************************************************)
(* FileLogger for every set of messages, every configuration and bound: it *)
(* implements Relay, the files of the output directory are final, and a    *)
(* finished message is a line of its own.                                  *)
(***************************************************************************)
EXTENDS FileLogger, SequenceTheorems, TLAPS

USE DEF nsqd, dirs, process

Entry == Msg \cup {NL}
File == [data : Seq(Entry), synced : Nat]

\* The steps of Close: the file is closed, linked, unlinked.
Closing == {"close", "link", "remove", "bumped"}
PC == {"select", "body", "newline", "sync", "finish", "open", "exited"} \cup Closing

FileType ==
    /\ file \in Seq(File)
    /\ \A i \in 1..Len(file) : file[i].synced <= Len(file[i].data)

DirType ==
    /\ work \in [Name -> 0..Len(file)]
    /\ output \in [Name -> 0..Len(file)]

FType == f \in [out : {"nil", "open", "stale"}, id : 0..Len(file), date : -1..MaxDate,
                rev : 0..MaxRev, size : Nat, gz : Seq(Entry)]

RType ==
    /\ r \in [pc : PC, msg : Entry, sync : BOOLEAN, closeFile : BOOLEAN, exit : BOOLEAN,
              then : {"select", "open", "exited"}]
    /\ r.pc \in {"body", "newline"} => r.msg \in Msg

QType == pending \in Seq(Msg) /\ logChan \in Seq(Msg)

EnvType ==
    /\ cfg \in Configs
    /\ date \in 0..MaxDate
    /\ used \in [Kind -> Nat]

Types == FileType /\ DirType /\ FType /\ RType /\ QType /\ EnvType

\* What router relies on.  A full `output` is synced at once; a file is closed behind
\* the finished messages, except by the rotation that opens another.
RouterInv ==
    /\ r.pc = "finish" => pending # << >>
    /\ Len(pending) <= MaxInFlight
    /\ r.pc \notin {"sync", "finish"} => Len(pending) < MaxInFlight
    /\ r.pc = "sync" /\ Len(pending) = MaxInFlight => r.sync
    /\ r.pc = "sync" /\ r.closeFile => r.sync
    /\ r.closeFile => r.pc \in {"sync", "finish"}
    /\ r.pc \in Closing /\ r.then # "open" => pending = << >>
    /\ logger # "on" => r.pc = "select"

\* The open file has its name in the working directory until Close removes it, and
\* nothing is written to a file that is not open.
OpenInv ==
    /\ f.out = "open" => /\ f.id > 0 /\ f.date >= 0
                         /\ work[NameOf(f.date, f.rev)] = f.id
    /\ r.pc \in {"newline", "finish", "link", "remove", "bumped"} => f.out = "open"
    /\ r.pc = "body" => f.out # "nil"
    /\ r.pc = "open" => f.out # "open"
    /\ pending # << >> /\ r.pc \in {"select", "sync"} => f.out = "open"
    /\ ~cfg.gzip \/ f.out # "open" => f.gz = << >>
    /\ r.pc \in {"link", "remove", "bumped"} =>
          /\ cfg.workdir /\ f.gz = << >>
          /\ file[f.id].synced = Len(file[f.id].data)
    /\ r.pc \in {"remove", "bumped"} => \E n \in Name : output[n] = f.id

\* What has been written to the open file, the compressor included.
Written == file[f.id].data \o f.gz

\* A message is a line of the fsynced part of a file that has a name.
Saved(m) ==
    \E i \in 1..Len(file) : Named(i) /\ \E k \in 1..(file[i].synced - 1) : file[i].data[k] = m

\* A message in `output` is on disk for good, or in the open file with its newline
\* behind it; when it comes to Finish, and afterwards, it is on disk.
KeptInv ==
    /\ r.pc = "newline" => Written # << >> /\ Written[Len(Written)] = r.msg
    /\ \A j \in 1..Len(pending) :
          \/ Saved(pending[j])
          \/ f.out = "open" /\ \E k \in 1..(Len(Written) - 1) : Written[k] = pending[j]
    /\ r.pc = "finish" => \A j \in 1..Len(pending) : Saved(pending[j])
    /\ \A m \in finished : Saved(m)

\* A file is moved when it is complete, and a name that is taken in the output
\* directory is never opened: also when the file still has a name in the working
\* directory, because a process died before it removed that.
MovedInv ==
    /\ ~cfg.workdir => \A n \in Name : output[n] = 0
    /\ \A n, q \in Name : work[n] = work[q] /\ work[n] # 0 => n = q
    /\ \A n, q \in Name : work[n] # 0 /\ output[q] = work[n] => output[n] # 0
    /\ \A n \in Name : output[n] # 0 => file[output[n]].synced = Len(file[output[n]].data)
    /\ f.out = "open" /\ r.pc \notin {"remove", "bumped"} => \A n \in Name : output[n] # f.id

\* No two messages follow each other in a file; a file that may be appended to ends
\* with a newline.
Alternates(d) == \A k \in 1..(Len(d) - 1) : d[k] = NL \/ d[k + 1] = NL
Ends(d) == d = << >> \/ d[Len(d)] = NL
NoCrash == used["crash"] = 0

LineInv ==
    /\ Exclusive \/ NoCrash =>
          /\ \A i \in 1..Len(file) : Alternates(file[i].data)
          /\ f.out = "open" => /\ Alternates(Written)
                               /\ r.pc # "newline" => Ends(Written)
    /\ ~Exclusive /\ NoCrash =>
          \A n \in Name : work[n] # 0 /\ ~(r.pc = "newline" /\ f.id = work[n])
                             => Ends(file[work[n]].data)

-----------------------------------------------------------------------------
(* Files and sequences.                                                     *)

Empty == [data |-> << >>, synced |-> 0]

LEMMA Bounds ==
    /\ NL \notin Msg
    /\ MaxInFlight \in Nat /\ MaxInFlight > 0 /\ MaxDate \in Nat /\ MaxRev \in Nat
BY FileLoggerAssumption

LEMMA MaxOfTwo ==
    ASSUME NEW a \in Int, NEW b \in Int
    PROVE  Max({a, b}) = IF a >= b THEN a ELSE b
<1>1. \E x \in {a, b} : \A y \in {a, b} : x >= y
  BY DEF Max
<1>2. Max({a, b}) \in {a, b} /\ \A y \in {a, b} : Max({a, b}) >= y
  BY <1>1 DEF Max
<1> QED  BY <1>2

LEMMA Concat ==
    ASSUME NEW S, NEW a \in Seq(S), NEW b \in Seq(S)
    PROVE  /\ a \o b \in Seq(S) /\ Len(a \o b) = Len(a) + Len(b)
           /\ \A k \in 1..Len(a) : (a \o b)[k] = a[k]
           /\ \A k \in 1..Len(b) : (a \o b)[Len(a) + k] = b[k]
OBVIOUS

LEMMA ConcatEmpty ==
    ASSUME NEW S, NEW a \in Seq(S)
    PROVE  a \o << >> = a
OBVIOUS

LEMMA Prefix ==
    ASSUME NEW S, NEW s \in Seq(S), NEW n \in 0..Len(s)
    PROVE  /\ SubSeq(s, 1, n) \in Seq(S) /\ Len(SubSeq(s, 1, n)) = n
           /\ \A k \in 1..n : SubSeq(s, 1, n)[k] = s[k]
OBVIOUS

LEMMA ConcatAppend ==
    ASSUME NEW S, NEW a \in Seq(S), NEW b \in Seq(S), NEW x \in S
    PROVE  a \o Append(b, x) = Append(a \o b, x)
<1>1. a \o Append(b, x) \in Seq(S) /\ Append(a \o b, x) \in Seq(S)
  OBVIOUS
<1>2. Len(a \o Append(b, x)) = Len(Append(a \o b, x))
  OBVIOUS
<1>3. \A k \in 1..Len(a \o Append(b, x)) : (a \o Append(b, x))[k] = Append(a \o b, x)[k]
  OBVIOUS
<1> QED  BY <1>1, <1>2, <1>3, SeqEqual

LEMMA FilesFacts ==
    ASSUME NEW s \in Seq(File), \A i \in 1..Len(s) : s[i].synced <= Len(s[i].data)
    PROVE  /\ DOMAIN s = 1..Len(s) /\ Len(s) \in Nat
           /\ \A i \in 1..Len(s) :
                 /\ s[i] \in File /\ s[i].data \in Seq(Entry)
                 /\ Len(s[i].data) \in Nat /\ s[i].synced \in Nat
                 /\ s[i].synced <= Len(s[i].data)
<1>1. DOMAIN s = 1..Len(s) /\ Len(s) \in Nat
  BY LenProperties
<1>2. ASSUME NEW i \in 1..Len(s)
      PROVE  /\ s[i] \in File /\ s[i].data \in Seq(Entry)
             /\ Len(s[i].data) \in Nat /\ s[i].synced \in Nat
  <2>1. s[i] \in File
    BY <1>2, ElementOfSeq
  <2>2. s[i].data \in Seq(Entry) /\ s[i].synced \in Nat
    BY <2>1 DEF File
  <2> QED  BY <2>1, <2>2, LenProperties
<1> QED  BY <1>1, <1>2

LEMMA FileFacts ==
    ASSUME FileType
    PROVE  /\ DOMAIN file = 1..Len(file) /\ Len(file) \in Nat
           /\ \A i \in 1..Len(file) :
                 /\ file[i] \in File /\ file[i].data \in Seq(Entry)
                 /\ Len(file[i].data) \in Nat /\ file[i].synced \in Nat
                 /\ file[i].synced <= Len(file[i].data)
BY FilesFacts DEF FileType

LEMMA FileFactsNext ==
    ASSUME FileType'
    PROVE  /\ DOMAIN file' = 1..Len(file') /\ Len(file') \in Nat
           /\ \A i \in 1..Len(file') :
                 /\ file'[i] \in File /\ file'[i].data \in Seq(Entry)
                 /\ Len(file'[i].data) \in Nat /\ file'[i].synced \in Nat
                 /\ file'[i].synced <= Len(file'[i].data)
BY FilesFacts DEF FileType

LEMMA ConcatKeeps ==
    ASSUME NEW S, NEW a \in Seq(S), NEW b \in Seq(S), NEW n \in Nat, n <= Len(a)
    PROVE  n <= Len(a \o b) /\ \A k \in 1..n : (a \o b)[k] = a[k]
BY Concat

LEMMA WrittenFacts ==
    ASSUME FileType, FType, f.id > 0
    PROVE  /\ f.id \in 1..Len(file)
           /\ f.gz \in Seq(Entry) /\ file[f.id].data \in Seq(Entry)
           /\ Written \in Seq(Entry) /\ Len(Written) \in Nat
           /\ Len(Written) = Len(file[f.id].data) + Len(f.gz)
           /\ \A k \in 1..Len(file[f.id].data) : Written[k] = file[f.id].data[k]
           /\ file[f.id].synced \in Nat /\ file[f.id].synced <= Len(Written)
           /\ \A k \in 1..file[f.id].synced : Written[k] = file[f.id].data[k]
<1>1. f.id \in 1..Len(file) /\ f.gz \in Seq(Entry)
  BY FileFacts DEF FType
<1>2. /\ file[f.id].data \in Seq(Entry)
      /\ file[f.id].synced \in Nat /\ file[f.id].synced <= Len(file[f.id].data)
  BY <1>1, FileFacts
<1> DEFINE a == file[f.id].data
           b == f.gz
           n == file[f.id].synced
<1>3. a \in Seq(Entry) /\ b \in Seq(Entry) /\ n \in Nat /\ n <= Len(a)
  BY <1>1, <1>2
<1>4. Written = a \o b
  BY DEF Written
<1> HIDE DEF a, b, n
<1>5. /\ a \o b \in Seq(Entry) /\ Len(a \o b) = Len(a) + Len(b) /\ Len(a \o b) \in Nat
      /\ \A k \in 1..Len(a) : (a \o b)[k] = a[k]
  BY <1>3, Concat
<1>6. n <= Len(a \o b) /\ \A k \in 1..n : (a \o b)[k] = a[k]
  BY <1>3, ConcatKeeps
<1> QED  BY <1>1, <1>2, <1>4, <1>5, <1>6 DEF a, b, n

\* os.OpenFile of a new file.
LEMMA NewFile ==
    ASSUME FileType, file' = Append(file, Empty)
    PROVE  /\ FileType' /\ Len(file') = Len(file) + 1
           /\ \A i \in 1..Len(file) : file'[i] = file[i]
           /\ file'[Len(file) + 1] = Empty
<1>1. Empty \in File /\ Len(Empty.data) = 0 /\ Empty.synced = 0
  BY DEF Empty, File
<1>2. /\ Len(file') = Len(file) + 1 /\ file' \in Seq(File)
      /\ \A i \in 1..Len(file) : file'[i] = file[i]
      /\ file'[Len(file) + 1] = Empty
  BY <1>1 DEF FileType
<1>3. \A i \in 1..Len(file') : file'[i].synced <= Len(file'[i].data)
  BY <1>1, <1>2 DEF FileType
<1> QED  BY <1>2, <1>3 DEF FileType

\* A change of the open file alone.
LEMMA ChangedFile ==
    ASSUME FileType, NEW i \in 1..Len(file), NEW x \in File, x.synced <= Len(x.data),
           file' = [file EXCEPT ![i] = x]
    PROVE  /\ FileType' /\ Len(file') = Len(file)
           /\ \A j \in 1..Len(file) : j # i => file'[j] = file[j]
           /\ file'[i] = x
<1>1. /\ Len(file') = Len(file) /\ file' \in Seq(File)
      /\ \A j \in 1..Len(file) : j # i => file'[j] = file[j]
      /\ file'[i] = x
  BY DEF FileType
<1> QED  BY <1>1 DEF FileType

LEMMA FsyncedFile ==
    ASSUME FileType, FType, f.id > 0, file' = Fsynced
    PROVE  /\ FileType' /\ Len(file') = Len(file)
           /\ \A j \in 1..Len(file) : j # f.id => file'[j] = file[j]
           /\ file'[f.id] = [data |-> Written, synced |-> Len(Written)]
<1> DEFINE x == [data |-> Written, synced |-> Len(Written)]
<1>1. x \in File /\ x.synced <= Len(x.data)
  <2>1. Written \in Seq(Entry) /\ Len(Written) \in Nat
    BY WrittenFacts, LenProperties
  <2> QED  BY <2>1 DEF File
<1>2. file' = [file EXCEPT ![f.id] = x]
  BY DEF Fsynced, Written
<1> QED  BY <1>1, <1>2, ChangedFile, WrittenFacts

LEMMA AppendedFile ==
    ASSUME FileType, FType, f.id > 0, NEW x \in Entry,
           file' = [file EXCEPT ![f.id].data = Append(@, x)]
    PROVE  /\ FileType' /\ Len(file') = Len(file)
           /\ \A j \in 1..Len(file) : j # f.id => file'[j] = file[j]
           /\ file'[f.id] = [data |-> Append(file[f.id].data, x),
                             synced |-> file[f.id].synced]
<1> DEFINE y == [data |-> Append(file[f.id].data, x), synced |-> file[f.id].synced]
<1>1. /\ f.id \in 1..Len(file) /\ file[f.id] \in File
      /\ file[f.id] = [data |-> file[f.id].data, synced |-> file[f.id].synced]
  BY WrittenFacts, FileFacts DEF File
<1>2. y \in File /\ y.synced <= Len(y.data)
  BY <1>1, FileFacts DEF File
<1>3. file' = [file EXCEPT ![f.id] = [file[f.id] EXCEPT !.data = Append(@, x)]]
  OBVIOUS
<1>4. \A e \in File : [e EXCEPT !.data = Append(@, x)]
                          = [data |-> Append(e.data, x), synced |-> e.synced]
  BY DEF File
<1>5. file' = [file EXCEPT ![f.id] = y]
  BY <1>1, <1>3, <1>4
<1> HIDE DEF y
<1>6. /\ FileType' /\ Len(file') = Len(file)
      /\ \A j \in 1..Len(file) : j # f.id => file'[j] = file[j]
      /\ file'[f.id] = y
  BY <1>1, <1>2, <1>5, ChangedFile
<1> QED  BY <1>6 DEF y

\* A power failure.
Cut(k) == [i \in DOMAIN file |->
             [file[i] EXCEPT !.data = SubSeq(@, 1, Max({file[i].synced, Len(@) - k}))]]

LEMMA CutFile ==
    ASSUME FileType, NEW k \in Nat, file' = Cut(k)
    PROVE  /\ FileType' /\ Len(file') = Len(file)
           /\ \A i \in 1..Len(file) :
                 /\ file'[i].synced = file[i].synced
                 /\ Len(file'[i].data) <= Len(file[i].data)
                 /\ \A j \in 1..Len(file'[i].data) : file'[i].data[j] = file[i].data[j]
           /\ \A i \in 1..Len(file) :
                 file[i].synced = Len(file[i].data) => file'[i] = file[i]
<1>1. file' = [i \in 1..Len(file) |->
                 [file[i] EXCEPT !.data = SubSeq(@, 1, Max({file[i].synced, Len(@) - k}))]]
  BY FileFacts DEF Cut
<1>2. ASSUME NEW i \in 1..Len(file)
      PROVE  /\ file'[i] \in File
             /\ file'[i].synced = file[i].synced
             /\ file'[i].synced <= Len(file'[i].data)
             /\ Len(file'[i].data) <= Len(file[i].data)
             /\ \A j \in 1..Len(file'[i].data) : file'[i].data[j] = file[i].data[j]
             /\ file[i].synced = Len(file[i].data) => file'[i] = file[i]
  <2> DEFINE d == file[i].data
             n == Max({file[i].synced, Len(d) - k})
             c == SubSeq(d, 1, n)
  <2>1. file[i] \in File /\ d \in Seq(Entry) /\ Len(d) \in Nat /\ file[i].synced \in Nat
          /\ file[i].synced <= Len(d)
    BY <1>2, FileFacts
  <2>2. n \in 0..Len(d) /\ n >= file[i].synced
    BY <2>1, MaxOfTwo
  <2>3. file'[i] = [file[i] EXCEPT !.data = c]
    BY <1>1
  <2>4. c \in Seq(Entry) /\ Len(c) = n /\ \A j \in 1..n : c[j] = d[j]
    BY <2>1, <2>2, Prefix
  <2> HIDE DEF c, n
  <2>5. file'[i] \in File /\ file'[i].data = c /\ file'[i].synced = file[i].synced
    BY <2>1, <2>3, <2>4 DEF File
  <2>6. ASSUME file[i].synced = Len(d) PROVE file'[i] = file[i]
    <3>1. n = Len(d)
      BY <2>1, <2>2, <2>6
    <3>2. c = d
      BY <2>1, <2>4, <3>1, SeqEqual
    <3> QED  BY <2>1, <2>3, <3>2 DEF File
  <2> QED  BY <2>1, <2>2, <2>4, <2>5, <2>6
<1>3. Len(file') = Len(file) /\ file' \in Seq(File)
  <2>1. \A i \in 1..Len(file) : file'[i] \in File
    BY <1>2
  <2>2. file' \in [1..Len(file) -> File]
    BY <1>1, <2>1
  <2> QED  BY <2>2, FileFacts, IsASeq, LenProperties
<1> QED  BY <1>2, <1>3 DEF FileType

-----------------------------------------------------------------------------
(* The inductive invariant, and the steps that leave the files alone.       *)

Inv == Types /\ RouterInv /\ OpenInv /\ KeptInv /\ MovedInv /\ LineInv

\* No fsynced entry of a file changes.
Grown ==
    /\ Len(file) <= Len(file')
    /\ \A i \in 1..Len(file) :
          /\ file[i].synced <= file'[i].synced
          /\ \A k \in 1..file[i].synced : file'[i].data[k] = file[i].data[k]

NamesStay == \A i \in 1..Len(file) : Named(i) => Named(i)'

OutputStays ==
    \A n \in Name : output[n] # 0 =>
        output'[n] = output[n] /\ file'[output[n]] = file[output[n]]

\* What no step may do to the files.
Forward == Grown /\ NamesStay /\ OutputStays

LEMMA StillForward ==
    ASSUME FileType, UNCHANGED <<file, dirs>>
    PROVE  Forward
BY FileFacts DEF Forward, Grown, NamesStay, OutputStays, Named

LEMMA SavedStays ==
    ASSUME FileType, FileType', Grown, NamesStay, NEW m, Saved(m)
    PROVE  Saved(m)'
<1>1. PICK i \in 1..Len(file) :
              Named(i) /\ \E k \in 1..(file[i].synced - 1) : file[i].data[k] = m
  BY DEF Saved
<1>2. PICK k \in 1..(file[i].synced - 1) : file[i].data[k] = m
  BY <1>1
<1>3. file[i].synced \in Nat /\ file'[i].synced \in Nat /\ i \in 1..Len(file')
  BY FileFacts, FileFactsNext DEF Grown
<1>4. k \in 1..(file'[i].synced - 1) /\ file'[i].data[k] = m
  BY <1>2, <1>3 DEF Grown
<1> QED  BY <1>1, <1>3, <1>4 DEF Saved, NamesStay

LEMMA NameType ==
    ASSUME NEW d \in 0..MaxDate, NEW v \in 0..MaxRev
    PROVE  NameOf(d, v) \in Name
BY Bounds DEF NameOf, Name

LEMMA AlternatesPrefix ==
    ASSUME NEW a, NEW b, Len(a) \in Nat, Len(b) \in Nat, Len(b) <= Len(a),
           \A j \in 1..Len(b) : b[j] = a[j], Alternates(a)
    PROVE  Alternates(b)
BY DEF Alternates

LEMMA UseType ==
    ASSUME EnvType, NEW k \in Kind, Use(k)
    PROVE  /\ used' \in [Kind -> Nat]
           /\ NoCrash' => NoCrash
           /\ k = "crash" => ~NoCrash'
BY DEF EnvType, Use, Kind, NoCrash

LEMMA InitInv == Init => Inv
<1> SUFFICES ASSUME Init PROVE Inv
  OBVIOUS
<1> USE DEF Init
<1>1. FileType /\ Len(file) = 0
  BY DEF FileType
<1>2. DirType
  BY <1>1 DEF DirType
<1>3. FType
  BY <1>1, Bounds DEF FType, NoFile
<1>4. RType /\ QType
  BY DEF RType, QType, NewRouter, PC, Entry
<1>5. EnvType
  BY Bounds DEF EnvType
<1>6. RouterInv
  BY Bounds DEF RouterInv, NewRouter, Closing
<1>7. OpenInv
  BY DEF OpenInv, NewRouter, NoFile
<1>8. KeptInv
  BY DEF KeptInv, NewRouter
<1>9. MovedInv
  BY DEF MovedInv, NoFile
<1>10. LineInv
  BY <1>1 DEF LineInv, NoFile
<1> QED  BY <1>1, <1>2, <1>3, <1>4, <1>5, <1>6, <1>7, <1>8, <1>9, <1>10 DEF Inv, Types

\* A step that router does not notice.
LEMMA QuietStep ==
    ASSUME Inv, UNCHANGED <<cfg, file, dirs, finished, f, r, pending>>,
           EnvType', logChan' \in Seq(Msg), logger' # "on" => logger # "on",
           NoCrash' => NoCrash
    PROVE  Inv' /\ Forward
<1> USE DEF Inv
<1>1. Types'
  BY DEF Types, FileType, DirType, FType, RType, QType
<1>2. RouterInv' /\ OpenInv'
  BY DEF RouterInv, OpenInv, NameOf
<1>3. KeptInv'
  <2>1. \A m : Saved(m) => Saved(m)'
    BY DEF Saved, Named
  <2>2. Written' = Written
    BY DEF Written
  <2> QED  BY <2>1, <2>2 DEF KeptInv
<1>4. MovedInv'
  BY DEF MovedInv
<1>5. LineInv'
  BY DEF LineInv, Exclusive, Written
<1> QED  BY <1>1, <1>2, <1>3, <1>4, <1>5, StillForward DEF Types

\* A step of router that touches neither the files nor `output`, from a place where
\* no line is half written and no file half moved, to another such place.
LEMMA RouterStep ==
    ASSUME Inv, UNCHANGED <<cfg, date, file, dirs, finished, f, pending>>,
           used' \in [Kind -> Nat], NoCrash' => NoCrash,
           RType', QType', RouterInv',
           r.pc \in {"select", "sync", "close"},
           r'.pc \in {"select", "sync", "close", "open", "body", "exited"},
           r'.pc = "body" => f.out # "nil",
           r'.pc = "open" => f.out # "open",
           pending # << >> /\ r'.pc \in {"select", "sync"} => f.out = "open"
    PROVE  Inv' /\ Forward
<1> USE DEF Inv
<1>1. Types'
  BY DEF Types, FileType, DirType, FType, EnvType
<1>2. OpenInv'
  BY DEF OpenInv, NameOf
<1>3. KeptInv'
  <2>1. \A m : Saved(m) => Saved(m)'
    BY DEF Saved, Named
  <2>2. Written' = Written
    BY DEF Written
  <2> QED  BY <2>1, <2>2 DEF KeptInv
<1>4. MovedInv'
  BY DEF MovedInv
<1>5. LineInv'
  BY DEF LineInv, Exclusive, Written
<1> QED  BY <1>1, <1>2, <1>3, <1>4, <1>5, StillForward DEF Types

\* The process is gone, with the power or without; it was not in the middle of a line,
\* or that counts as a crash.
LEMMA GoneStep ==
    ASSUME Inv, Gone, UNCHANGED dirs, used' \in [Kind -> Nat],
           file' = file \/ \E k \in Nat : file' = Cut(k),
           NoCrash' => NoCrash /\ file' = file /\ r.pc # "newline"
    PROVE  Inv' /\ Forward
<1> USE DEF Inv, Gone
<1>1. /\ FileType' /\ Len(file') = Len(file) /\ Grown
      /\ \A i \in 1..Len(file) :
            /\ Len(file'[i].data) <= Len(file[i].data)
            /\ \A j \in 1..Len(file'[i].data) : file'[i].data[j] = file[i].data[j]
            /\ file[i].synced = Len(file[i].data) => file'[i] = file[i]
  <2>1. FileType /\ Len(file) \in Nat
    BY FileFacts DEF Types
  <2>2. CASE file' = file
    BY <2>1, <2>2, FileFacts DEF FileType, Grown
  <2>3. ASSUME NEW k \in Nat, file' = Cut(k)
        PROVE  /\ FileType' /\ Len(file') = Len(file) /\ Grown
               /\ \A i \in 1..Len(file) :
                     /\ Len(file'[i].data) <= Len(file[i].data)
                     /\ \A j \in 1..Len(file'[i].data) : file'[i].data[j] = file[i].data[j]
                     /\ file[i].synced = Len(file[i].data) => file'[i] = file[i]
    <3>1. FileType' /\ Len(file') = Len(file)
      BY <2>1, <2>3, CutFile
    <3>2. \A i \in 1..Len(file) :
             /\ file'[i].synced = file[i].synced
             /\ Len(file'[i].data) <= Len(file[i].data)
             /\ \A j \in 1..Len(file'[i].data) : file'[i].data[j] = file[i].data[j]
             /\ file[i].synced = Len(file[i].data) => file'[i] = file[i]
      BY <2>1, <2>3, CutFile
    <3>3. \A i \in 1..Len(file) : /\ file'[i].synced \in Nat /\ Len(file'[i].data) \in Nat
                                  /\ file'[i].synced <= Len(file'[i].data)
      BY <3>1, FileFactsNext
    <3>4. Grown
      BY <2>1, <3>1, <3>2, <3>3 DEF Grown
    <3> QED  BY <3>1, <3>2, <3>4
  <2> QED  BY <2>2, <2>3
<1>2. DirType'
  BY <1>1 DEF Types, DirType
<1>3. FType'
  BY <1>1, Bounds, FileFacts DEF Types, FType, NoFile
<1>4. RType' /\ QType'
  BY DEF RType, QType, NewRouter, PC, Entry
<1>5. EnvType'
  BY DEF Types, EnvType
<1>6. RouterInv'
  BY Bounds DEF RouterInv, NewRouter, Closing
<1>7. OpenInv'
  BY DEF OpenInv, NewRouter, NoFile
<1>8. Forward
  <2>1. NamesStay
    BY DEF NamesStay, Named
  <2>2. OutputStays
    BY <1>1, FileFacts DEF Types, DirType, MovedInv, OutputStays
  <2> QED  BY <1>1, <2>1, <2>2 DEF Forward
<1>9. KeptInv'
  <2>1. \A m \in finished' : Saved(m)'
    BY <1>1, <1>8, SavedStays DEF KeptInv, Types, Forward
  <2> QED  BY <2>1 DEF KeptInv, NewRouter
<1>10. MovedInv'
  BY <1>8 DEF MovedInv, NoFile, Forward, OutputStays
<1>11. LineInv'
  <2>1. ASSUME (Exclusive \/ NoCrash)', NEW i \in 1..Len(file') PROVE Alternates(file'[i].data)
    <3>1. Exclusive \/ NoCrash
      BY <2>1 DEF Exclusive
    <3>2. Alternates(file[i].data)
      BY <1>1, <2>1, <3>1 DEF LineInv
    <3>3. Len(file[i].data) \in Nat /\ Len(file'[i].data) \in Nat
      BY <1>1, <2>1, FileFacts, FileFactsNext DEF Types
    <3>4. /\ Len(file'[i].data) <= Len(file[i].data)
          /\ \A j \in 1..Len(file'[i].data) : file'[i].data[j] = file[i].data[j]
      BY <1>1, <2>1
    <3> QED  BY <3>2, <3>3, <3>4, AlternatesPrefix
  <2>2. ASSUME (~Exclusive /\ NoCrash)', NEW n \in Name, work'[n] # 0
        PROVE  Ends(file'[work'[n]].data)
    BY <2>2 DEF LineInv, Exclusive
  <2> QED  BY <2>1, <2>2 DEF LineInv, NoFile
<1> QED  BY <1>1, <1>2, <1>3, <1>4, <1>5, <1>6, <1>7, <1>8, <1>9, <1>10, <1>11 DEF Types

-----------------------------------------------------------------------------
(* The environment and the process.                                         *)

LEMMA EnvironmentInv ==
    ASSUME Inv,
           \/ Clock \/ StopConsumer \/ Restart \/ UpdateTopics \/ Signal
           \/ \E m \in Msg : HandleMessage(m) \/ TimedOut(m)
    PROVE  Inv' /\ Forward
<1> USE DEF Inv, Types
<1>1. EnvType /\ EnvType' /\ (NoCrash' => NoCrash)
  <2>1. CASE UNCHANGED <<cfg, date, used>>
    BY <2>1 DEF EnvType, NoCrash
  <2>2. ASSUME NEW k \in Kind, Use(k), cfg' = cfg, date' \in 0..MaxDate
        PROVE  EnvType' /\ (NoCrash' => NoCrash)
    BY <2>2, UseType DEF EnvType
  <2>3. CASE Clock
    BY <2>2, <2>3, Bounds DEF Clock, EnvType, Kind
  <2>4. CASE UpdateTopics \/ Signal
    BY <2>1, <2>2, <2>4 DEF UpdateTopics, Signal, EnvType, Kind
  <2>5. CASE \E m \in Msg : HandleMessage(m) \/ TimedOut(m)
    BY <2>1, <2>2, <2>5 DEF HandleMessage, TimedOut, EnvType, Kind
  <2> QED  BY <2>1, <2>3, <2>4, <2>5 DEF StopConsumer, Restart
<1>2. UNCHANGED <<cfg, file, dirs, finished, f, r, pending>>
  BY DEF Clock, StopConsumer, Restart, UpdateTopics, Signal, HandleMessage, TimedOut
<1>3. logChan' \in Seq(Msg)
  <2>1. logChan' = logChan \/ \E m \in Msg : logChan' = <<m>>
    BY DEF Clock, StopConsumer, Restart, UpdateTopics, Signal, HandleMessage, TimedOut
  <2>2. \A m \in Msg : <<m>> \in Seq(Msg)
    OBVIOUS
  <2> QED  BY <2>1, <2>2 DEF QType
<1>4. logger' # "on" => logger # "on"
  BY DEF Clock, StopConsumer, Restart, UpdateTopics, Signal, HandleMessage, TimedOut
<1> QED  BY <1>1, <1>2, <1>3, <1>4, QuietStep

LEMMA OtherFileInv ==
    ASSUME Inv, NEW n \in Name, OtherFile(n)
    PROVE  Inv' /\ Forward
<1> USE DEF Inv, Types, OtherFile
<1>1. /\ FileType' /\ Len(file') = Len(file) + 1 /\ Len(file) \in Nat
      /\ \A i \in 1..Len(file) : file'[i] = file[i]
      /\ file'[Len(file) + 1] = Empty
  BY NewFile, FileFacts DEF Empty
<1>2. DirType'
  BY <1>1 DEF DirType
<1>3. FType'
  BY <1>1 DEF FType
<1>4. RType' /\ QType'
  BY DEF RType, QType
<1>5. EnvType' /\ (NoCrash' => NoCrash)
  BY UseType DEF EnvType, Kind
<1>6. RouterInv'
  BY DEF RouterInv
<1>7. f.out = "open" => /\ f.id \in 1..Len(file) /\ file'[f.id] = file[f.id]
                        /\ Written' = Written
  <2>1. f.out = "open" => f.id \in 1..Len(file)
    BY <1>1 DEF OpenInv, FType
  <2>2. f.out = "open" => file'[f.id] = file[f.id]
    BY <1>1, <2>1
  <2> QED  BY <2>1, <2>2 DEF Written
<1>8. OpenInv'
  <2>1. (\E q \in Name : output[q] = f.id) /\ f.id # 0 => \E q \in Name : output'[q] = f.id
    BY DEF DirType
  <2> QED  BY <1>7, <2>1 DEF OpenInv, NameOf
<1>9. Forward
  <2>1. Grown
    BY <1>1, FileFacts DEF Grown
  <2>2. NamesStay
    BY DEF NamesStay, Named, DirType
  <2>3. OutputStays
    BY <1>1 DEF OutputStays, DirType
  <2> QED  BY <2>1, <2>2, <2>3 DEF Forward
<1>10. KeptInv'
  <2>1. \A m : Saved(m) => Saved(m)'
    BY <1>1, <1>9, SavedStays DEF Forward
  <2> QED  BY <1>7, <2>1 DEF KeptInv, OpenInv
<1>11. MovedInv'
  <2>1. \A q \in Name : output'[q] = IF q = n THEN Len(file) + 1 ELSE output[q]
    BY DEF DirType
  <2>2. \A q \in Name : work[q] \in 0..Len(file) /\ output[q] \in 0..Len(file)
    BY DEF DirType
  <2>3. \A q \in Name : output'[q] # 0
                          => file'[output'[q]].synced = Len(file'[output'[q]].data)
    BY <1>1, <2>1, <2>2 DEF MovedInv, Empty
  <2>4. f.out = "open" => f.id <= Len(file)
    BY <1>7
  <2> QED  BY <1>1, <2>1, <2>2, <2>3, <2>4 DEF MovedInv
<1>12. LineInv'
  <2>1. Alternates(Empty.data)
    BY DEF Alternates, Empty
  <2>2. \A q \in Name : work[q] # 0 => file'[work[q]] = file[work[q]]
    BY <1>1 DEF DirType
  <2>3. (Exclusive \/ NoCrash)' => Exclusive \/ NoCrash
    BY <1>5 DEF Exclusive
  <2>4. (~Exclusive /\ NoCrash)' => ~Exclusive /\ NoCrash
    BY <1>5 DEF Exclusive
  <2>5. ASSUME (Exclusive \/ NoCrash)'
        PROVE  \A i \in 1..Len(file') : Alternates(file'[i].data)
    BY <1>1, <2>1, <2>3, <2>5 DEF LineInv
  <2> QED  BY <1>7, <2>2, <2>3, <2>4, <2>5 DEF LineInv
<1> QED  BY <1>1, <1>2, <1>3, <1>4, <1>5, <1>6, <1>8, <1>9, <1>10, <1>11, <1>12

LEMMA GoneInv ==
    ASSUME Inv, Crash \/ Ended \/ (Die /\ r.pc # "newline")
    PROVE  Inv' /\ Forward
<1> USE DEF Inv, Types
<1>1. EnvType /\ file' = file /\ UNCHANGED dirs /\ Gone
  BY DEF Crash, Ended, Die
<1>2. CASE Crash
  BY <1>1, <1>2, UseType, GoneStep DEF Crash, Kind
<1>3. CASE Ended \/ (Die /\ r.pc # "newline")
  <2>1. r.pc # "newline" /\ used' = used
    BY <1>3 DEF Ended, Die, RouterInv
  <2> QED  BY <1>1, <2>1, GoneStep DEF EnvType, NoCrash
<1> QED  BY <1>2, <1>3

LEMMA PowerFailInv ==
    ASSUME Inv, NEW k \in 1..(2 * MaxInFlight), PowerFail(k)
    PROVE  Inv' /\ Forward
<1>1. k \in Nat
  BY Bounds
<1>2. file' = Cut(k)
  BY DEF PowerFail, Cut
<1>3. EnvType /\ Gone /\ UNCHANGED dirs /\ Use("crash")
  BY DEF PowerFail, Inv, Types
<1> QED  BY <1>1, <1>2, <1>3, UseType, GoneStep DEF Kind

-----------------------------------------------------------------------------
(* router: the select, and the sync that finds nothing to do.               *)

LEMMA OnwardInv ==
    ASSUME RType, QType, RouterInv, NEW q,
           q \in {r, [r EXCEPT !.sync = FALSE]}, r' = Onward(q),
           pending' \in Seq(Msg), Len(pending') < MaxInFlight, Len(pending') <= Len(pending),
           UNCHANGED <<logChan, logger>>, r.pc \in {"sync", "finish"},
           q.closeFile => pending' = << >>
    PROVE  /\ RType' /\ QType' /\ RouterInv'
           /\ r'.pc \in {"close", "exited", "select"}
<1>1. r' = [r EXCEPT !.sync = q.sync, !.closeFile = FALSE,
                     !.then = IF r.exit THEN "exited" ELSE "select",
                     !.pc = IF r.closeFile THEN "close"
                            ELSE IF r.exit THEN "exited" ELSE "select"]
  BY DEF Onward, RType
<1>2. q.sync \in BOOLEAN /\ q.closeFile = r.closeFile
  BY DEF RType
<1>3. RType' /\ QType'
  BY <1>1, <1>2 DEF RType, QType, PC, Closing
<1>4. /\ r'.pc = IF r.closeFile THEN "close" ELSE IF r.exit THEN "exited" ELSE "select"
      /\ r'.closeFile = FALSE
  BY <1>1 DEF RType
<1>5. RouterInv'
  BY <1>2, <1>4, Bounds DEF RouterInv, Closing
<1> QED  BY <1>3, <1>4, <1>5

\* What the cases of the select do to router, whatever they do to the rest.
LEMMA SelectInv ==
    ASSUME Inv, \/ Stopped \/ Term \/ Hup
                \/ \E due \in BOOLEAN : Tick(due) \/ Receive(due)
    PROVE  Inv' /\ Forward
<1> USE DEF Inv, Types
<1>1. /\ r.pc = "select" /\ logger' = logger /\ logger = "on"
      /\ UNCHANGED <<cfg, date, file, dirs, finished, f, pending>>
  BY DEF Stopped, Term, Hup, Tick, Receive, Selecting
<1>2. used' \in [Kind -> Nat] /\ (NoCrash' => NoCrash)
  <2>1. used' = used \/ Use("rotate")
    BY DEF Stopped, Term, Hup, Tick, Receive, Rotated
  <2> QED  BY <2>1, UseType DEF EnvType, Kind, NoCrash
<1>3. ~needsRotation(TRUE) \/ ~needsRotation(FALSE) => f.out # "nil"
  BY DEF needsRotation
<1>4. CASE Stopped \/ Term \/ Hup
  <2>1. \/ r' = [r EXCEPT !.pc = "sync", !.sync = TRUE, !.closeFile = TRUE, !.exit = TRUE]
        \/ r' = [r EXCEPT !.pc = "sync", !.sync = TRUE]
        \/ r' = [r EXCEPT !.pc = "sync", !.sync = TRUE, !.closeFile = TRUE]
    BY <1>4 DEF Stopped, Term, Hup
  <2>2. RType' /\ r'.pc = "sync" /\ r'.sync
    BY <2>1 DEF RType, PC
  <2>3. RouterInv'
    BY <1>1, <2>2 DEF RouterInv, Closing
  <2>4. QType'
    BY <1>4 DEF QType, Stopped, Term, Hup
  <2> QED  BY <1>1, <1>2, <2>2, <2>3, <2>4, RouterStep DEF OpenInv
<1>5. ASSUME NEW due \in BOOLEAN, Tick(due) PROVE Inv' /\ Forward
  <2> DEFINE rot == needsRotation(due)
  <2>1. r' = Ticked(rot) /\ logChan' = logChan
    BY <1>5 DEF Tick
  <2>2. \/ r' = [r EXCEPT !.pc = "close", !.then = "open", !.closeFile = FALSE, !.sync = TRUE]
        \/ r' = [r EXCEPT !.pc = "sync", !.closeFile = FALSE, !.sync = TRUE]
        \/ r' = [r EXCEPT !.pc = "sync", !.closeFile = TRUE, !.sync = TRUE]
    BY <2>1 DEF Ticked, RType
  <2>3. RType' /\ QType'
    <3>1. RType'
      BY <2>2 DEF RType, PC, Closing
    <3> QED  BY <1>1, <2>1, <3>1 DEF QType
  <2>4. r'.pc \in {"close", "sync"} /\ r'.sync
          /\ (r'.pc = "close" => r'.then = "open" /\ ~r'.closeFile)
    BY <2>2 DEF RType
  <2>5. RouterInv'
    BY <1>1, <2>4 DEF RouterInv, Closing
  <2> QED  BY <1>1, <1>2, <2>3, <2>4, <2>5, RouterStep DEF OpenInv
<1>6. ASSUME NEW due \in BOOLEAN, Receive(due) PROVE Inv' /\ Forward
  <2> DEFINE rot == needsRotation(due)
  <2>1. logChan' = << >> /\ Head(logChan) \in Msg
    BY <1>6, HeadTailProperties DEF Receive, QType
  <2>2. r' = [r EXCEPT !.msg = Head(logChan), !.pc = IF rot THEN "close" ELSE "body",
                       !.then = IF rot THEN "open" ELSE @, !.sync = @ \/ rot]
    BY <1>6 DEF Receive
  <2>3. rot \in BOOLEAN /\ (~rot => f.out # "nil")
    BY DEF needsRotation
  <2> DEFINE h == Head(logChan)
  <2> HIDE DEF rot, h
  <2>4. /\ r' = [r EXCEPT !.msg = h, !.pc = IF rot THEN "close" ELSE "body",
                          !.then = IF rot THEN "open" ELSE @, !.sync = @ \/ rot]
        /\ h \in Msg
    BY <2>1, <2>2 DEF h
  <2>5. RType'
    BY <2>3, <2>4 DEF RType, PC, Closing, Entry
  <2>6. /\ r'.closeFile = r.closeFile
        /\ \/ r'.pc = "close" /\ r'.then = "open"
           \/ r'.pc = "body" /\ f.out # "nil"
    BY <2>3, <2>4 DEF RType
  <2>7. QType'
    BY <1>1, <2>1 DEF QType
  <2>8. RouterInv'
    BY <1>1, <2>6 DEF RouterInv, Closing
  <2> QED  BY <1>1, <1>2, <2>5, <2>6, <2>7, <2>8, RouterStep
<1> QED  BY <1>4, <1>5, <1>6

-----------------------------------------------------------------------------
(* router: Close, and a new file.                                           *)

\* The open file is fsynced, whatever router does next: what has been written to it
\* is on disk, its name in the working directory with it.
LEMMA FsyncedStep ==
    ASSUME Inv, f.out = "open", r.pc \in {"sync", "close"}, file' = Fsynced, UNCHANGED dirs
    PROVE  /\ FileType' /\ Len(file') = Len(file)
           /\ \A j \in 1..Len(file) : j # f.id => file'[j] = file[j]
           /\ f.id \in 1..Len(file)
           /\ file'[f.id] = [data |-> Written, synced |-> Len(Written)]
           /\ Grown /\ NamesStay /\ \A m : Saved(m) => Saved(m)'
           /\ \A j \in 1..Len(pending) : \A m : m = pending[j] => Saved(m)'
<1> USE DEF Inv, Types
<1>1. f.id > 0
  BY DEF OpenInv
<1>2. /\ FileType' /\ Len(file') = Len(file)
      /\ \A j \in 1..Len(file) : j # f.id => file'[j] = file[j]
      /\ file'[f.id] = [data |-> Written, synced |-> Len(Written)]
  BY <1>1, FsyncedFile
<1>3. /\ f.id \in 1..Len(file) /\ file[f.id].synced <= Len(Written)
      /\ \A k \in 1..file[f.id].synced : Written[k] = file[f.id].data[k]
  BY <1>1, WrittenFacts
<1>4. file'[f.id].data = Written /\ file'[f.id].synced = Len(Written)
  BY <1>2
<1>5. Grown
  <2>1. ASSUME NEW i \in 1..Len(file)
        PROVE  /\ file[i].synced <= file'[i].synced
               /\ \A k \in 1..file[i].synced : file'[i].data[k] = file[i].data[k]
    <3>1. CASE i = f.id
      BY <1>3, <1>4, <3>1
    <3>2. CASE i # f.id
      BY <1>2, <2>1, <3>2, FileFacts
    <3> QED  BY <3>1, <3>2
  <2> QED  BY <1>2, <2>1, FileFacts DEF Grown
<1>6. NamesStay
  BY DEF NamesStay, Named
<1>7. \A m : Saved(m) => Saved(m)'
  BY <1>2, <1>5, <1>6, SavedStays
<1>8. ASSUME NEW i, i = f.id PROVE Named(i)'
  <2>1. NameOf(f.date, f.rev) \in Name
    BY NameType DEF OpenInv, FType
  <2> QED  BY <1>8, <2>1 DEF OpenInv, Named
<1>9. ASSUME NEW j \in 1..Len(pending), NEW m, m = pending[j] PROVE Saved(m)'
  <2>1. CASE Saved(m)
    BY <1>7, <2>1
  <2>2. ASSUME NEW k \in 1..(Len(Written) - 1), Written[k] = m
        PROVE  Saved(m)'
    <3>1. PICK i \in 1..Len(file') : i = f.id
      BY <1>2, <1>3
    <3>2. k \in 1..(file'[i].synced - 1) /\ file'[i].data[k] = m
      BY <1>4, <2>2, <3>1
    <3>3. Named(i)'
      BY <1>8, <3>1
    <3> QED  BY <3>2, <3>3 DEF Saved
  <2> QED  BY <1>9, <2>1, <2>2 DEF KeptInv
<1> QED  BY <1>2, <1>3, <1>5, <1>6, <1>7, <1>9

LEMMA FsyncInv ==
    ASSUME Inv, f.out = "open", r.pc \in {"sync", "close"}, file' = Fsynced,
           UNCHANGED <<cfg, date, dirs, finished, pending, used>>,
           NEW o \in {"open", "nil"}, f' = [f EXCEPT !.gz = << >>, !.out = o],
           RType', QType', RouterInv',
           o = "open" => r'.pc \in {"link", "finish"} /\ (r'.pc = "link" => cfg.workdir),
           o = "nil" => \/ r'.pc \in {"open", "exited"}
                        \/ r'.pc = "select" /\ pending = << >>
    PROVE  Inv' /\ Forward
<1> USE DEF Inv, Types
<1>1. /\ FileType' /\ Len(file') = Len(file)
      /\ \A j \in 1..Len(file) : j # f.id => file'[j] = file[j]
      /\ f.id \in 1..Len(file)
      /\ file'[f.id] = [data |-> Written, synced |-> Len(Written)]
  BY FsyncedStep
<1>2. /\ Grown /\ NamesStay /\ \A m : Saved(m) => Saved(m)'
      /\ \A j \in 1..Len(pending) : \A m : m = pending[j] => Saved(m)'
  BY FsyncedStep
<1>3. /\ f'.out = o /\ f'.gz = << >> /\ f'.id = f.id /\ f'.date = f.date /\ f'.rev = f.rev
      /\ f' \in [out : {"nil", "open", "stale"}, id : 0..Len(file), date : -1..MaxDate,
                 rev : 0..MaxRev, size : Nat, gz : Seq(Entry)]
  <2>1. << >> \in Seq(Entry) /\ o \in {"nil", "open", "stale"}
    OBVIOUS
  <2>2. f' \in [out : {"nil", "open", "stale"}, id : 0..Len(file), date : -1..MaxDate,
                rev : 0..MaxRev, size : Nat, gz : Seq(Entry)]
    BY <2>1 DEF FType
  <2> QED  BY <2>2 DEF FType
<1>4. DirType' /\ FType' /\ EnvType'
  BY <1>1, <1>3 DEF DirType, FType, EnvType
<1>5. file'[f.id].data = Written /\ file'[f.id].synced = Len(Written) /\ Written \in Seq(Entry)
  <2>1. Written \in Seq(Entry)
    BY WrittenFacts DEF OpenInv
  <2> QED  BY <1>1, <2>1
<1>6. Written' = Written
  BY <1>3, <1>5, ConcatEmpty DEF Written
<1>7. OpenInv'
  BY <1>3, <1>5 DEF OpenInv, NameOf
<1>8. KeptInv'
  BY <1>2 DEF KeptInv
<1>9. \A n \in Name : /\ output[n] # 0 => file'[output[n]] = file[output[n]]
                      /\ output[n] # f.id
  BY <1>1 DEF MovedInv, DirType
<1>10. MovedInv' /\ Forward
  BY <1>2, <1>3, <1>9 DEF MovedInv, Forward, OutputStays
<1>11. LineInv'
  <2>1. (Exclusive \/ NoCrash)' => Alternates(Written) /\ Ends(Written)
    BY DEF LineInv, Exclusive, NoCrash
  <2>2. (Exclusive \/ NoCrash)' => \A i \in 1..Len(file') : Alternates(file'[i].data)
    <3> SUFFICES ASSUME (Exclusive \/ NoCrash)', NEW i \in 1..Len(file')
                 PROVE  Alternates(file'[i].data)
      OBVIOUS
    <3>1. CASE i = f.id
      BY <1>5, <2>1, <3>1
    <3>2. CASE i # f.id
      BY <1>1, <3>2 DEF LineInv, Exclusive, NoCrash
    <3> QED  BY <3>1, <3>2
  <2>3. ASSUME (~Exclusive /\ NoCrash)', NEW n \in Name, work[n] # 0
        PROVE  Ends(file'[work[n]].data)
    <3>1. CASE work[n] = f.id
      BY <1>5, <2>1, <2>3, <3>1
    <3>2. CASE work[n] # f.id
      <4>1. file'[work[n]] = file[work[n]]
        BY <1>1, <2>3, <3>2 DEF DirType
      <4> QED  BY <2>3, <4>1 DEF LineInv, Exclusive, NoCrash
    <3> QED  BY <3>1, <3>2
  <2> QED  BY <1>6, <2>1, <2>2, <2>3 DEF LineInv
<1> QED  BY <1>1, <1>4, <1>7, <1>8, <1>10, <1>11

LEMMA CloseFileInv ==
    ASSUME Inv, CloseFile
    PROVE  Inv' /\ Forward
<1> USE DEF Inv, Types
<1>1. CASE f.out = "stale"
  BY <1>1, GoneInv DEF CloseFile
<1>2. CASE f.out = "nil"
  <2>1. /\ r.pc = "close" /\ r' = [r EXCEPT !.pc = r.then]
        /\ UNCHANGED <<cfg, date, file, dirs, nsqd, logChan, logger, f, pending, used>>
    BY <1>2 DEF CloseFile
  <2>2. r'.pc = r.then /\ r'.closeFile = r.closeFile /\ r'.then = r.then /\ RType'
    BY <2>1 DEF RType, PC
  <2>3. QType'
    BY <2>1 DEF QType
  <2>4. r.then = "open" \/ pending = << >>
    BY <2>1 DEF RouterInv, Closing
  <2>5. r.then \in {"select", "open", "exited"}
    BY DEF RType
  <2>6. RouterInv'
    BY <2>1, <2>2, <2>4, <2>5, Bounds DEF RouterInv, Closing
  <2>7. used' \in [Kind -> Nat] /\ (NoCrash' => NoCrash)
    BY <2>1 DEF EnvType, NoCrash
  <2> QED  BY <1>2, <2>1, <2>2, <2>3, <2>4, <2>5, <2>6, <2>7, RouterStep
<1>3. CASE f.out = "open"
  <2> DEFINE o == IF cfg.workdir THEN "open" ELSE "nil"
             p == IF cfg.workdir THEN "link" ELSE r.then
  <2>1. /\ r.pc = "close" /\ r' = [r EXCEPT !.pc = p] /\ file' = Fsynced
        /\ f' = [f EXCEPT !.gz = << >>, !.out = o]
        /\ UNCHANGED <<cfg, date, dirs, nsqd, logChan, logger, pending, used>>
    BY <1>3 DEF CloseFile
  <2>2. o \in {"open", "nil"} /\ p \in {"link", "select", "open", "exited"}
    BY DEF RType
  <2>3. r'.pc = p /\ r'.closeFile = r.closeFile /\ r'.then = r.then /\ RType'
    BY <2>1, <2>2 DEF RType, PC, Closing
  <2>4. QType'
    BY <2>1 DEF QType
  <2>5. r.then = "open" \/ pending = << >>
    BY <2>1 DEF RouterInv, Closing
  <2>6. RouterInv'
    BY <2>1, <2>2, <2>3, <2>5, Bounds DEF RouterInv, Closing
  <2>7. /\ o = "open" => r'.pc = "link" /\ cfg.workdir
        /\ o = "nil" => r'.pc = r.then
    BY <2>3
  <2>8. /\ o = "open" => r'.pc \in {"link", "finish"} /\ (r'.pc = "link" => cfg.workdir)
        /\ o = "nil" => \/ r'.pc \in {"open", "exited"}
                        \/ r'.pc = "select" /\ pending = << >>
    BY <2>5, <2>7 DEF RType
  <2> HIDE DEF o, p
  <2> QED  BY <1>3, <2>1, <2>2, <2>3, <2>4, <2>6, <2>8, FsyncInv
<1> QED  BY <1>1, <1>2, <1>3 DEF FType

LEMMA LinkInv ==
    ASSUME Inv, Link
    PROVE  Inv' /\ Forward
<1> USE DEF Inv, Types
<1>1. PICK v \in f.rev..MaxRev :
          /\ output[NameOf(f.date, v)] = 0
          /\ \A u \in f.rev..(v - 1) : output[NameOf(f.date, u)] # 0
          /\ output' = [output EXCEPT ![NameOf(f.date, v)] = f.id]
          /\ r' = [r EXCEPT !.pc = IF v = f.rev THEN "remove" ELSE "bumped"]
  BY DEF Link
<1>2. /\ r.pc = "link" /\ f.out = "open" /\ cfg.workdir /\ f.gz = << >>
      /\ file[f.id].synced = Len(file[f.id].data)
      /\ f.id \in 1..Len(file) /\ f.date \in 0..MaxDate /\ f.rev \in 0..MaxRev
      /\ work[NameOf(f.date, f.rev)] = f.id
      /\ UNCHANGED <<cfg, date, file, work, nsqd, consumer, logChan, disc, logger, f, pending,
                     used>>
  BY FileFacts DEF Link, OpenInv, FType
<1> DEFINE n == NameOf(f.date, v)
           w == NameOf(f.date, f.rev)
<1>3. n \in Name /\ w \in Name
  BY <1>2, NameType, Bounds
<1>4. w # n => output[w] # 0
  <2>1. ASSUME v # f.rev PROVE output[w] # 0
    BY <1>1, <1>2, <2>1, Bounds
  <2> QED  BY <2>1
<1>5. /\ output[n] = 0 /\ output' = [output EXCEPT ![n] = f.id]
      /\ work[w] = f.id
  BY <1>1, <1>2
<1> HIDE DEF n, w
<1>6. \A q \in Name : output'[q] = IF q = n THEN f.id ELSE output[q]
  BY <1>3, <1>5 DEF DirType
<1>7. output'[w] # 0
  BY <1>2, <1>3, <1>4, <1>6
<1>8. r'.pc \in {"remove", "bumped"} /\ r'.closeFile = r.closeFile /\ r'.then = r.then
        /\ r'.sync = r.sync /\ RType'
  BY <1>1 DEF RType, PC, Closing
<1>9. FileType' /\ DirType' /\ FType' /\ QType' /\ EnvType'
  BY <1>2, <1>3, <1>5 DEF FileType, DirType, FType, QType, EnvType
<1>10. RouterInv'
  BY <1>2, <1>8 DEF RouterInv, Closing
<1>11. OpenInv'
  <2>1. \E q \in Name : output'[q] = f.id
    BY <1>3, <1>6
  <2> QED  BY <1>2, <1>8, <2>1 DEF OpenInv, NameOf
<1>12. Forward
  <2>1. Grown
    BY <1>2, FileFacts DEF Grown
  <2>2. NamesStay
    BY <1>2, <1>5, <1>6 DEF NamesStay, Named
  <2>3. OutputStays
    BY <1>2, <1>5, <1>6 DEF OutputStays
  <2> QED  BY <2>1, <2>2, <2>3 DEF Forward
<1>13. KeptInv'
  <2>1. \A m : Saved(m) => Saved(m)'
    BY <1>9, <1>12, SavedStays DEF Forward
  <2>2. Written' = Written
    BY <1>2 DEF Written
  <2> QED  BY <1>2, <1>8, <2>1, <2>2 DEF KeptInv
<1>14. MovedInv'
  <2>1. ASSUME NEW a \in Name, NEW b \in Name, work[a] # 0, output'[b] = work[a]
        PROVE  output'[a] # 0
    <3>1. CASE b = n
      <4>1. a = w
        BY <1>3, <1>5, <1>6, <2>1, <3>1 DEF MovedInv
      <4> QED  BY <1>7, <4>1
    <3>2. CASE b # n
      BY <1>2, <1>6, <2>1, <3>2 DEF MovedInv
    <3> QED  BY <3>1, <3>2
  <2>2. \A a \in Name : output'[a] # 0
                          => file[output'[a]].synced = Len(file[output'[a]].data)
    BY <1>2, <1>6 DEF MovedInv
  <2> QED  BY <1>2, <1>8, <2>1, <2>2 DEF MovedInv
<1>15. LineInv'
  <2>1. Written' = Written
    BY <1>2 DEF Written
  <2> QED  BY <1>2, <1>8, <2>1 DEF LineInv, Exclusive, NoCrash
<1> QED  BY <1>8, <1>9, <1>10, <1>11, <1>12, <1>13, <1>14, <1>15

LEMMA UnlinkInv ==
    ASSUME Inv, Unlink
    PROVE  Inv' /\ Forward
<1> USE DEF Inv, Types
<1> DEFINE w == NameOf(f.date, f.rev)
           o == IF r.pc = "remove" THEN "stale" ELSE "nil"
<1>1. /\ r.pc \in {"remove", "bumped"} /\ f.out = "open"
      /\ f.id \in 1..Len(file) /\ f.date \in 0..MaxDate /\ f.rev \in 0..MaxRev
      /\ work[w] = f.id /\ work' = [work EXCEPT ![w] = 0]
      /\ f' = [f EXCEPT !.out = o] /\ r' = [r EXCEPT !.pc = r.then]
      /\ UNCHANGED <<cfg, date, file, output, nsqd, consumer, logChan, disc, logger, pending,
                     used>>
  BY FileFacts DEF Unlink, OpenInv, FType
<1>2. w \in Name /\ o \in {"stale", "nil"}
  BY <1>1, NameType
<1>3. PICK q \in Name : output[q] = f.id
  BY <1>1 DEF OpenInv
<1> HIDE DEF w, o
<1>4. \A n \in Name : work'[n] = IF n = w THEN 0 ELSE work[n]
  BY <1>1, <1>2 DEF DirType
<1>5. /\ f'.out = o /\ f'.gz = << >> /\ f'.id = f.id
      /\ f' \in [out : {"nil", "open", "stale"}, id : 0..Len(file), date : -1..MaxDate,
                 rev : 0..MaxRev, size : Nat, gz : Seq(Entry)]
  BY <1>1, <1>2 DEF FType, OpenInv
<1>6. r'.pc = r.then /\ r'.closeFile = r.closeFile /\ r'.then = r.then /\ RType'
        /\ r.then \in {"select", "open", "exited"}
  BY <1>1 DEF RType, PC
<1>7. FileType' /\ DirType' /\ FType' /\ QType' /\ EnvType'
  <2>1. FileType' /\ QType' /\ EnvType'
    BY <1>1 DEF FileType, QType, EnvType
  <2>2. DirType'
    BY <1>1, <1>2, FileFacts DEF DirType
  <2>3. FType'
    BY <1>1, <1>5 DEF FType
  <2> QED  BY <2>1, <2>2, <2>3
<1>8. r.then = "open" \/ pending = << >>
  BY <1>1 DEF RouterInv, Closing
<1>9. RouterInv'
  BY <1>1, <1>6, <1>8, Bounds DEF RouterInv, Closing
<1>10. OpenInv'
  BY <1>1, <1>2, <1>5, <1>6, <1>8 DEF OpenInv
<1>11. Forward
  <2>1. Grown
    BY <1>1, FileFacts DEF Grown
  <2>2. NamesStay
    BY <1>1, <1>3, <1>4 DEF NamesStay, Named
  <2> QED  BY <1>1, <2>1, <2>2 DEF Forward, OutputStays
<1>12. KeptInv'
  <2>1. \A m : Saved(m) => Saved(m)'
    BY <1>7, <1>11, SavedStays DEF Forward
  <2>2. \A j \in 1..Len(pending) : \A m : m = pending[j] => Saved(m)
    <3>1. ASSUME NEW j \in 1..Len(pending), ~Saved(pending[j]) PROVE FALSE
      <4>1. \E k \in 1..(Len(Written) - 1) : Written[k] = pending[j]
        BY <3>1 DEF KeptInv
      <4>2. /\ Written = file[f.id].data /\ file[f.id].synced = Len(file[f.id].data)
        <5>1. file[f.id].data \in Seq(Entry) /\ f.gz = << >>
          BY <1>1, FileFacts DEF OpenInv
        <5> QED  BY <1>1, <5>1, ConcatEmpty DEF Written, OpenInv
      <4>3. Named(f.id)
        BY <1>3 DEF Named
      <4> QED  BY <1>1, <3>1, <4>1, <4>2, <4>3 DEF Saved
    <3> QED  BY <3>1
  <2> QED  BY <1>1, <1>6, <2>1, <2>2 DEF KeptInv
<1>13. MovedInv'
  <2>1. \A n \in Name : work'[n] # 0 => work'[n] = work[n]
    BY <1>4
  <2> QED  BY <1>1, <1>2, <1>5, <2>1 DEF MovedInv
<1>14. LineInv'
  BY <1>1, <1>2, <1>4, <1>5, <1>6 DEF LineInv, Exclusive, NoCrash
<1> QED  BY <1>6, <1>7, <1>9, <1>10, <1>11, <1>12, <1>13, <1>14

LEMMA OpenFileInv ==
    ASSUME Inv, OpenFile
    PROVE  Inv' /\ Forward
<1> USE DEF Inv, Types
<1>1. /\ r.pc = "open" /\ f.out # "open"
      /\ r' = [r EXCEPT !.pc = IF r.msg = NL THEN "sync" ELSE "body"]
      /\ UNCHANGED <<cfg, date, output, nsqd, consumer, logChan, disc, logger, pending, used>>
  BY DEF OpenFile, OpenInv
<1>2. PICK v \in (IF f.date = date THEN f.rev + 1 ELSE 0)..MaxRev :
          /\ Good(NameOf(date, v))
          /\ IF work[NameOf(date, v)] = 0
             THEN /\ file' = Append(file, [data |-> << >>, synced |-> 0])
                  /\ work' = [work EXCEPT ![NameOf(date, v)] = Len(file) + 1]
             ELSE UNCHANGED <<file, work>>
          /\ f' = [out |-> "open", id |-> work'[NameOf(date, v)], date |-> date, rev |-> v,
                   size |-> Len(file'[work'[NameOf(date, v)]].data), gz |-> << >>]
  BY DEF OpenFile
<1>3. v \in 0..MaxRev /\ date \in 0..MaxDate
  BY Bounds DEF FType, EnvType
<1> DEFINE n == NameOf(date, v)
<1>4. n \in Name
  BY <1>3, NameType
<1>5. /\ cfg.workdir => output[n] = 0
      /\ Exclusive => work[n] = 0
  BY <1>2 DEF Good, NotMoved, IsNew
<1>6. /\ work[n] = 0 => /\ file' = Append(file, Empty)
                        /\ work' = [work EXCEPT ![n] = Len(file) + 1]
      /\ work[n] # 0 => file' = file /\ work' = work
      /\ f' = [out |-> "open", id |-> work'[n], date |-> date, rev |-> v,
               size |-> Len(file'[work'[n]].data), gz |-> << >>]
  BY <1>2 DEF Empty
<1>7. NameOf(f.date, f.rev)' = n
  <2>1. f'.date = date /\ f'.rev = v
    BY <1>6
  <2> QED  BY <1>1, <2>1 DEF NameOf
<1> HIDE DEF n
<1>8. /\ FileType' /\ Len(file) \in Nat /\ Len(file') \in Nat /\ Len(file) <= Len(file')
      /\ \A i \in 1..Len(file) : file'[i] = file[i]
      /\ work[n] = 0 => Len(file') = Len(file) + 1 /\ file'[Len(file) + 1] = Empty
      /\ work[n] # 0 => Len(file') = Len(file)
  <2>1. CASE work[n] = 0
    BY <1>6, <2>1, NewFile, FileFacts
  <2>2. CASE work[n] # 0
    BY <1>6, <2>2, FileFacts DEF FileType
  <2> QED  BY <2>1, <2>2
<1>9. /\ \A q \in Name : work[q] \in 0..Len(file) /\ output[q] \in 0..Len(file)
      /\ \A q \in Name : work'[q] = IF q = n /\ work[n] = 0 THEN Len(file) + 1 ELSE work[q]
  BY <1>4, <1>6 DEF DirType
<1>10. DirType'
  BY <1>4, <1>6, <1>8, <1>1 DEF DirType
<1>11. /\ f'.out = "open" /\ f'.id = work'[n] /\ f'.date = date /\ f'.rev = v
       /\ f'.gz = << >> /\ f'.id \in 1..Len(file')
  BY <1>4, <1>6, <1>8, <1>9
<1>12. FType'
  <2>1. Len(file'[work'[n]].data) \in Nat
    BY <1>8, <1>11, FileFactsNext
  <2>2. work'[n] \in 0..Len(file') /\ date \in -1..MaxDate /\ v \in 0..MaxRev
    BY <1>3, <1>11
  <2> DEFINE z == Len(file'[work'[n]].data)
             i == work'[n]
  <2>3. f' = [out |-> "open", id |-> i, date |-> date, rev |-> v, size |-> z, gz |-> << >>]
    BY <1>6
  <2> HIDE DEF z, i
  <2>4. z \in Nat /\ i \in 0..Len(file') /\ << >> \in Seq(Entry)
    BY <2>1, <2>2 DEF z, i
  <2> QED  BY <2>2, <2>3, <2>4 DEF FType
<1>13. r'.pc \in {"sync", "body"} /\ (r'.pc = "body" => r'.msg \in Msg) /\ RType'
         /\ r'.closeFile = r.closeFile /\ r'.sync = r.sync
  BY <1>1 DEF RType, PC, Entry
<1>14. QType' /\ EnvType'
  BY <1>1 DEF QType, EnvType
<1>15. RouterInv'
  BY <1>1, <1>13, Bounds DEF RouterInv, Closing
<1>16. OpenInv'
  BY <1>3, <1>7, <1>11, <1>13 DEF OpenInv
<1>17. Forward
  <2>1. Grown
    BY <1>8, FileFacts DEF Grown
  <2>2. NamesStay
    BY <1>1, <1>9 DEF NamesStay, Named
  <2>3. OutputStays
    BY <1>1, <1>8, <1>9 DEF OutputStays
  <2> QED  BY <2>1, <2>2, <2>3 DEF Forward
<1>18. KeptInv'
  <2>1. \A m : Saved(m) => Saved(m)'
    BY <1>8, <1>17, SavedStays DEF Forward
  <2> QED  BY <1>1, <1>13, <2>1 DEF KeptInv
<1>19. MovedInv'
  <2>1. \A q \in Name : output[q] # f'.id
    BY <1>4, <1>5, <1>9, <1>11 DEF MovedInv
  <2>2. \A a, b \in Name : work'[a] = work'[b] /\ work'[a] # 0 => a = b
    BY <1>8, <1>9 DEF MovedInv
  <2>3. \A a, b \in Name : work'[a] # 0 /\ output[b] = work'[a] => output[a] # 0
    BY <1>8, <1>9 DEF MovedInv
  <2>4. \A q \in Name : output[q] # 0
                          => file'[output[q]].synced = Len(file'[output[q]].data)
    BY <1>8, <1>9 DEF MovedInv
  <2> QED  BY <1>1, <2>1, <2>2, <2>3, <2>4 DEF MovedInv
<1>20. LineInv'
  <2>1. Alternates(Empty.data) /\ Ends(Empty.data)
    BY DEF Alternates, Ends, Empty
  <2>2. Written' = file'[f'.id].data
    BY <1>8, <1>11, FileFactsNext, ConcatEmpty DEF Written
  <2>3. /\ (Exclusive \/ NoCrash)' <=> Exclusive \/ NoCrash
        /\ (~Exclusive /\ NoCrash)' <=> ~Exclusive /\ NoCrash
    BY <1>1 DEF Exclusive, NoCrash
  <2>4. (Exclusive \/ NoCrash)' => \A i \in 1..Len(file') : Alternates(file'[i].data)
    BY <1>8, <2>1, <2>3 DEF LineInv
  <2>5. ASSUME (~Exclusive /\ NoCrash)', NEW q \in Name, work'[q] # 0
        PROVE  Ends(file'[work'[q]].data)
    <3>1. CASE work'[q] = work[q]
      BY <1>1, <1>8, <1>9, <2>3, <2>5, <3>1 DEF LineInv
    <3>2. CASE work'[q] # work[q]
      BY <1>8, <1>9, <2>1, <2>5, <3>2
    <3> QED  BY <3>1, <3>2
  <2>6. ASSUME (Exclusive \/ NoCrash)' PROVE Ends(file'[f'.id].data)
    <3>1. CASE work[n] = 0
      BY <1>4, <1>8, <1>9, <1>11, <2>1, <3>1
    <3>2. CASE work[n] # 0
      <4>1. (~Exclusive /\ NoCrash)'
        BY <1>5, <2>3, <2>6, <3>2
      <4> QED  BY <1>4, <1>9, <1>11, <2>5, <3>2, <4>1
    <3> QED  BY <3>1, <3>2
  <2> QED  BY <1>11, <2>2, <2>4, <2>5, <2>6 DEF LineInv
<1> QED  BY <1>8, <1>10, <1>12, <1>13, <1>14, <1>15, <1>16, <1>17, <1>18, <1>19,
           <1>20

-----------------------------------------------------------------------------
(* router: the writes, the sync and the answers.                            *)

LEMMA AlternatesAppend ==
    ASSUME NEW d \in Seq(Entry), NEW x \in Entry, Alternates(d), Ends(d) \/ x = NL
    PROVE  Alternates(Append(d, x)) /\ (x = NL => Ends(Append(d, x)))
<1>1. /\ Len(d) \in Nat /\ Len(Append(d, x)) = Len(d) + 1
      /\ Append(d, x)[Len(d) + 1] = x
      /\ \A k \in 1..Len(d) : Append(d, x)[k] = d[k]
  BY AppendProperties, LenProperties
<1>2. Len(d) > 0 => d[Len(d)] = NL \/ x = NL
  BY <1>1 DEF Ends
<1>3. ASSUME NEW k \in 1..(Len(Append(d, x)) - 1)
      PROVE  Append(d, x)[k] = NL \/ Append(d, x)[k + 1] = NL
  <2>1. CASE k = Len(d)
    BY <1>1, <1>2, <1>3, <2>1
  <2>2. CASE k < Len(d)
    BY <1>1, <1>3, <2>2 DEF Alternates
  <2> QED  BY <1>1, <1>3, <2>1, <2>2
<1> QED  BY <1>1, <1>3 DEF Alternates, Ends

\* What a Write does to the open file, whether it is compressed or not.
LEMMA WriteStep ==
    ASSUME Inv, f.out = "open", r.pc \in {"body", "newline"}, cfg' = cfg,
           NEW x \in Entry, Write(x)
    PROVE  /\ FileType' /\ Len(file') = Len(file) /\ FType' /\ Grown
           /\ f'.out = "open" /\ f'.id = f.id /\ f'.date = f.date /\ f'.rev = f.rev
           /\ f.id \in 1..Len(file)
           /\ ~cfg.gzip => f'.gz = << >>
           /\ \A j \in 1..Len(file) : j # f.id => file'[j] = file[j]
           /\ Written \in Seq(Entry) /\ Written' = Append(Written, x)
           /\ IF cfg.gzip THEN file' = file ELSE file'[f.id].data = Append(Written, x)
<1> USE DEF Inv, Types
<1>1. f.id > 0
  BY DEF OpenInv
<1>2. /\ f.id \in 1..Len(file) /\ f.gz \in Seq(Entry) /\ file[f.id].data \in Seq(Entry)
      /\ Written \in Seq(Entry)
  BY <1>1, WrittenFacts
<1>3. CASE cfg.gzip
  <2>1. file' = file /\ f' = [f EXCEPT !.gz = Append(@, x), !.size = @ + 1]
    BY <1>3 DEF Write
  <2>2. FileType' /\ Grown
    BY <2>1, FileFacts DEF FileType, Grown
  <2> DEFINE g == Append(f.gz, x)
  <2>3. g \in Seq(Entry)
    BY <1>2
  <2>4. f' = [f EXCEPT !.gz = g, !.size = @ + 1]
    BY <2>1
  <2> HIDE DEF g
  <2>5. /\ f'.out = "open" /\ f'.id = f.id /\ f'.date = f.date /\ f'.rev = f.rev
        /\ f'.gz = g
    BY <2>4 DEF FType
  <2>6. FType'
    <3> DEFINE z == f.size + 1
    <3>1. z \in Nat /\ f' = [f EXCEPT !.gz = g, !.size = z] /\ Len(file') = Len(file)
      BY <2>1, <2>4 DEF FType
    <3> HIDE DEF z
    <3> QED  BY <2>3, <3>1 DEF FType
  <2>7. Written' = Append(Written, x)
    <3>1. Written' = file[f.id].data \o Append(f.gz, x)
      BY <2>1, <2>5 DEF Written, g
    <3> DEFINE a == file[f.id].data
               b == f.gz
    <3>2. a \in Seq(Entry) /\ b \in Seq(Entry) /\ Written = a \o b
            /\ Written' = a \o Append(b, x)
      BY <1>2, <3>1 DEF Written
    <3> HIDE DEF a, b
    <3>3. a \o Append(b, x) = Append(a \o b, x)
      BY <3>2, ConcatAppend
    <3> QED  BY <3>2, <3>3
  <2> QED  BY <1>2, <1>3, <2>1, <2>2, <2>5, <2>6, <2>7
<1>4. CASE ~cfg.gzip
  <2>1. /\ file' = [file EXCEPT ![f.id].data = Append(@, x)]
        /\ f' = [f EXCEPT !.size = @ + 1]
    BY <1>4 DEF Write
  <2>2. f.gz = << >> /\ Written = file[f.id].data
    BY <1>2, <1>4, ConcatEmpty DEF OpenInv, Written
  <2> DEFINE d == Append(file[f.id].data, x)
  <2>3. /\ FileType' /\ Len(file') = Len(file)
        /\ \A j \in 1..Len(file) : j # f.id => file'[j] = file[j]
        /\ file'[f.id] = [data |-> d, synced |-> file[f.id].synced]
    BY <1>1, <2>1, AppendedFile
  <2>4. /\ d \in Seq(Entry)
        /\ \A k \in 1..Len(file[f.id].data) : d[k] = file[f.id].data[k]
    BY <1>2, AppendProperties
  <2>5. d = Append(Written, x)
    BY <2>2
  <2> HIDE DEF d
  <2>6. file'[f.id].data = d /\ file'[f.id].synced = file[f.id].synced
    BY <2>3
  <2>7. Grown
    <3>1. ASSUME NEW i \in 1..Len(file)
          PROVE  /\ file[i].synced <= file'[i].synced
                 /\ \A k \in 1..file[i].synced : file'[i].data[k] = file[i].data[k]
      <4>1. /\ file[i].synced \in Nat /\ file[i].synced <= Len(file[i].data)
            /\ Len(file[i].data) \in Nat
        BY <3>1, FileFacts
      <4>2. CASE i = f.id
        <5>1. \A k \in 1..file[i].synced : k \in 1..Len(file[i].data)
          BY <4>1
        <5> QED  BY <2>4, <2>6, <4>1, <4>2, <5>1
      <4>3. CASE i # f.id
        BY <2>3, <3>1, <4>1, <4>3
      <4> QED  BY <4>2, <4>3
    <3> QED  BY <2>3, <3>1, FileFacts DEF Grown
  <2>8. /\ f'.out = "open" /\ f'.id = f.id /\ f'.date = f.date /\ f'.rev = f.rev
        /\ f'.gz = << >>
    BY <2>1, <2>2 DEF FType
  <2>9. FType'
    <3> DEFINE z == f.size + 1
    <3>1. z \in Nat /\ f' = [f EXCEPT !.size = z] /\ Len(file') = Len(file)
      BY <2>1, <2>3 DEF FType
    <3> HIDE DEF z
    <3> QED  BY <3>1 DEF FType
  <2>10. Written' = d
    BY <2>4, <2>6, <2>8, ConcatEmpty DEF Written
  <2> QED  BY <1>2, <1>4, <2>3, <2>5, <2>6, <2>7, <2>8, <2>9, <2>10
<1> QED  BY <1>3, <1>4

\* The parts of the invariant that a Write leaves as they are, wherever router is.
LEMMA WriteKeeps ==
    ASSUME Inv, f.out = "open", r.pc \in {"body", "newline"},
           UNCHANGED <<cfg, date, dirs, finished, used>>, NEW x \in Entry, Write(x),
           r'.pc \notin {"link", "remove", "bumped"}
    PROVE  /\ DirType' /\ EnvType' /\ MovedInv' /\ Forward
           /\ \A m : Saved(m) => Saved(m)'
           /\ work'[NameOf(f.date, f.rev)'] = f'.id /\ f'.id > 0 /\ f'.date >= 0
<1> USE DEF Inv, Types
<1>1. /\ FileType' /\ Len(file') = Len(file) /\ Grown
      /\ f'.out = "open" /\ f'.id = f.id /\ f'.date = f.date /\ f'.rev = f.rev
      /\ \A j \in 1..Len(file) : j # f.id => file'[j] = file[j]
  BY WriteStep
<1>2. DirType' /\ EnvType'
  BY <1>1 DEF DirType, EnvType
<1>3. \A n \in Name : output[n] # f.id /\ (output[n] # 0 => file'[output[n]] = file[output[n]])
  BY <1>1 DEF MovedInv, DirType
<1>4. MovedInv'
  BY <1>1, <1>3 DEF MovedInv
<1>5. Forward
  BY <1>1, <1>3 DEF Forward, NamesStay, Named, OutputStays
<1>6. \A m : Saved(m) => Saved(m)'
  BY <1>1, <1>5, SavedStays DEF Forward
<1>7. work'[NameOf(f.date, f.rev)'] = f'.id /\ f'.id > 0 /\ f'.date >= 0
  BY <1>1 DEF OpenInv, NameOf
<1> QED  BY <1>2, <1>4, <1>5, <1>6, <1>7

\* Lines: the message is behind a newline or at the start, the newline behind it.
LEMMA WriteLines ==
    ASSUME Inv, f.out = "open", UNCHANGED <<cfg, dirs, used>>,
           NEW x \in Entry, Write(x),
           \/ r.pc = "body" /\ r'.pc = "newline"
           \/ r.pc = "newline" /\ r'.pc = "sync" /\ x = NL
    PROVE  LineInv'
<1> USE DEF Inv, Types
<1>1. /\ FileType' /\ Len(file') = Len(file) /\ f'.id = f.id /\ f.id \in 1..Len(file)
      /\ \A j \in 1..Len(file) : j # f.id => file'[j] = file[j]
      /\ Written \in Seq(Entry) /\ Written' = Append(Written, x)
      /\ IF cfg.gzip THEN file' = file ELSE file'[f.id].data = Append(Written, x)
  BY WriteStep
<1>2. /\ (Exclusive \/ NoCrash)' <=> Exclusive \/ NoCrash
      /\ (~Exclusive /\ NoCrash)' <=> ~Exclusive /\ NoCrash
  BY DEF Exclusive, NoCrash
<1>3. ASSUME Exclusive \/ NoCrash
      PROVE  Alternates(Written') /\ (x = NL => Ends(Written'))
  BY <1>1, <1>3, AlternatesAppend DEF LineInv
<1>4. ASSUME Exclusive \/ NoCrash, NEW i \in 1..Len(file') PROVE Alternates(file'[i].data)
  <2>1. CASE file'[i] = file[i]
    BY <1>1, <1>4, <2>1 DEF LineInv
  <2>2. CASE i = f.id /\ ~cfg.gzip
    BY <1>1, <1>3, <1>4, <2>2
  <2> QED  BY <1>1, <1>4, <2>1, <2>2
<1>5. ASSUME ~Exclusive /\ NoCrash, NEW n \in Name, work[n] # 0,
             ~(r'.pc = "newline" /\ f'.id = work[n])
      PROVE  Ends(file'[work[n]].data)
  <2>1. ~cfg.gzip
    BY <1>5 DEF Exclusive
  <2>2. CASE work[n] = f.id
    BY <1>1, <1>3, <1>5, <2>1, <2>2
  <2>3. CASE work[n] # f.id
    <3>1. file'[work[n]] = file[work[n]]
      BY <1>1, <1>5, <2>3 DEF DirType
    <3> QED  BY <1>5, <2>3, <3>1 DEF LineInv
  <2> QED  BY <2>2, <2>3
<1> QED  BY <1>2, <1>3, <1>4, <1>5 DEF LineInv

LEMMA WriteBodyInv ==
    ASSUME Inv, WriteBody
    PROVE  Inv' /\ Forward
<1> USE DEF Inv, Types
<1>1. CASE f.out = "stale"
  BY <1>1, GoneInv DEF WriteBody
<1>2. CASE f.out # "stale"
  <2>1. /\ r.pc = "body" /\ Write(r.msg) /\ r' = [r EXCEPT !.pc = "newline"]
        /\ UNCHANGED <<cfg, date, dirs, nsqd, logChan, logger, pending, used>>
    BY <1>2 DEF WriteBody
  <2>2. f.out = "open" /\ r.msg \in Msg /\ r.msg \in Entry
    BY <1>2, <2>1 DEF OpenInv, FType, RType, Entry
  <2>3. r'.pc = "newline" /\ r'.msg = r.msg /\ r'.closeFile = r.closeFile /\ RType'
    BY <2>1, <2>2 DEF RType, PC
  <2>4. /\ FileType' /\ FType' /\ f'.out = "open" /\ (~cfg.gzip => f'.gz = << >>)
        /\ Written \in Seq(Entry) /\ Written' = Append(Written, r.msg)
    BY <2>1, <2>2, WriteStep
  <2>5. /\ DirType' /\ EnvType' /\ MovedInv' /\ Forward
        /\ \A m : Saved(m) => Saved(m)'
        /\ work'[NameOf(f.date, f.rev)'] = f'.id /\ f'.id > 0 /\ f'.date >= 0
    BY <2>1, <2>2, <2>3, WriteKeeps
  <2>6. QType'
    BY <2>1 DEF QType
  <2>7. RouterInv'
    BY <2>1, <2>3 DEF RouterInv, Closing
  <2>8. OpenInv'
    BY <2>1, <2>3, <2>4, <2>5 DEF OpenInv
  <2>9. KeptInv'
    <3>1. /\ Len(Written) \in Nat /\ Len(Written') = Len(Written) + 1
          /\ Written'[Len(Written) + 1] = r.msg
          /\ \A k \in 1..Len(Written) : Written'[k] = Written[k]
      BY <2>2, <2>4, AppendProperties, LenProperties
    <3>2. Written' # << >>
      BY <2>2, <2>4, AppendProperties
    <3>3. \A k \in 1..(Len(Written) - 1) :
             k \in 1..(Len(Written') - 1) /\ Written'[k] = Written[k]
      BY <3>1
    <3>4. Written'[Len(Written')] = r'.msg
      BY <2>3, <3>1
    <3> QED  BY <2>1, <2>3, <2>4, <2>5, <3>2, <3>3, <3>4 DEF KeptInv
  <2>10. LineInv'
    BY <2>1, <2>2, <2>3, WriteLines
  <2> QED  BY <2>3, <2>4, <2>5, <2>6, <2>7, <2>8, <2>9, <2>10
<1> QED  BY <1>1, <1>2

LEMMA WriteNewlineInv ==
    ASSUME Inv, WriteNewline
    PROVE  Inv' /\ Forward
<1> USE DEF Inv, Types
<1>1. /\ r.pc = "newline" /\ Write(NL) /\ pending' = Append(pending, r.msg)
      /\ r' = [r EXCEPT !.pc = "sync", !.msg = NL, !.sync = @ \/ Len(pending') = FullAt]
      /\ UNCHANGED <<cfg, date, dirs, nsqd, logChan, logger, used>>
  BY DEF WriteNewline
<1>2. f.out = "open" /\ r.msg \in Msg /\ NL \in Entry
  BY <1>1 DEF OpenInv, RType, Entry
<1>3. /\ Len(pending) \in Nat /\ pending' \in Seq(Msg) /\ Len(pending') = Len(pending) + 1
      /\ pending'[Len(pending) + 1] = r.msg
      /\ \A j \in 1..Len(pending) : pending'[j] = pending[j]
  BY <1>1, <1>2, AppendProperties, LenProperties DEF QType
<1>4. RType' /\ r'.pc = "sync" /\ r'.closeFile = r.closeFile
        /\ (Len(pending') = MaxInFlight => r'.sync)
  <2> DEFINE full == Len(pending') = FullAt
  <2>1. r' = [r EXCEPT !.pc = "sync", !.msg = NL, !.sync = @ \/ full] /\ full \in BOOLEAN
          /\ (Len(pending') = MaxInFlight => full)
    BY <1>1 DEF FullAt
  <2> HIDE DEF full
  <2>2. RType' /\ r'.pc = "sync" /\ r'.closeFile = r.closeFile /\ (full => r'.sync)
    BY <1>2, <2>1 DEF RType, PC
  <2> QED  BY <2>1, <2>2
<1>5. /\ FileType' /\ FType' /\ f'.out = "open" /\ (~cfg.gzip => f'.gz = << >>)
      /\ Written \in Seq(Entry) /\ Written' = Append(Written, NL)
  BY <1>1, <1>2, WriteStep
<1>6. /\ DirType' /\ EnvType' /\ MovedInv' /\ Forward
      /\ \A m : Saved(m) => Saved(m)'
      /\ work'[NameOf(f.date, f.rev)'] = f'.id /\ f'.id > 0 /\ f'.date >= 0
  BY <1>1, <1>2, <1>4, WriteKeeps
<1>7. QType'
  BY <1>1, <1>3 DEF QType
<1>8. RouterInv'
  <2>1. Len(pending) < MaxInFlight /\ ~r.closeFile /\ logger = "on"
    BY <1>1 DEF RouterInv
  <2>2. Len(pending') <= MaxInFlight
    BY <1>3, <2>1, Bounds
  <2> QED  BY <1>1, <1>4, <2>1, <2>2 DEF RouterInv, Closing
<1>9. OpenInv'
  BY <1>1, <1>4, <1>5, <1>6 DEF OpenInv
<1>10. KeptInv'
  <2>1. /\ Len(Written) \in Nat /\ Len(Written') = Len(Written) + 1
        /\ \A k \in 1..Len(Written) : Written'[k] = Written[k]
    BY <1>2, <1>5, AppendProperties, LenProperties
  <2>2. Len(Written) > 0 /\ Written[Len(Written)] = r.msg
    BY <1>1, <1>5, <2>1 DEF KeptInv
  <2>3. \A k \in 1..(Len(Written) - 1) :
           k \in 1..(Len(Written') - 1) /\ Written'[k] = Written[k]
    BY <2>1
  <2>4. \E k \in 1..(Len(Written') - 1) : Written'[k] = r.msg
    BY <2>1, <2>2
  <2>5. ASSUME NEW j \in 1..Len(pending'), NEW m, m = pending'[j]
        PROVE  Saved(m)' \/ \E k \in 1..(Len(Written') - 1) : Written'[k] = m
    <3>1. CASE j = Len(pending) + 1
      BY <1>3, <2>4, <2>5, <3>1
    <3>2. CASE j # Len(pending) + 1
      <4>1. j \in 1..Len(pending) /\ m = pending[j]
        BY <1>3, <2>5, <3>2
      <4>2. Saved(m) \/ \E k \in 1..(Len(Written) - 1) : Written[k] = m
        BY <4>1 DEF KeptInv
      <4> QED  BY <1>6, <2>3, <4>2
    <3> QED  BY <3>1, <3>2
  <2>6. \A m \in finished' : Saved(m)'
    BY <1>1, <1>6 DEF KeptInv
  <2> QED  BY <1>4, <1>5, <2>5, <2>6 DEF KeptInv
<1>11. LineInv'
  BY <1>1, <1>2, <1>4, WriteLines
<1> QED  BY <1>4, <1>5, <1>6, <1>7, <1>8, <1>9, <1>10, <1>11

LEMMA SyncStepInv ==
    ASSUME Inv, SyncStep
    PROVE  Inv' /\ Forward
<1> USE DEF Inv, Types
<1>1. /\ r.pc = "sync"
      /\ UNCHANGED <<cfg, date, dirs, nsqd, logChan, logger, pending, used>>
  BY DEF SyncStep
<1>2. PICK starved \in BOOLEAN :
          IF (r.sync \/ starved) /\ pending # << >>
          THEN /\ file' = Synced
               /\ f' = [f EXCEPT !.gz = << >>]
               /\ r' = [r EXCEPT !.pc = "finish", !.sync = FALSE]
          ELSE /\ r' = Onward([r EXCEPT !.sync = @ /\ ~(r.sync \/ starved)])
               /\ UNCHANGED <<file, f>>
  BY DEF SyncStep
<1>3. QType'
  BY <1>1 DEF QType
<1>4. CASE (r.sync \/ starved) /\ pending # << >>
  <2>1. f.out = "open" /\ file' = Fsynced
    BY <1>1, <1>2, <1>4 DEF OpenInv, Synced
  <2>2. f' = [f EXCEPT !.gz = << >>, !.out = "open"]
    BY <1>2, <1>4, <2>1 DEF FType
  <2>3. r' = [r EXCEPT !.pc = "finish", !.sync = FALSE]
    BY <1>2, <1>4
  <2>4. RType' /\ r'.pc = "finish"
    BY <2>3 DEF RType, PC
  <2>5. RouterInv'
    BY <1>1, <1>4, <2>4 DEF RouterInv, Closing
  <2> QED  BY <1>1, <1>3, <2>1, <2>2, <2>4, <2>5, FsyncInv
<1>5. CASE ~((r.sync \/ starved) /\ pending # << >>)
  <2> DEFINE q == [r EXCEPT !.sync = FALSE]
  <2>1. r' = Onward(q) /\ UNCHANGED <<file, f>>
    <3>1. r.sync \in BOOLEAN /\ (r.sync /\ ~(r.sync \/ starved)) = FALSE
      BY DEF RType
    <3> QED  BY <1>2, <1>5, <3>1
  <2>2. r.closeFile => pending = << >>
    BY <1>1, <1>5 DEF RouterInv
  <2>3. q.closeFile = r.closeFile
    BY DEF RType
  <2>4. Len(pending) \in Nat /\ (pending # << >> => Len(pending) > 0)
    BY LenProperties DEF QType
  <2>5. Len(pending) < MaxInFlight
    <3>1. r.sync => pending = << >>
      BY <1>5
    <3>2. CASE pending = << >>
      BY <3>2, Bounds
    <3>3. CASE pending # << >>
      BY <1>1, <2>4, <3>1, <3>3, Bounds DEF RouterInv
    <3> QED  BY <3>2, <3>3
  <2> HIDE DEF q
  <2>6. q \in {r, [r EXCEPT !.sync = FALSE]}
    BY DEF q
  <2>7. RType' /\ QType' /\ RouterInv' /\ r'.pc \in {"close", "exited", "select"}
    BY <1>1, <1>3, <2>1, <2>2, <2>3, <2>4, <2>5, <2>6, OnwardInv DEF QType
  <2>8. used' \in [Kind -> Nat] /\ (NoCrash' => NoCrash)
    BY <1>1 DEF EnvType, NoCrash
  <2>9. pending # << >> => f.out = "open"
    BY <1>1 DEF OpenInv
  <2> QED  BY <1>1, <2>1, <2>7, <2>8, <2>9, RouterStep
<1> QED  BY <1>4, <1>5

LEMMA FinishInv ==
    ASSUME Inv, Finish
    PROVE  /\ Inv' /\ Forward /\ UNCHANGED <<file, dirs>>
           /\ \/ finished' = finished
              \/ \E m \in Msg : finished' = finished \cup {m} /\ Saved(m)
<1> USE DEF Inv, Types
<1>1. /\ r.pc = "finish" /\ pending # << >> /\ f.out = "open"
      /\ pending' = Front(pending)
      /\ r' = IF pending' = << >> THEN Onward(r) ELSE r
      /\ UNCHANGED <<cfg, date, file, dirs, logChan, logger, f, used>>
  BY DEF Finish, RouterInv, OpenInv
<1>2. Len(pending) \in Nat /\ Len(pending) > 0 /\ pending \in Seq(Msg)
  BY <1>1, LenProperties DEF QType
<1>3. /\ Last(pending) \in Msg
      /\ \A m : m = Last(pending) => Saved(m)
  BY <1>1, <1>2 DEF Last, KeptInv
<1>4. finished' = finished \/ finished' = finished \cup {Last(pending)}
  BY DEF Finish
<1>5. /\ pending' \in Seq(Msg) /\ Len(pending') = Len(pending) - 1
      /\ \A j \in 1..Len(pending') : pending'[j] = pending[j]
  <2> DEFINE n == Len(pending) - 1
  <2>1. n \in 0..Len(pending) /\ pending' = SubSeq(pending, 1, n)
    BY <1>1, <1>2 DEF Front
  <2> HIDE DEF n
  <2>2. /\ SubSeq(pending, 1, n) \in Seq(Msg) /\ Len(SubSeq(pending, 1, n)) = n
        /\ \A k \in 1..n : SubSeq(pending, 1, n)[k] = pending[k]
    BY <1>2, <2>1, Prefix
  <2> QED  BY <2>1, <2>2 DEF n
<1>6. Len(pending') < MaxInFlight /\ Len(pending') <= Len(pending)
  BY <1>2, <1>5, Bounds DEF RouterInv
<1>7. /\ RType' /\ QType' /\ RouterInv'
      /\ r'.pc = "finish" \/ (pending' = << >> /\ r'.pc \in {"close", "exited", "select"})
  <2>1. CASE pending' = << >>
    BY <1>1, <1>5, <1>6, <2>1, OnwardInv
  <2>2. CASE pending' # << >>
    <3>1. r' = r /\ logChan' = logChan
      BY <1>1, <2>2
    <3>2. RType' /\ r'.pc = "finish"
      BY <1>1, <3>1 DEF RType
    <3>3. QType'
      BY <1>5, <3>1 DEF QType
    <3>4. Len(pending') <= MaxInFlight
      BY <1>2, <1>5, <1>6, Bounds
    <3>5. RouterInv'
      BY <1>1, <2>2, <3>1, <3>4 DEF RouterInv, Closing
    <3> QED  BY <3>2, <3>3, <3>5
  <2> QED  BY <2>1, <2>2
<1>8. FileType' /\ DirType' /\ FType' /\ EnvType'
  BY <1>1 DEF FileType, DirType, FType, EnvType
<1>9. OpenInv'
  BY <1>1, <1>7 DEF OpenInv, NameOf
<1>10. KeptInv'
  <2>1. \A m : Saved(m) => Saved(m)'
    BY <1>1 DEF Saved, Named
  <2>2. \A m \in finished' : Saved(m)'
    BY <1>3, <1>4, <2>1 DEF KeptInv
  <2>3. ASSUME NEW j \in 1..Len(pending'), NEW m, m = pending'[j] PROVE Saved(m)'
    <3>1. j \in 1..Len(pending) /\ m = pending[j]
      BY <1>2, <1>5, <2>3
    <3> QED  BY <1>1, <2>1, <3>1 DEF KeptInv
  <2> QED  BY <1>7, <2>2, <2>3 DEF KeptInv
<1>11. MovedInv'
  BY <1>1, <1>7 DEF MovedInv
<1>12. LineInv'
  <2>1. Written' = Written
    BY <1>1 DEF Written
  <2> QED  BY <1>1, <1>7, <2>1 DEF LineInv, Exclusive, NoCrash
<1> QED  BY <1>1, <1>3, <1>4, <1>7, <1>8, <1>9, <1>10, <1>11, <1>12, StillForward

-----------------------------------------------------------------------------
(* The theorems.                                                            *)

LEMMA RouterActions ==
    ASSUME Inv, Router
    PROVE  Inv' /\ Forward
BY SelectInv, CloseFileInv, LinkInv, UnlinkInv, OpenFileInv, WriteBodyInv, WriteNewlineInv,
   SyncStepInv, FinishInv DEF Router

LEMMA NextInv ==
    ASSUME Inv, [Next]_vars
    PROVE  Inv' /\ Forward
<1>1. CASE Clock \/ StopConsumer \/ Restart \/ UpdateTopics \/ Signal
  BY <1>1, EnvironmentInv
<1>2. CASE \E m \in Msg : HandleMessage(m) \/ TimedOut(m)
  BY <1>2, EnvironmentInv
<1>3. CASE Crash \/ Ended
  BY <1>3, GoneInv
<1>4. CASE \E n \in Name : OtherFile(n)
  BY <1>4, OtherFileInv
<1>5. CASE \E k \in 1..(2 * MaxInFlight) : PowerFail(k)
  BY <1>5, PowerFailInv
<1>6. CASE Router
  BY <1>6, RouterActions
<1>7. CASE UNCHANGED vars
  BY <1>7, QuietStep DEF vars, Inv, Types, QType, EnvType, NoCrash
<1> QED  BY <1>1, <1>2, <1>3, <1>4, <1>5, <1>6, <1>7 DEF Next

\* The invariant router's code maintains, for every set of messages, configuration and
\* bound, and although the process may die between any two steps.
THEOREM RouterInvariant == Spec => []Inv
<1>1. Inv /\ [Next]_vars => Inv'
  BY NextInv
<1> QED  BY InitInv, <1>1, PTL DEF Spec

\* Type correctness: in particular `output` is never written past its end, although
\* messages may time out and come again while they are in it, and router never
\* finishes or syncs with its file closed.
THEOREM TypeCorrect == Spec => []TypeOK
<1>1. Inv => TypeOK
  <2> SUFFICES ASSUME Inv PROVE TypeOK
    OBVIOUS
  <2> USE DEF Inv, Types
  <2>1. f.out \in {"nil", "open", "stale"} /\ f.id \in 0..Len(file)
    BY DEF FType
  <2>2. \A i \in DOMAIN file : file[i].synced \in 0..Len(file[i].data)
    BY FileFacts
  <2>3. \A n \in Name : {work[n], output[n]} \subseteq 0..Len(file)
    BY DEF DirType
  <2>4. Len(pending) \in 0..MaxInFlight
    BY LenProperties, Bounds DEF QType, RouterInv
  <2> QED  BY <2>1, <2>2, <2>3, <2>4 DEF TypeOK, OpenInv
<1> QED  BY <1>1, RouterInvariant, PTL

\* A file of the output directory is complete when it appears, and neither replaced nor
\* written to again: whatever the rotations, the renames and the other processes do,
\* and also when the process dies between the link and the removal.
THEOREM OutputIsFinal == Spec => OutputFinal
<1>1. Inv /\ [Next]_vars => [OutputStays]_<<output, file>>
  BY NextInv DEF Forward
<1> QED  BY <1>1, RouterInvariant, PTL DEF Spec, OutputFinal, OutputStays

\* Only Finish tells nsqd that a message is done with.
LEMMA FinishedBy ==
    ASSUME [Next]_vars, ~Finish
    PROVE  finished' = finished
<1>1. CASE Clock \/ StopConsumer \/ Restart \/ UpdateTopics \/ Signal
  BY <1>1 DEF Clock, StopConsumer, Restart, UpdateTopics, Signal
<1>2. CASE \E m \in Msg : HandleMessage(m) \/ TimedOut(m)
  BY <1>2 DEF HandleMessage, TimedOut
<1>3. CASE Crash \/ Ended \/ \E k \in 1..(2 * MaxInFlight) : PowerFail(k)
  BY <1>3 DEF Crash, Ended, PowerFail, Gone
<1>4. CASE \E n \in Name : OtherFile(n)
  BY <1>4 DEF OtherFile
<1>5. CASE Router
  <2>1. CASE Stopped \/ Term \/ Hup \/ \E due \in BOOLEAN : Tick(due) \/ Receive(due)
    BY <2>1 DEF Stopped, Term, Hup, Tick, Receive
  <2>2. CASE Link \/ Unlink \/ OpenFile \/ SyncStep \/ WriteNewline
    BY <2>2 DEF Link, Unlink, OpenFile, SyncStep, WriteNewline
  <2>3. CASE CloseFile \/ WriteBody
    BY <2>3 DEF CloseFile, WriteBody, Die, Gone
  <2> QED  BY <1>5, <2>1, <2>2, <2>3 DEF Router
<1>6. CASE UNCHANGED vars
  BY <1>6 DEF vars
<1> QED  BY <1>1, <1>2, <1>3, <1>4, <1>5, <1>6 DEF Next

Told == finished \subseteq Msg

LEMMA ToldInvariant == Spec => []Told
<1>1. Init => Told
  BY DEF Init, Told
<1>2. Inv /\ Told /\ [Next]_vars => Told'
  <2> SUFFICES ASSUME Inv, Told, [Next]_vars PROVE Told'
    OBVIOUS
  <2>1. finished' = finished \/ \E m \in Msg : finished' = finished \cup {m}
    BY FinishInv, FinishedBy
  <2> QED  BY <2>1 DEF Told
<1> QED  BY <1>1, <1>2, RouterInvariant, PTL DEF Spec

\* A finished message is a line of its own in a file, fsynced, if files are opened
\* exclusively or no process died in the middle of a line.
THEOREM FinishedOnALine == Spec => []OwnLine
<1>1. Inv /\ Told => OwnLine
  <2> SUFFICES ASSUME Inv, Told, Exclusive \/ NoCrash, NEW m \in finished
               PROVE  \E i \in DOMAIN file : \E k \in 1..(file[i].synced - 1) :
                          /\ file[i].data[k] = m /\ file[i].data[k + 1] = NL
                          /\ k > 1 => file[i].data[k - 1] = NL
    BY DEF OwnLine, NoCrash
  <2>1. PICK i \in 1..Len(file) : \E k \in 1..(file[i].synced - 1) : file[i].data[k] = m
    BY DEF Inv, KeptInv, Saved
  <2>2. PICK k \in 1..(file[i].synced - 1) : file[i].data[k] = m
    BY <2>1
  <2> DEFINE d == file[i].data
             n == file[i].synced
  <2>3. /\ DOMAIN file = 1..Len(file) /\ n \in Nat /\ Len(d) \in Nat /\ n <= Len(d)
        /\ k \in 1..(n - 1) /\ d[k] = m
    BY <2>2, FileFacts DEF Inv, Types
  <2>4. Alternates(d) /\ m # NL
    BY Bounds DEF Inv, LineInv, Told
  <2> HIDE DEF d, n
  <2>5. d[k + 1] = NL
    BY <2>3, <2>4 DEF Alternates
  <2>6. ASSUME k > 1 PROVE d[k - 1] = NL
    <3>1. k - 1 \in 1..(Len(d) - 1) /\ (k - 1) + 1 = k
      BY <2>3, <2>6
    <3> QED  BY <2>3, <2>4, <3>1 DEF Alternates
  <2> QED  BY <2>3, <2>5, <2>6 DEF d, n
<1> QED  BY <1>1, RouterInvariant, ToldInvariant, PTL

-----------------------------------------------------------------------------
(* The refinement.                                                          *)

LEMMA SyncedRange ==
    ASSUME NEW e \in File, e.synced <= Len(e.data), NEW m
    PROVE  m \in Range(SubSeq(e.data, 1, e.synced)) <=> \E k \in 1..e.synced : e.data[k] = m
<1> DEFINE d == e.data
           n == e.synced
           c == SubSeq(d, 1, n)
<1>1. d \in Seq(Entry) /\ n \in 0..Len(d)
  BY LenProperties DEF File
<1>2. c \in Seq(Entry) /\ Len(c) = n /\ \A k \in 1..n : c[k] = d[k]
  BY <1>1, Prefix
<1> HIDE DEF c
<1>3. DOMAIN c = 1..n
  BY <1>2, LenProperties
<1>4. m \in Range(c) <=> \E k \in 1..n : d[k] = m
  BY <1>2, <1>3 DEF Range
<1> QED  BY <1>4 DEF c

LEMMA DurableIs ==
    ASSUME FileType
    PROVE  Durable = {m \in Msg : \E i \in 1..Len(file) :
                         Named(i) /\ \E k \in 1..file[i].synced : file[i].data[k] = m}
<1>1. \A i \in 1..Len(file) : \A m :
          m \in Range(SubSeq(file[i].data, 1, file[i].synced))
              <=> \E k \in 1..file[i].synced : file[i].data[k] = m
  BY FileFacts, SyncedRange
<1> QED  BY <1>1, FileFacts DEF Durable

LEMMA DurableIsNext ==
    ASSUME FileType'
    PROVE  Durable' = {m \in Msg : \E i \in 1..Len(file') :
                         Named(i)' /\ \E k \in 1..file'[i].synced : file'[i].data[k] = m}
<1>1. \A i \in 1..Len(file') : \A m :
          m \in Range(SubSeq(file'[i].data, 1, file'[i].synced))
              <=> \E k \in 1..file'[i].synced : file'[i].data[k] = m
  BY FileFactsNext, SyncedRange
<1> QED  BY <1>1, FileFactsNext DEF Durable

\* What is on disk for good stays there.
LEMMA DurableGrows ==
    ASSUME Inv, Inv', Forward
    PROVE  Durable \subseteq Durable'
<1> SUFFICES ASSUME NEW m \in Durable PROVE m \in Durable'
  OBVIOUS
<1>1. m \in Msg
  BY DEF Durable
<1>2. PICK i \in 1..Len(file) : Named(i) /\ \E k \in 1..file[i].synced : file[i].data[k] = m
  BY DurableIs DEF Inv, Types
<1>3. PICK k \in 1..file[i].synced : file[i].data[k] = m
  BY <1>2
<1> USE DEF Inv, Types, Forward
<1>4. i \in 1..Len(file') /\ Named(i)'
  BY <1>2, FileFacts, FileFactsNext DEF Grown, NamesStay
<1>5. file[i].synced \in Nat /\ file'[i].synced \in Nat /\ file[i].synced <= file'[i].synced
  BY <1>4, FileFacts, FileFactsNext DEF Grown
<1>6. k \in 1..file'[i].synced
  BY <1>5
<1>7. file'[i].data[k] = m
  BY <1>3 DEF Grown
<1> QED  BY <1>1, <1>4, <1>6, <1>7, DurableIsNext

LEMMA SavedIsDurable ==
    ASSUME Inv, NEW m \in Msg, Saved(m)
    PROVE  m \in Durable
<1>1. PICK i \in 1..Len(file) :
              Named(i) /\ \E k \in 1..(file[i].synced - 1) : file[i].data[k] = m
  BY DEF Saved
<1>2. file[i].synced \in Nat
  BY FileFacts DEF Inv, Types
<1> QED  BY <1>1, <1>2, DurableIs DEF Inv, Types

\* nsq_to_file implements Relay: a message is finished only when it has been fsynced to
\* a file that has a name, and neither a rotation, a rename, a crash nor a power
\* failure takes away what was.
THEOREM Implements == Spec => ImplementsRelay
<1>1. Init => R!Init
  BY DEF Init, R!Init, Durable
<1>2. Inv /\ [Next]_vars => [R!Next]_(R!vars)
  <2> SUFFICES ASSUME Inv, [Next]_vars
               PROVE  R!Next \/ (Durable' = Durable /\ finished' = finished)
    BY DEF R!vars
  <2>1. Inv' /\ Durable \subseteq Durable'
    BY NextInv, DurableGrows
  <2>2. CASE Finish
    <3>1. Durable' = Durable
      BY <2>2, FinishInv DEF Durable, Named
    <3>2. CASE finished' = finished
      BY <3>1, <3>2
    <3>3. CASE \E m \in Msg : finished' = finished \cup {m} /\ Saved(m)
      <4>1. \E m \in Msg : R!Finish(m)
        BY <3>1, <3>3, SavedIsDurable DEF R!Finish
      <4> QED  BY <4>1 DEF R!Next
    <3> QED  BY <2>2, <3>2, <3>3, FinishInv
  <2>3. CASE ~Finish
    <3>1. finished' = finished
      BY <2>3, FinishedBy
    <3>2. Durable' \in SUBSET Msg /\ Durable' = Durable \cup Durable'
      BY <2>1 DEF Durable
    <3>3. \E S \in SUBSET Msg : R!Store(S)
      BY <3>1, <3>2 DEF R!Store
    <3> QED  BY <3>3 DEF R!Next
  <2> QED  BY <2>2, <2>3
<1> QED  BY <1>1, <1>2, RouterInvariant, PTL DEF Spec, ImplementsRelay, R!Spec
=============================================================================
