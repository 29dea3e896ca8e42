--------------------------- MODULE DiskQueueProofs ---------------------------
(***************************************************************************)
(* DiskQueue for every set of messages, every size of message, file and    *)
(* read buffer, as long as the process does not crash: operations may fail,*)
(* a write half-way too, and the queue may be emptied, closed, deleted and *)
(* started again.  The inductive invariant says where in the files each    *)
(* message of q begins; it ends when a Put writes over bytes the reader    *)
(* has buffered.                                                           *)
(***************************************************************************)
EXTENDS DiskQueue, SequenceTheorems, TLAPS

USE DEF disk, history

Types ==
    /\ pc \in {"loop", "read", "select", "down"}
    /\ d \in Positions
    /\ count \in Nat
    /\ writeFile \in {d.writeFileNum, Nil}
    /\ dataRead \in Msg \cup {Nil, Garbage}
    /\ reader \in [buf : Seq(Cell), off : Nat] \cup {Nil}
    /\ files \in [FileNum -> Seq(Cell) \cup {Nil}]
    /\ metaData \in Positions \cup {Nil}
    /\ deleting \in BOOLEAN /\ crashes \in 0 .. MaxCrashes
    /\ q \in Seq(Msg) /\ put \subseteq Msg /\ owed \subseteq Msg /\ sent \subseteq Msg

\* The place after message m, which is at position P[m] of file F[m].
Rolls(P, m) == P[m] + Size[m] > MaxBytesPerFile
NextF(F, P, m) == IF Rolls(P, m) THEN F[m] + 1 ELSE F[m]
NextP(P, m) == IF Rolls(P, m) THEN 0 ELSE P[m] + Size[m]

\* Place <<f, p>> is not after place <<g, r>>.
UpTo(f, p, g, r) == f < g \/ (f = g /\ p <= r)

\* The messages of q follow one another from the read to the write position.
Chained(F, P) ==
    /\ q = << >> => d.readFileNum = d.writeFileNum /\ d.readPos = d.writePos
    /\ q # << >> => /\ F[q[1]] = d.readFileNum /\ P[q[1]] = d.readPos
                    /\ NextF(F, P, q[Len(q)]) = d.writeFileNum
                    /\ NextP(P, q[Len(q)]) = d.writePos
    /\ \A i \in 1 .. Len(q) - 1 : /\ F[q[i + 1]] = NextF(F, P, q[i])
                                  /\ P[q[i + 1]] = NextP(P, q[i])

Ordered(F, P) ==
    /\ \A i \in 1 .. Len(q) :
          UpTo(NextF(F, P, q[i]), NextP(P, q[i]), d.writeFileNum, d.writePos)
    /\ \A i, j \in 1 .. Len(q) :
          i < j => UpTo(NextF(F, P, q[i]), NextP(P, q[i]), F[q[j]], P[q[j]])

\* Message m is in its file.
Written(F, P, m) ==
    /\ F[m] \in FileNum /\ files[F[m]] # Nil
    /\ P[m] + Size[m] <= Len(files[F[m]])
    /\ \A k \in 1 .. Size[m] : files[F[m]][P[m] + k] = <<m, k>>

Layout(F, P) == Chained(F, P) /\ Ordered(F, P) /\ \A i \in 1 .. Len(q) : Written(F, P, q[i])

\* Each message is put once.
OnceInv ==
    /\ \A i \in 1 .. Len(q) : q[i] \in put
    /\ \A i, j \in 1 .. Len(q) : q[i] = q[j] => i = j

FileInv ==
    /\ \A n \in FileNum : files[n] # Nil => n \in d.readFileNum .. d.writeFileNum
    /\ IF files[d.writeFileNum] = Nil THEN d.writePos = 0
       ELSE d.writePos <= Len(files[d.writeFileNum])
    /\ d.readFileNum <= d.writeFileNum

\* The message at the read position has not been read; or it has.
Unread == d.nextReadFileNum = d.readFileNum /\ d.nextReadPos = d.readPos
Ahead(F, P) ==
    /\ q # << >> /\ dataRead = q[1]
    /\ d.nextReadFileNum = NextF(F, P, q[1]) /\ d.nextReadPos = NextP(P, q[1])

\* The reader has buffered what follows in the file.
Buffered ==
    reader # Nil =>
        LET f == files[d.readFileNum] IN
            /\ d.nextReadFileNum = d.readFileNum
            /\ f # Nil /\ d.nextReadPos <= reader.off /\ reader.off <= Len(f)
            /\ reader.buf = SubSeq(f, d.nextReadPos + 1, reader.off)

ReadInv(F, P) ==
    /\ pc # "down" => Unread \/ Ahead(F, P)
    /\ pc = "select" => AtTail(d) \/ Ahead(F, P)

OwedInv == \A m \in owed : m \in sent \/ \E i \in 1 .. Len(q) : q[i] = m

\* What the metadata file says that a new process needs.
Same(s) ==
    /\ s.depth = d.depth
    /\ s.readFileNum = d.readFileNum /\ s.readPos = d.readPos
    /\ s.writeFileNum = d.writeFileNum /\ s.writePos = d.writePos
    /\ s.nextReadFileNum = d.readFileNum /\ s.nextReadPos = d.readPos
NoFiles == q = << >> /\ \A n \in FileNum : files[n] = Nil

ExitInv ==
    /\ deleting => NoFiles /\ (metaData = Nil \/ Same(metaData))
    /\ pc = "down" => /\ writeFile = Nil /\ reader = Nil
                      /\ \/ metaData # Nil /\ Same(metaData)
                         \/ metaData = Nil /\ NoFiles

\* What does not depend on where the messages are.
Frame == OnceInv /\ FileInv /\ Buffered /\ OwedInv /\ ExitInv /\ d.depth = Len(q)
Inv == Types /\ Frame /\ \E F, P \in [Msg -> Nat] : Layout(F, P) /\ ReadInv(F, P)

-----------------------------------------------------------------------------
(* The operators of the model.                                               *)

LEMMA MinOf ==
    ASSUME NEW x \in Int, NEW y \in Int
    PROVE  Min({x, y}) = IF x <= y THEN x ELSE y
<1>1. \E z \in {x, y} : \A w \in {x, y} : z =< w  OBVIOUS
<1>2. Min({x, y}) \in {x, y} /\ \A w \in {x, y} : Min({x, y}) =< w
  BY <1>1 DEF Min
<1> QED  BY <1>2

LEMMA MaxOf ==
    ASSUME NEW x \in Int, NEW y \in Int
    PROVE  Max({x, y}) = IF x >= y THEN x ELSE y
<1>1. \E z \in {x, y} : \A w \in {x, y} : z >= w  OBVIOUS
<1>2. Max({x, y}) \in {x, y} /\ \A w \in {x, y} : Max({x, y}) >= w
  BY <1>1 DEF Max
<1> QED  BY <1>2

LEMMA Sizes ==
    /\ \A m \in Msg : Size[m] \in Nat /\ 1 <= Size[m] /\ Size[m] <= BufSize
    /\ BufSize \in Nat /\ 1 <= BufSize /\ MaxBytesPerFile \in Nat /\ MaxFile \in Nat
BY DiskQueueAssumption

LEMMA CellsOf ==
    ASSUME NEW m \in Msg
    PROVE  /\ Cells(m) \in Seq(Cell) /\ Len(Cells(m)) = Size[m]
           /\ \A k \in 1 .. Size[m] : Cells(m)[k] = <<m, k>>
<1>1. Size[m] \in Nat /\ \A k \in 1 .. Size[m] : <<m, k>> \in Cell
  BY Sizes DEF Cell
<1>2. Cells(m) \in [1 .. Size[m] -> Cell]  BY <1>1 DEF Cells
<1>3. Cells(m) \in Seq(Cell)  BY <1>1, <1>2, SeqDef
<1> QED  BY <1>1, <1>3 DEF Cells

\* Writing in a file keeps what it has up to there.
LEMMA WriteAtPlace ==
    ASSUME NEW f \in Seq(Cell) \cup {Nil}, NEW cs \in Seq(Cell), NEW p \in Nat,
           IF f = Nil THEN p = 0 ELSE p <= Len(f)
    PROVE  /\ WriteAt(f, p, cs) \in Seq(Cell)
           /\ p + Len(cs) <= Len(WriteAt(f, p, cs))
           /\ \A i \in 1 .. p : WriteAt(f, p, cs)[i] = f[i]
           /\ \A k \in 1 .. Len(cs) : WriteAt(f, p, cs)[p + k] = cs[k]
<1> DEFINE old == IF f = Nil THEN << >> ELSE f
           c == Len(cs)
           e == Len(old)
           t == IF e >= p + c THEN e ELSE p + c
           w == [i \in 1 .. t |-> IF i \in p + 1 .. p + c THEN cs[i - p]
                                  ELSE IF i <= e THEN old[i] ELSE Hole]
<1>1. old \in Seq(Cell) /\ p <= e /\ e \in Nat
  <2>1. CASE f = Nil
    <3>1. old = << >>  BY <2>1
    <3> QED  BY <2>1, <3>1, EmptySeq
  <2>2. CASE f # Nil
    <3>1. old = f  BY <2>2
    <3> QED  BY <2>2, <3>1, LenProperties
  <2> QED  BY <2>1, <2>2
<1>2. c \in Nat /\ \A k \in 1 .. c : cs[k] \in Cell
  BY LenProperties, ElementOfSeq
<1>3. \A i \in 1 .. e : old[i] \in Cell  BY <1>1, ElementOfSeq
<1>4. t \in Nat /\ e <= t /\ p + c <= t
  <2> HIDE DEF c, e
  <2> QED  BY <1>1, <1>2
<1>5. Max({e, p + c}) = t
  <2> HIDE DEF c, e
  <2> QED  BY <1>1, <1>2, MaxOf
<1>6. WriteAt(f, p, cs) = w
  <2>1. WriteAt(f, p, cs) =
          [i \in 1 .. Max({e, p + c}) |-> IF i \in p + 1 .. p + c THEN cs[i - p]
                                          ELSE IF i <= e THEN old[i] ELSE Hole]
    BY DEF WriteAt
  <2> HIDE DEF c, e, t
  <2> QED  BY <1>5, <2>1
<1> HIDE DEF old, c, e, t
<1>7. \A i \in 1 .. p : w[i] = old[i]
  <2> SUFFICES ASSUME NEW i \in 1 .. p  PROVE w[i] = old[i]
    OBVIOUS
  <2>1. i \in 1 .. t /\ i \notin p + 1 .. p + c /\ i <= e  BY <1>1, <1>2, <1>4
  <2> QED  BY <2>1
<1>8. \A k \in 1 .. c : w[p + k] = cs[k]
  <2> SUFFICES ASSUME NEW k \in 1 .. c  PROVE w[p + k] = cs[k]
    OBVIOUS
  <2>1. p + k \in p + 1 .. p + c /\ p + k \in 1 .. t /\ (p + k) - p = k
    BY <1>2, <1>4
  <2> QED  BY <2>1
<1>9. ASSUME NEW i \in 1 .. t  PROVE w[i] \in Cell
  <2>1. CASE i \in p + 1 .. p + c
    <3>1. i - p \in 1 .. c  BY <1>2, <2>1
    <3> QED  BY <1>2, <2>1, <3>1
  <2>2. CASE i \notin p + 1 .. p + c /\ i <= e
    <3>1. i \in 1 .. e  BY <1>1, <1>4, <2>2
    <3> QED  BY <1>3, <2>2, <3>1
  <2>3. CASE i \notin p + 1 .. p + c /\ ~(i <= e)  BY <2>3 DEF Cell
  <2> QED  BY <2>1, <2>2, <2>3
<1>10. w \in Seq(Cell) /\ Len(w) = t
  <2>1. w \in [1 .. t -> Cell]  BY <1>9
  <2>2. w \in Seq(Cell)  BY <1>4, <2>1, SeqDef
  <2> QED  BY <1>4, <2>1, <2>2, LenProperties
<1>11. \A i \in 1 .. p : old[i] = f[i]
  BY DEF old
<1> HIDE DEF w
<1> QED  BY <1>4, <1>6, <1>7, <1>8, <1>10, <1>11 DEF c

\* bufio.Reader: what is buffered goes on to be what follows in the file, and is enough.
LEMMA FillReads ==
    ASSUME NEW f \in Seq(Cell), files[d.readFileNum] = f, NEW a \in Nat,
           NEW r \in [buf : Seq(Cell), off : Nat], a <= r.off, r.off <= Len(f),
           r.buf = SubSeq(f, a + 1, r.off), NEW n \in 1 .. BufSize, a + n <= Len(f)
    PROVE  LET s == Fill(r, n) IN
               /\ s \in [buf : Seq(Cell), off : Nat]
               /\ a + n <= s.off /\ s.off <= Len(f)
               /\ s.buf = SubSeq(f, a + 1, s.off)
<1> DEFINE to == Min({Len(f), r.off + BufSize})
<1>1. Len(f) \in Nat /\ r.off \in Nat /\ BufSize \in Nat /\ n \in Nat /\ 1 <= BufSize /\ n <= BufSize
  BY Sizes
<1>2. to = IF Len(f) <= r.off + BufSize THEN Len(f) ELSE r.off + BufSize
  BY <1>1, MinOf
<1>3. \A i \in a + 1 .. r.off : f[i] \in Cell
  BY <1>1, ElementOfSeq
<1>4. Len(r.buf) = r.off - a
  <2>1. Len(SubSeq(f, a + 1, r.off)) = IF a + 1 <= r.off THEN r.off - (a + 1) + 1 ELSE 0
    BY <1>1, <1>3, SubSeqProperties
  <2> QED  BY <1>1, <2>1
<1>5. CASE Len(r.buf) >= n \/ to <= r.off
  <2>1. Fill(r, n) = r  BY <1>5 DEF Fill
  <2>2. a + n <= r.off
    <3> HIDE DEF to
    <3> QED  BY <1>1, <1>2, <1>4, <1>5
  <2> QED  BY <2>1, <2>2
<1>6. CASE ~(Len(r.buf) >= n \/ to <= r.off)
  <2> DEFINE s == [buf |-> r.buf \o SubSeq(f, r.off + 1, to), off |-> to]
  <2>1. Fill(r, n) = s  BY <1>6 DEF Fill
  <2>2. to \in Nat /\ to <= Len(f) /\ r.off < to /\ a + n <= to
    <3> HIDE DEF to
    <3>1. to \in Nat /\ to <= Len(f)  BY <1>1, <1>2
    <3>2. r.off < to  BY <1>1, <1>6, <3>1
    <3> QED  BY <1>1, <1>2, <3>1, <3>2
  <2>3. /\ a + 1 \in 1 .. Len(f) + 1 /\ r.off \in (a + 1) - 1 .. Len(f) /\ to \in r.off .. Len(f)
    <3> HIDE DEF to
    <3> QED  BY <1>1, <2>2
  <2> HIDE DEF to
  <2>4. r.buf \o SubSeq(f, r.off + 1, to) = SubSeq(f, a + 1, to)
    BY <2>3, ConcatAdjacentSubSeq
  <2>5. SubSeq(f, a + 1, to) \in Seq(Cell)
    <3>1. \A i \in a + 1 .. to : f[i] \in Cell  BY <1>1, <2>2, ElementOfSeq
    <3> QED  BY <1>1, <2>2, <3>1, SubSeqProperties
  <2>6. s.buf = SubSeq(f, a + 1, to) /\ s.off = to /\ s \in [buf : Seq(Cell), off : Nat]
    BY <2>2, <2>4, <2>5
  <2> QED  BY <2>1, <2>2, <2>6
<1> QED  BY <1>5, <1>6

-----------------------------------------------------------------------------
(* readOne() reads the message at the read position.                         *)

LEMMA DataFacts ==
    ASSUME Types
    PROVE  /\ d.readFileNum \in FileNum /\ d.writeFileNum \in FileNum /\ d.nextReadFileNum \in FileNum
           /\ d.readFileNum \in Nat /\ d.writeFileNum \in Nat /\ d.nextReadFileNum \in Nat
           /\ d.readPos \in Nat /\ d.writePos \in Nat /\ d.nextReadPos \in Nat /\ d.depth \in Int
           /\ \A n \in FileNum : files[n] # Nil => files[n] \in Seq(Cell) /\ Len(files[n]) \in Nat
           /\ Len(q) \in Nat /\ \A i \in 1 .. Len(q) : q[i] \in Msg
<1>1. d \in Positions /\ MaxFile \in Nat /\ MaxBytesPerFile \in Nat
  BY Sizes DEF Types
<1>2. \A n \in FileNum : files[n] # Nil => files[n] \in Seq(Cell)  BY DEF Types
<1>3. q \in Seq(Msg)  BY DEF Types
<1> QED  BY <1>1, <1>2, <1>3, ElementOfSeq, LenProperties DEF Positions, FileNum

\* What is at the read position, and what remains buffered after it.
LEMMA ReadsHead ==
    ASSUME Types, Buffered, NEW F \in [Msg -> Nat], NEW P \in [Msg -> Nat], q # << >>,
           F[q[1]] = d.readFileNum, P[q[1]] = d.readPos, Written(F, P, q[1]),
           reader # Nil => d.nextReadPos = d.readPos
    PROVE  LET m == q[1]
               f == files[d.readFileNum]
               r == Fill(Opened, 1)
               s == Fill(r, Size[m])
           IN  /\ m \in Msg /\ Parsed = m /\ r.buf[1][1] = m /\ f \in Seq(Cell)
               /\ s \in [buf : Seq(Cell), off : Nat]
               /\ d.readPos + Size[m] <= s.off /\ s.off <= Len(f)
               /\ SubSeq(s.buf, Size[m] + 1, Len(s.buf))
                     = SubSeq(f, d.readPos + Size[m] + 1, s.off)
               /\ SubSeq(s.buf, Size[m] + 1, Len(s.buf)) \in Seq(Cell)
<1> DEFINE m == q[1]
           f == files[d.readFileNum]
           a == d.readPos
           r == Fill(Opened, 1)
           n == Size[m]
           s == Fill(r, n)
<1>1. m \in Msg /\ a \in Nat /\ n \in 1 .. BufSize /\ n \in Nat /\ 1 \in 1 .. BufSize
  <2>1. 1 \in 1 .. Len(q)  BY EmptySeq DEF Types
  <2> QED  BY <2>1, DataFacts, Sizes
<1>2. /\ f # Nil /\ f \in Seq(Cell) /\ Len(f) \in Nat /\ a + n <= Len(f)
      /\ \A k \in 1 .. n : f[a + k] = <<m, k>>
  BY DataFacts DEF Written
<1>3. /\ Opened \in [buf : Seq(Cell), off : Nat] /\ a <= Opened.off /\ Opened.off <= Len(f)
      /\ Opened.buf = SubSeq(f, a + 1, Opened.off)
  <2>1. CASE reader = Nil
    <3>1. Opened = [buf |-> << >>, off |-> a]  BY <2>1 DEF Opened
    <3>2. SubSeq(f, a + 1, a) = << >>  BY <1>1, SubSeqEmpty
    <3>3. << >> \in Seq(Cell)  BY EmptySeq
    <3>4. Opened.buf = << >> /\ Opened.off = a /\ Opened \in [buf : Seq(Cell), off : Nat]
      BY <1>1, <3>1, <3>3
    <3> QED  BY <1>1, <1>2, <3>2, <3>4
  <2>2. CASE reader # Nil
    <3>1. Opened = reader /\ d.nextReadPos = a  BY <2>2 DEF Opened
    <3> QED  BY <2>2, <3>1 DEF Buffered, Types
  <2> QED  BY <2>1, <2>2
<1>4. /\ r \in [buf : Seq(Cell), off : Nat] /\ a + 1 <= r.off /\ r.off <= Len(f)
      /\ r.buf = SubSeq(f, a + 1, r.off)
  <2>1. a + 1 <= Len(f)  BY <1>1, <1>2
  <2> DEFINE o == Opened
  <2>2. /\ o \in [buf : Seq(Cell), off : Nat] /\ a <= o.off /\ o.off <= Len(f)
        /\ o.buf = SubSeq(f, a + 1, o.off) /\ r = Fill(o, 1)
    BY <1>3
  <2> HIDE DEF a, f, o, r
  <2>3. files[d.readFileNum] = f  BY DEF f
  <2> QED  BY <1>1, <1>2, <2>1, <2>2, <2>3, FillReads
<1>5. /\ s \in [buf : Seq(Cell), off : Nat] /\ a + n <= s.off /\ s.off <= Len(f)
      /\ s.buf = SubSeq(f, a + 1, s.off)
  <2>0. r.off \in Nat /\ a <= r.off  BY <1>1, <1>4
  <2> HIDE DEF a, f, r, n
  <2>2. files[d.readFileNum] = f  BY DEF f
  <2> QED  BY <1>1, <1>2, <1>4, <2>0, <2>2, FillReads
<1>6. \A i \in a + 1 .. Len(f) : f[i] \in Cell  BY <1>1, <1>2, ElementOfSeq
<1> HIDE DEF f, a, r, n, s
<1>7. r.off \in Nat /\ s.off \in Nat  BY <1>4, <1>5
<1>8. Len(r.buf) = r.off - a /\ r.buf[1] = <<m, 1>> /\ r.buf # << >>
  <2>1. \A i \in a + 1 .. r.off : f[i] \in Cell  BY <1>1, <1>2, <1>4, <1>6, <1>7
  <2>2. /\ Len(r.buf) = IF a + 1 <= r.off THEN r.off - (a + 1) + 1 ELSE 0
        /\ \A i \in 1 .. r.off - (a + 1) + 1 : r.buf[i] = f[(a + 1) + i - 1]
    BY <1>1, <1>4, <1>7, <2>1, SubSeqProperties
  <2>3. Len(r.buf) = r.off - a /\ 1 \in 1 .. r.off - (a + 1) + 1 /\ (a + 1) + 1 - 1 = a + 1
    BY <1>1, <1>4, <1>7, <2>2
  <2>4. r.buf[1] = f[a + 1]  BY <2>2, <2>3
  <2>5. f[a + 1] = <<m, 1>>  BY <1>1, <1>2
  <2>6. r.buf # << >>  BY <1>1, <1>4, <1>7, <2>3
  <2> QED  BY <2>3, <2>4, <2>5, <2>6
<1>9. /\ Len(s.buf) = s.off - a /\ \A i \in 1 .. s.off - a : s.buf[i] = f[a + i]
  <2>1. \A i \in a + 1 .. s.off : f[i] \in Cell  BY <1>1, <1>2, <1>5, <1>6, <1>7
  <2>2. /\ Len(s.buf) = IF a + 1 <= s.off THEN s.off - (a + 1) + 1 ELSE 0
        /\ \A i \in 1 .. s.off - (a + 1) + 1 : s.buf[i] = f[(a + 1) + i - 1]
    BY <1>1, <1>5, <1>7, <2>1, SubSeqProperties
  <2>3. Len(s.buf) = s.off - a /\ s.off - (a + 1) + 1 = s.off - a
    BY <1>1, <1>5, <1>7, <2>2
  <2>4. \A i \in 1 .. s.off - a : (a + 1) + i - 1 = a + i  BY <1>1, <1>7
  <2> QED  BY <2>2, <2>3, <2>4
<1>10. SubSeq(s.buf, 1, n) = Cells(m)
  <2>1. \A i \in 1 .. n : s.buf[i] = <<m, i>>
    <3> SUFFICES ASSUME NEW i \in 1 .. n  PROVE s.buf[i] = <<m, i>>
      OBVIOUS
    <3>1. i \in 1 .. s.off - a  BY <1>1, <1>5, <1>7
    <3> QED  BY <1>2, <1>9, <3>1
  <2>2. \A i \in 1 .. n : <<m, i>> \in Cell
    <3>1. \A i \in 1 .. n : i \in 1 .. BufSize  BY <1>1, Sizes
    <3> QED  BY <1>1, <3>1 DEF Cell
  <2>3. \A i \in 1 .. n : s.buf[i] \in Cell  BY <2>1, <2>2
  <2>4. /\ SubSeq(s.buf, 1, n) \in Seq(Cell) /\ Len(SubSeq(s.buf, 1, n)) = n
        /\ \A i \in 1 .. n : SubSeq(s.buf, 1, n)[i] = s.buf[i]
    <3>1. /\ SubSeq(s.buf, 1, n) \in Seq(Cell)
          /\ Len(SubSeq(s.buf, 1, n)) = IF 1 <= n THEN n - 1 + 1 ELSE 0
          /\ \A i \in 1 .. n - 1 + 1 : SubSeq(s.buf, 1, n)[i] = s.buf[1 + i - 1]
      BY <1>1, <2>3, SubSeqProperties
    <3>2. n - 1 + 1 = n /\ \A i \in 1 .. n : 1 + i - 1 = i  BY <1>1
    <3> QED  BY <1>1, <3>1, <3>2
  <2>5. /\ Cells(m) \in Seq(Cell) /\ Len(Cells(m)) = n
        /\ \A i \in 1 .. n : Cells(m)[i] = <<m, i>>
    BY <1>1, CellsOf DEF n
  <2> DEFINE x == SubSeq(s.buf, 1, n)
             y == Cells(m)
  <2>6. /\ x \in Seq(Cell) /\ y \in Seq(Cell) /\ Len(x) = Len(y)
        /\ \A i \in 1 .. Len(x) : x[i] = y[i]
    BY <2>1, <2>4, <2>5
  <2> HIDE DEF x, y
  <2>7. x = y  BY <2>6, SeqEqual
  <2> QED  BY <2>7 DEF x, y
<1>11. Parsed = m
  <2>1. Len(s.buf) >= n /\ r.buf[1][1] = m /\ r.buf[1][2] = 1
    BY <1>1, <1>5, <1>7, <1>8, <1>9
  <2>2. files[d.readFileNum] # Nil  BY <1>2 DEF f
  <2>3. Size[r.buf[1][1]] = n  BY <2>1 DEF n
  <2> DEFINE v == r.buf[1][1]
             z == Fill(r, Size[v])
  <2>4. Parsed = IF files[d.readFileNum] = Nil \/ r.buf = << >> THEN Nil
                 ELSE IF r.buf[1][2] # 1 \/ Len(z.buf) < Size[v] THEN Nil
                 ELSE IF SubSeq(z.buf, 1, Size[v]) = Cells(v) THEN v ELSE Garbage
    BY DEF Parsed, r
  <2>5. v = m /\ z = s  BY <2>1 DEF s, n
  <2>6. Len(z.buf) >= Size[v] /\ SubSeq(z.buf, 1, Size[v]) = Cells(v)
    BY <1>10, <2>1, <2>3, <2>5
  <2>7. Len(z.buf) \in Nat /\ Size[v] \in Nat
    BY <1>1, <1>5, <2>3, <2>5, LenProperties
  <2>8. ~(Len(z.buf) < Size[v])  BY <2>6, <2>7
  <2> HIDE DEF v, z
  <2> QED  BY <1>8, <2>1, <2>2, <2>4, <2>5, <2>6, <2>8
<1>12. /\ SubSeq(s.buf, n + 1, Len(s.buf)) = SubSeq(f, a + n + 1, s.off)
       /\ SubSeq(s.buf, n + 1, Len(s.buf)) \in Seq(Cell)
  <2> DEFINE x == SubSeq(s.buf, n + 1, Len(s.buf))
             y == SubSeq(f, a + n + 1, s.off)
  <2>0. s.buf \in Seq(Cell)  BY <1>5
  <2>1. \A i \in n + 1 .. Len(s.buf) : s.buf[i] \in Cell
    <3> DEFINE b == s.buf
    <3>1. Len(b) \in Nat /\ n \in Nat /\ b \in Seq(Cell)  BY <1>1, <2>0, LenProperties
    <3> HIDE DEF b
    <3>2. \A i \in 1 .. Len(b) : b[i] \in Cell  BY <3>1, ElementOfSeq
    <3>3. \A i \in n + 1 .. Len(b) : i \in 1 .. Len(b)  BY <3>1
    <3> QED  BY <3>2, <3>3 DEF b
  <2>2. Len(s.buf) \in Nat /\ Len(s.buf) = s.off - a  BY <1>1, <1>5, <1>7, <1>9
  <2>3. /\ x \in Seq(Cell)
        /\ Len(x) = IF n + 1 <= Len(s.buf) THEN Len(s.buf) - (n + 1) + 1 ELSE 0
        /\ \A i \in 1 .. Len(s.buf) - (n + 1) + 1 : x[i] = s.buf[(n + 1) + i - 1]
    <3>1. n + 1 \in Int /\ Len(s.buf) \in Int  BY <1>1, <2>2
    <3> QED  BY <2>1, <3>1, SubSeqProperties
  <2>4. \A i \in a + n + 1 .. s.off : f[i] \in Cell
    BY <1>1, <1>2, <1>5, <1>6, <1>7
  <2>5. /\ y \in Seq(Cell)
        /\ Len(y) = IF a + n + 1 <= s.off THEN s.off - (a + n + 1) + 1 ELSE 0
        /\ \A i \in 1 .. s.off - (a + n + 1) + 1 : y[i] = f[(a + n + 1) + i - 1]
    <3>1. a + n + 1 \in Int /\ s.off \in Int  BY <1>1, <1>7
    <3> QED  BY <2>4, <3>1, SubSeqProperties
  <2>6. Len(x) = s.off - a - n /\ Len(y) = s.off - a - n
    BY <1>1, <1>5, <1>7, <2>2, <2>3, <2>5
  <2>7. ASSUME NEW i \in 1 .. Len(x)  PROVE x[i] = y[i]
    <3>1. /\ i \in 1 .. Len(s.buf) - (n + 1) + 1 /\ (n + 1) + i - 1 = n + i
          /\ i \in 1 .. s.off - (a + n + 1) + 1 /\ (a + n + 1) + i - 1 = a + (n + i)
          /\ n + i \in 1 .. s.off - a
      <4> DEFINE lb == Len(s.buf)
                 o == s.off
                 lx == Len(x)
      <4>1. a \in Nat /\ n \in Nat  BY <1>1
      <4>2. o \in Nat  BY <1>7
      <4>3. lb \in Nat /\ lb = o - a  BY <2>2
      <4>4. lx = o - a - n /\ i \in 1 .. lx  BY <2>6
      <4> HIDE DEF lb, o, lx
      <4>5. /\ i \in 1 .. lb - (n + 1) + 1 /\ (n + 1) + i - 1 = n + i
            /\ i \in 1 .. o - (a + n + 1) + 1 /\ (a + n + 1) + i - 1 = a + (n + i)
            /\ n + i \in 1 .. o - a
        BY <4>1, <4>2, <4>3, <4>4
      <4> QED  BY <4>5 DEF lb, o
    <3>2. x[i] = s.buf[n + i] /\ y[i] = f[a + (n + i)]  BY <2>3, <2>5, <3>1
    <3> QED  BY <1>9, <3>1, <3>2
  <2> HIDE DEF x, y
  <2>8. x = y  BY <2>3, <2>5, <2>6, <2>7, SeqEqual
  <2> QED  BY <2>3, <2>8 DEF x, y
<1>13. r.buf[1][1] = m  BY <1>8
<1> QED  BY <1>1, <1>2, <1>5, <1>11, <1>12, <1>13 DEF f, a, r, n, s

-----------------------------------------------------------------------------
(* Steps that leave the positions and the files as they are.                 *)

\* The read and the write position.
SameRange ==
    /\ d'.depth = d.depth
    /\ d'.readFileNum = d.readFileNum /\ d'.readPos = d.readPos
    /\ d'.writeFileNum = d.writeFileNum /\ d'.writePos = d.writePos

LEMMA LayoutKept ==
    ASSUME SameRange, UNCHANGED <<q, files>>
    PROVE  /\ FileInv => FileInv'
           /\ NoFiles => NoFiles'
           /\ d.depth = Len(q) => (d.depth = Len(q))'
           /\ AtTail(d)' <=> AtTail(d)
           /\ \A F, P \in [Msg -> Nat] : Layout(F, P) => Layout(F, P)'
<1>1. FileInv => FileInv'  BY DEF FileInv, SameRange
<1>2. NoFiles => NoFiles'  BY DEF NoFiles
<1>3. d.depth = Len(q) => (d.depth = Len(q))'  BY DEF SameRange
<1>4. AtTail(d)' <=> AtTail(d)  BY DEF AtTail, SameRange
<1>5. ASSUME NEW F \in [Msg -> Nat], NEW P \in [Msg -> Nat]
      PROVE  Layout(F, P) => Layout(F, P)'
  <2>1. Chained(F, P) => Chained(F, P)'  BY DEF Chained, SameRange, NextF, NextP, Rolls
  <2>2. Ordered(F, P) => Ordered(F, P)'  BY DEF Ordered, SameRange, NextF, NextP, Rolls, UpTo
  <2>3. \A m : Written(F, P, m) => Written(F, P, m)'  BY DEF Written
  <2> QED  BY <2>1, <2>2, <2>3 DEF Layout
<1> QED  BY <1>1, <1>2, <1>3, <1>4, <1>5

SamePlaces ==
    /\ SameRange
    /\ d'.nextReadFileNum = d.nextReadFileNum /\ d'.nextReadPos = d.nextReadPos

LEMMA Kept ==
    ASSUME SamePlaces, UNCHANGED <<q, files, put, owed, sent, reader, dataRead>>
    PROVE  /\ OnceInv => OnceInv'
           /\ Buffered => Buffered'
           /\ OwedInv => OwedInv'
           /\ Unread => Unread'
           /\ \A F, P \in [Msg -> Nat] : Ahead(F, P) => Ahead(F, P)'
<1>1. OnceInv => OnceInv'  BY DEF OnceInv
<1>2. Buffered => Buffered'  BY DEF Buffered, SamePlaces, SameRange
<1>3. OwedInv => OwedInv'  BY DEF OwedInv
<1>4. Unread => Unread'  BY DEF Unread, SamePlaces, SameRange
<1>5. ASSUME NEW F \in [Msg -> Nat], NEW P \in [Msg -> Nat]
      PROVE  Ahead(F, P) => Ahead(F, P)'
  BY DEF Ahead, SamePlaces, NextF, NextP, Rolls
<1> QED  BY <1>1, <1>2, <1>3, <1>4, <1>5

\* The metadata file as sync() writes it.
LEMMA Persisted ==
    ASSUME NEW s \in Positions, NEW u, persistMetaData(s, u),
           s.depth = d'.depth, s.readFileNum = d'.readFileNum, s.readPos = d'.readPos,
           s.writeFileNum = d'.writeFileNum, s.writePos = d'.writePos
    PROVE  metaData' \in Positions /\ metaData' # Nil /\ Same(metaData)'
<1>1. metaData' = [s EXCEPT !.needSync = FALSE, !.nextReadFileNum = s.readFileNum,
                            !.nextReadPos = s.readPos]
  BY DEF persistMetaData
<1>2. metaData' \in Positions  BY <1>1 DEF Positions
<1>3. metaData' # Nil  BY <1>2, DiskQueueAssumption
<1>4. Same(metaData)'  BY <1>1 DEF Same, Positions
<1> QED  BY <1>2, <1>3, <1>4

\* sync(), whether it succeeds or not, with the positions s.
LEMMA Synced ==
    ASSUME NEW s \in Positions, NEW fs, NEW w, NEW u, NEW keep,
           metaData \in Positions \cup {Nil},
           syncOK(s, fs, w, u, keep) \/ syncFails(s, fs, w, keep)
    PROVE  /\ d' \in Positions /\ writeFile' \in {keep, Nil}
           /\ d'.depth = s.depth
           /\ d'.readFileNum = s.readFileNum /\ d'.readPos = s.readPos
           /\ d'.writeFileNum = s.writeFileNum /\ d'.writePos = s.writePos
           /\ d'.nextReadFileNum = s.nextReadFileNum /\ d'.nextReadPos = s.nextReadPos
           /\ metaData' \in Positions \cup {Nil}
           /\ metaData' = metaData \/ Same(metaData)'
<1>1. CASE syncFails(s, fs, w, keep)
  BY <1>1 DEF syncFails
<1>2. CASE syncOK(s, fs, w, u, keep)
  <2>1. d' = [s EXCEPT !.needSync = FALSE] /\ writeFile' = keep /\ persistMetaData(s, u)
    BY <1>2 DEF syncOK
  <2>2. /\ d' \in Positions
        /\ d'.depth = s.depth
        /\ d'.readFileNum = s.readFileNum /\ d'.readPos = s.readPos
        /\ d'.writeFileNum = s.writeFileNum /\ d'.writePos = s.writePos
        /\ d'.nextReadFileNum = s.nextReadFileNum /\ d'.nextReadPos = s.nextReadPos
    BY <2>1 DEF Positions
  <2> QED  BY <2>1, <2>2, Persisted
<1> QED  BY <1>1, <1>2

\* The invariant, when neither the positions nor the files change.
LEMMA KeptInv ==
    ASSUME Inv, SamePlaces, UNCHANGED <<q, files, put, owed, sent, reader, dataRead>>,
           Types', ExitInv',
           pc' \in {"loop", "read"}, pc # "down"
    PROVE  Inv'
<1>1. Frame'
  <2>1. /\ OnceInv /\ FileInv /\ Buffered /\ OwedInv /\ d.depth = Len(q)
    BY DEF Inv, Frame
  <2>2. OnceInv' /\ FileInv' /\ Buffered' /\ OwedInv' /\ (d.depth = Len(q))'
    BY <2>1, Kept, LayoutKept DEF SamePlaces
  <2> QED  BY <2>2 DEF Frame
<1>2. PICK F, P \in [Msg -> Nat] : Layout(F, P) /\ ReadInv(F, P)  BY DEF Inv
<1>3. Layout(F, P)'  BY <1>2, LayoutKept DEF SamePlaces
<1>4. ReadInv(F, P)'
  <2>1. Unread \/ Ahead(F, P)  BY <1>2 DEF ReadInv
  <2>2. Unread' \/ Ahead(F, P)'  BY <2>1, Kept
  <2> QED  BY <2>2 DEF ReadInv
<1> QED  BY <1>1, <1>3, <1>4 DEF Inv

LEMMA LoopTopInv == ASSUME Inv, LoopTop PROVE Inv'
<1>0. Types /\ Frame  BY DEF Inv
<1>1. /\ pc = "loop" /\ pc' = "read"
      /\ UNCHANGED <<reader, dataRead, files, deleting, crashes, env, q, put, owed, sent>>
  BY DEF LoopTop
<1> DEFINE s == [d EXCEPT !.needSync = TRUE]
<1>2. s \in Positions /\ s.depth = d.depth
      /\ s.readFileNum = d.readFileNum /\ s.readPos = d.readPos
      /\ s.writeFileNum = d.writeFileNum /\ s.writePos = d.writePos
      /\ s.nextReadFileNum = d.nextReadFileNum /\ s.nextReadPos = d.nextReadPos
  BY <1>0 DEF Types, Positions
<1>3. /\ SamePlaces /\ d' \in Positions /\ writeFile' \in {writeFile, Nil} /\ count' \in Nat
      /\ metaData' \in Positions \cup {Nil}
      /\ metaData' = metaData \/ Same(metaData)'
  <2>1. CASE d.needSync \/ count = SyncEvery
    <3>1. /\ count' = 0
          /\ syncOK(s, files, writeFile, q, writeFile) \/ syncFails(s, files, writeFile, writeFile)
      BY <2>1 DEF LoopTop
    <3> HIDE DEF s
    <3> QED  BY <1>0, <1>2, <3>1, Synced DEF Types, SamePlaces, SameRange
  <2>2. CASE ~(d.needSync \/ count = SyncEvery)
    <3>1. UNCHANGED <<count, d, writeFile, metaData>>  BY <2>2 DEF LoopTop
    <3> QED  BY <1>0, <3>1 DEF Types, SamePlaces, SameRange
  <2> QED  BY <2>1, <2>2
<1>4. Types'  BY <1>0, <1>1, <1>3 DEF Types, SamePlaces, SameRange
<1>5. ExitInv'
  <2>1. SUFFICES ASSUME deleting  PROVE NoFiles' /\ (metaData' = Nil \/ Same(metaData)')
    BY <1>1 DEF ExitInv
  <2>2. NoFiles /\ (metaData = Nil \/ Same(metaData))  BY <1>0, <2>1 DEF Frame, ExitInv
  <2>3. NoFiles'  BY <1>1, <2>2 DEF NoFiles
  <2>4. Same(metaData) /\ metaData' = metaData => Same(metaData)'
    BY <1>3 DEF Same, SamePlaces, SameRange
  <2> QED  BY <1>3, <2>2, <2>3, <2>4
<1> QED  BY <1>1, <1>3, <1>4, <1>5, KeptInv

LEMMA TickInv == ASSUME Inv, Tick PROVE Inv'
<1>0. Types /\ Frame  BY DEF Inv
<1>1. /\ pc = "select" /\ pc' = "loop" /\ d' = [d EXCEPT !.needSync = TRUE]
      /\ UNCHANGED <<count, writeFile, reader, dataRead, files, metaData, deleting, crashes,
                     q, put, owed, sent>>
  BY DEF Tick
<1>2. d' \in Positions /\ SamePlaces
  BY <1>0, <1>1 DEF Types, Positions, SamePlaces, SameRange
<1>3. Types'  BY <1>0, <1>1, <1>2 DEF Types, SamePlaces, SameRange
<1>4. ExitInv'  BY <1>0, <1>1, <1>2 DEF Frame, ExitInv, Same, SamePlaces, SameRange, NoFiles
<1> QED  BY <1>1, <1>2, <1>3, <1>4, KeptInv

LEMMA CloseInv == ASSUME Inv, Close PROVE Inv'
<1>0. Types /\ Frame  BY DEF Inv
<1>1. /\ pc = "select" /\ ~deleting /\ pc' = "down" /\ writeFile' = Nil /\ reader' = Nil
      /\ persistMetaData(d, q)
      /\ UNCHANGED <<d, count, dataRead, files, deleting, crashes, q, put, owed, sent>>
  BY DEF Close, Gone
<1>2. metaData' \in Positions /\ metaData' # Nil /\ Same(metaData)'
  BY <1>0, <1>1, Persisted DEF Types
<1>3. Types'  BY <1>0, <1>1, <1>2 DEF Types
<1>4. ExitInv'  BY <1>1, <1>2 DEF ExitInv
<1>5. PICK F, P \in [Msg -> Nat] : Layout(F, P) /\ ReadInv(F, P)  BY DEF Inv
<1>6. Layout(F, P)' /\ FileInv' /\ (d.depth = Len(q))'
  <2>1. FileInv /\ d.depth = Len(q)  BY <1>0 DEF Frame
  <2>2. SameRange  BY <1>1 DEF SameRange
  <2> QED  BY <1>1, <1>5, <2>1, <2>2, LayoutKept
<1>7. ReadInv(F, P)'  BY <1>1 DEF ReadInv
<1>8. Frame'
  BY <1>0, <1>1, <1>4, <1>6 DEF Frame, OnceInv, Buffered, OwedInv
<1> QED  BY <1>3, <1>6, <1>7, <1>8 DEF Inv

LEMMA DeleteInv == ASSUME Inv, Delete PROVE Inv'
<1>0. Types /\ Frame  BY DEF Inv
<1>1. /\ pc = "select" /\ deleting /\ pc' = "down" /\ writeFile' = Nil /\ reader' = Nil
      /\ UNCHANGED <<d, count, dataRead, files, metaData, deleting, crashes, q, put, owed, sent>>
  BY DEF Delete, Gone
<1>3. Types'  BY <1>0, <1>1 DEF Types
<1>4. ExitInv'
  BY <1>0, <1>1 DEF Frame, ExitInv, NoFiles, Same
<1>5. PICK F, P \in [Msg -> Nat] : Layout(F, P) /\ ReadInv(F, P)  BY DEF Inv
<1>6. Layout(F, P)' /\ FileInv' /\ (d.depth = Len(q))'
  <2>1. FileInv /\ d.depth = Len(q)  BY <1>0 DEF Frame
  <2>2. SameRange  BY <1>1 DEF SameRange
  <2> QED  BY <1>1, <1>5, <2>1, <2>2, LayoutKept
<1>7. ReadInv(F, P)'  BY <1>1 DEF ReadInv
<1>8. Frame'
  BY <1>0, <1>1, <1>4, <1>6 DEF Frame, OnceInv, Buffered, OwedInv
<1> QED  BY <1>3, <1>6, <1>7, <1>8 DEF Inv

LEMMA RestartInv == ASSUME Inv, Restart PROVE Inv'
<1>0. Types /\ Frame  BY DEF Inv
<1>1. /\ pc = "down" /\ pc' = "loop" /\ d' = (IF metaData = Nil THEN Empty0 ELSE metaData)
      /\ count' = 0 /\ dataRead' = Nil /\ deleting' = FALSE
      /\ UNCHANGED <<writeFile, reader, files, metaData, crashes, q, put, owed, sent>>
  BY DEF Restart
<1>2. /\ writeFile = Nil /\ reader = Nil
      /\ (metaData # Nil /\ Same(metaData)) \/ (metaData = Nil /\ NoFiles)
  BY <1>0, <1>1 DEF Frame, ExitInv
<1>3. Empty0 \in Positions  BY Sizes DEF Empty0, Positions, FileNum
<1>4. Types'
  BY <1>0, <1>1, <1>2, <1>3 DEF Types
<1>5. ExitInv'  BY <1>1 DEF ExitInv
<1>6. OnceInv' /\ OwedInv' /\ Buffered'
  BY <1>0, <1>1, <1>2 DEF Frame, OnceInv, OwedInv, Buffered
<1>7. PICK F, P \in [Msg -> Nat] : Layout(F, P) /\ ReadInv(F, P)  BY DEF Inv
<1>8. CASE metaData # Nil /\ Same(metaData)
  <2>1. /\ d'.depth = d.depth
        /\ d'.readFileNum = d.readFileNum /\ d'.readPos = d.readPos
        /\ d'.writeFileNum = d.writeFileNum /\ d'.writePos = d.writePos
        /\ d'.nextReadFileNum = d.readFileNum /\ d'.nextReadPos = d.readPos
    BY <1>1, <1>8 DEF Same
  <2>2. Unread'  BY <2>1 DEF Unread
  <2>3. SameRange /\ FileInv /\ d.depth = Len(q)  BY <1>0, <2>1 DEF SameRange, Frame
  <2>4. FileInv' /\ (d.depth = Len(q))' /\ Layout(F, P)'
    BY <1>1, <1>7, <2>3, LayoutKept
  <2>5. ReadInv(F, P)'  BY <1>1, <2>2 DEF ReadInv
  <2> QED  BY <1>4, <1>5, <1>6, <2>4, <2>5 DEF Inv, Frame
<1>9. CASE metaData = Nil /\ NoFiles
  <2>1. /\ d'.depth = 0 /\ d'.readFileNum = 0 /\ d'.readPos = 0
        /\ d'.writeFileNum = 0 /\ d'.writePos = 0
        /\ d'.nextReadFileNum = 0 /\ d'.nextReadPos = 0
    BY <1>1, <1>9 DEF Empty0
  <2>2. q = << >> /\ q' = << >> /\ Len(q') = 0 /\ \A n \in FileNum : files'[n] = Nil
    BY <1>1, <1>9, EmptySeq DEF NoFiles
  <2>3. FileInv' /\ (d.depth = Len(q))'
    BY <2>1, <2>2, Sizes DEF FileInv, FileNum
  <2>4. Layout(F, P)'
    BY <2>1, <2>2 DEF Layout, Chained, Ordered
  <2>5. ReadInv(F, P)'  BY <1>1, <2>1 DEF ReadInv, Unread
  <2> QED  BY <1>4, <1>5, <1>6, <2>3, <2>4, <2>5 DEF Inv, Frame
<1> QED  BY <1>2, <1>8, <1>9

-----------------------------------------------------------------------------
(* The steps that read.                                                      *)

\* The place after a message is another one, with a position that fits a file.
LEMMA Places ==
    ASSUME Types, NEW F \in [Msg -> Nat], NEW P \in [Msg -> Nat]
    PROVE  \A i \in 1 .. Len(q) :
               /\ q[i] \in Msg /\ F[q[i]] \in Nat /\ P[q[i]] \in Nat /\ Size[q[i]] \in Nat
               /\ NextF(F, P, q[i]) \in Nat /\ NextP(P, q[i]) \in 0 .. MaxBytesPerFile
               /\ NextF(F, P, q[i]) \in {F[q[i]], F[q[i]] + 1}
               /\ ~UpTo(NextF(F, P, q[i]), NextP(P, q[i]), F[q[i]], P[q[i]])
<1> SUFFICES ASSUME NEW i \in 1 .. Len(q)
             PROVE  /\ q[i] \in Msg /\ F[q[i]] \in Nat /\ P[q[i]] \in Nat /\ Size[q[i]] \in Nat
                    /\ NextF(F, P, q[i]) \in Nat /\ NextP(P, q[i]) \in 0 .. MaxBytesPerFile
                    /\ NextF(F, P, q[i]) \in {F[q[i]], F[q[i]] + 1}
                    /\ ~UpTo(NextF(F, P, q[i]), NextP(P, q[i]), F[q[i]], P[q[i]])
  OBVIOUS
<1>1. q[i] \in Msg /\ Size[q[i]] \in Nat /\ 1 <= Size[q[i]] /\ MaxBytesPerFile \in Nat
  BY DataFacts, Sizes
<1>2. F[q[i]] \in Nat /\ P[q[i]] \in Nat  BY <1>1
<1> QED  BY <1>1, <1>2 DEF NextF, NextP, Rolls, UpTo

\* There is something to read exactly if a message is still to be delivered.
LEMMA SomethingToRead ==
    ASSUME Types, NEW F \in [Msg -> Nat], NEW P \in [Msg -> Nat], Layout(F, P), ~AtTail(d)
    PROVE  /\ q # << >> /\ 1 \in 1 .. Len(q) /\ Written(F, P, q[1])
           /\ F[q[1]] = d.readFileNum /\ P[q[1]] = d.readPos
           /\ UpTo(NextF(F, P, q[1]), NextP(P, q[1]), d.writeFileNum, d.writePos)
<1>1. q # << >>  BY DataFacts DEF Layout, Chained, AtTail
<1>2. 1 \in 1 .. Len(q)  BY <1>1, DataFacts, EmptySeq DEF Types
<1> QED  BY <1>1, <1>2 DEF Layout, Chained, Ordered

LEMMA ReadAheadInv == ASSUME Inv, ReadAhead PROVE Inv'
<1>0. Types /\ Frame  BY DEF Inv
<1>1. PICK F, P \in [Msg -> Nat] : Layout(F, P) /\ ReadInv(F, P)  BY DEF Inv
<1>2. pc = "read" /\ UNCHANGED <<count, metaData, deleting, crashes, q, put, owed, sent>>
  BY DEF ReadAhead
<1>3. CASE ~AtTail(d) /\ d.nextReadPos = d.readPos
  <2> DEFINE m == q[1]
             f == files[d.readFileNum]
             r == Fill(Opened, 1)
             s == Fill(r, Size[m])
             n == Size[m]
             b == SubSeq(s.buf, n + 1, Len(s.buf))
             roll == ReadToEnd(d.readPos + n)
  <2>1. /\ q # << >> /\ 1 \in 1 .. Len(q) /\ Written(F, P, m)
        /\ F[m] = d.readFileNum /\ P[m] = d.readPos
        /\ UpTo(NextF(F, P, m), NextP(P, m), d.writeFileNum, d.writePos)
    BY <1>0, <1>1, <1>3, SomethingToRead
  <2>2. /\ m \in Msg /\ Parsed = m /\ r.buf[1][1] = m /\ f \in Seq(Cell)
        /\ s \in [buf : Seq(Cell), off : Nat]
        /\ d.readPos + n <= s.off /\ s.off <= Len(f)
        /\ b = SubSeq(f, d.readPos + n + 1, s.off) /\ b \in Seq(Cell)
    BY <1>0, <1>1, <1>3, <2>1, ReadsHead DEF Frame
  <2>3. Parsed # Nil  BY <2>2, DiskQueueAssumption
  <2>4. readOne
    BY <1>3, <2>3 DEF ReadAhead, handleReadError
  <2>5. /\ dataRead' = m /\ pc' = "select" /\ UNCHANGED <<files, writeFile>>
        /\ d' = [d EXCEPT !.nextReadPos = IF roll THEN 0 ELSE d.readPos + n,
                          !.nextReadFileNum = d.readFileNum + (IF roll THEN 1 ELSE 0)]
        /\ reader' = IF roll THEN Nil ELSE [s EXCEPT !.buf = b]
    BY <2>2, <2>4 DEF readOne
  <2>6. /\ roll <=> Rolls(P, m)
        /\ n \in Nat
    BY <2>1, <2>2, Sizes DEF ReadToEnd, Rolls
  <2> HIDE DEF m, f, r, s, n, b, roll
  <2>7. /\ d.readFileNum + (IF roll THEN 1 ELSE 0) = NextF(F, P, m)
        /\ (IF roll THEN 0 ELSE d.readPos + n) = NextP(P, m)
        /\ NextF(F, P, m) \in FileNum /\ NextP(P, m) \in 0 .. MaxBytesPerFile
    <3>1. d.readFileNum + (IF roll THEN 1 ELSE 0) = NextF(F, P, m)
      BY <1>0, <2>1, <2>6, DataFacts DEF NextF
    <3>2. (IF roll THEN 0 ELSE d.readPos + n) = NextP(P, m)
      BY <2>1, <2>6 DEF NextP, n
    <3>3. NextF(F, P, m) \in Nat /\ NextP(P, m) \in 0 .. MaxBytesPerFile
      BY <1>0, <1>1, <2>1, Places DEF m
    <3>4. NextF(F, P, m) <= d.writeFileNum
      BY <1>0, <2>1, <3>3, DataFacts DEF UpTo
    <3>5. NextF(F, P, m) \in FileNum
      BY <1>0, <3>3, <3>4, DataFacts, Sizes DEF FileNum
    <3> QED  BY <3>1, <3>2, <3>3, <3>5
  <2>8. /\ d' \in Positions /\ SameRange
        /\ d'.nextReadFileNum = NextF(F, P, m) /\ d'.nextReadPos = NextP(P, m)
    BY <1>0, <2>5, <2>7 DEF Types, Positions, SameRange
  <2>9. Types'
    <3>1. reader' \in [buf : Seq(Cell), off : Nat] \cup {Nil}  BY <2>2, <2>5
    <3>2. writeFile' \in {d'.writeFileNum, Nil}  BY <1>0, <2>5, <2>8 DEF Types, SameRange
    <3> QED  BY <1>0, <1>2, <2>2, <2>5, <2>8, <3>1, <3>2 DEF Types
  <2>10. Buffered'
    <3> SUFFICES ASSUME reader' # Nil
                 PROVE  /\ d'.nextReadFileNum = d.readFileNum
                        /\ f # Nil /\ d'.nextReadPos <= reader'.off /\ reader'.off <= Len(f)
                        /\ reader'.buf = SubSeq(f, d'.nextReadPos + 1, reader'.off)
      BY <2>5, <2>8 DEF Buffered, f, SameRange
    <3>1. ~roll /\ reader' = [s EXCEPT !.buf = b]  BY <2>5
    <3>2. reader'.buf = b /\ reader'.off = s.off  BY <2>2, <3>1
    <3>3. NextF(F, P, m) = d.readFileNum /\ NextP(P, m) = d.readPos + n
      BY <2>1, <2>6, <2>7, <3>1 DEF NextF
    <3>4. f # Nil  BY <2>1 DEF Written, f
    <3> QED  BY <2>2, <2>8, <3>2, <3>3, <3>4
  <2>11. FileInv' /\ (d.depth = Len(q))' /\ Layout(F, P)'
    BY <1>0, <1>1, <1>2, <2>5, <2>8, LayoutKept DEF Frame
  <2>12. OnceInv' /\ OwedInv'
    BY <1>0, <1>2 DEF Frame, OnceInv, OwedInv
  <2>13. ExitInv'
    BY <1>0, <1>2, <2>1, <2>5 DEF Frame, ExitInv, NoFiles
  <2>14. Ahead(F, P)'
    BY <1>2, <2>1, <2>5, <2>8 DEF Ahead, m, NextF, NextP, Rolls
  <2>15. ReadInv(F, P)'  BY <2>14 DEF ReadInv
  <2> QED  BY <2>9, <2>10, <2>11, <2>12, <2>13, <2>15 DEF Inv, Frame
<1>4. CASE ~(~AtTail(d) /\ d.nextReadPos = d.readPos)
  <2>1. pc' = "select" /\ UNCHANGED <<d, writeFile, reader, dataRead, files>>
    BY <1>4 DEF ReadAhead
  <2>2. SamePlaces /\ SameRange  BY <2>1 DEF SamePlaces, SameRange
  <2>3. Types'  BY <1>0, <1>2, <2>1 DEF Types
  <2>4. OnceInv' /\ Buffered' /\ OwedInv'
    BY <1>0, <1>2, <2>1, <2>2, Kept DEF Frame
  <2>5. FileInv' /\ (d.depth = Len(q))' /\ Layout(F, P)'
    BY <1>0, <1>1, <1>2, <2>1, <2>2, LayoutKept DEF Frame
  <2>6. ExitInv'
    BY <1>0, <1>2, <2>1 DEF Frame, ExitInv, NoFiles, Same
  <2>7. AtTail(d) \/ Ahead(F, P)
    BY <1>1, <1>2, <1>4 DEF ReadInv, Unread
  <2>8. Unread \/ Ahead(F, P)  BY <1>1, <1>2 DEF ReadInv
  <2>9. AtTail(d)' <=> AtTail(d)  BY <1>2, <2>1, <2>2, LayoutKept
  <2>10. (Ahead(F, P) => Ahead(F, P)') /\ (Unread => Unread')
    BY <1>1, <1>2, <2>1, <2>2, Kept
  <2>11. ReadInv(F, P)'  BY <2>7, <2>8, <2>9, <2>10 DEF ReadInv
  <2> QED  BY <2>3, <2>4, <2>5, <2>6, <2>11 DEF Inv, Frame
<1> QED  BY <1>3, <1>4

LEMMA EmptyInv == ASSUME Inv, NEW last \in BOOLEAN, Empty(last) PROVE Inv'
<1>0. Types /\ Frame  BY DEF Inv
<1>1. /\ pc' = "loop" /\ count' = 0 /\ deleting' = last /\ metaData' = Nil
      /\ reader' = Nil /\ writeFile' = Nil /\ q' = << >> /\ owed' = {}
      /\ d.writeFileNum <= MaxFile - 3
      /\ d' = skipToNextRWFile(d) /\ Remove(d.readFileNum .. d.writeFileNum)
      /\ UNCHANGED <<dataRead, crashes, put, sent>>
  BY DEF Empty, deleteAllFiles
<1>2. /\ d' \in Positions /\ d'.depth = 0
      /\ d'.readFileNum = d'.writeFileNum /\ d'.readPos = d'.writePos /\ d'.writePos = 0
      /\ d'.nextReadFileNum = d'.readFileNum /\ d'.nextReadPos = d'.readPos
  <2>1. d.writeFileNum + 1 \in FileNum /\ 0 \in 0 .. MaxBytesPerFile /\ 0 \in Int
    BY <1>0, <1>1, DataFacts, Sizes DEF FileNum
  <2> DEFINE w == d.writeFileNum + 1
  <2>2. d' = [d EXCEPT !.writeFileNum = w, !.writePos = 0, !.readFileNum = w, !.readPos = 0,
                       !.nextReadFileNum = w, !.nextReadPos = 0, !.depth = 0]
    BY <1>0, <1>1 DEF skipToNextRWFile, Types, Positions
  <2> HIDE DEF w
  <2> QED  BY <1>0, <2>1, <2>2 DEF Types, Positions, w
<1>3. files' = [n \in FileNum |-> Nil]
  BY <1>0, <1>1 DEF Remove, Frame, FileInv
<1>4. q' \in Seq(Msg) /\ Len(q') = 0  BY <1>1, EmptySeq
<1>5. Types'
  BY <1>0, <1>1, <1>2, <1>3, <1>4, Sizes DEF Types
<1>6. \A n \in FileNum : files'[n] = Nil  BY <1>3
<1>7. OnceInv' /\ OwedInv' /\ Buffered' /\ ExitInv'
  BY <1>1, <1>4, <1>6 DEF OnceInv, OwedInv, Buffered, ExitInv, NoFiles
<1>8. FileInv'
  BY <1>2, <1>5, <1>6 DEF FileInv, Types, Positions, FileNum
<1>9. PICK F, P \in [Msg -> Nat] : Layout(F, P) /\ ReadInv(F, P)  BY DEF Inv
<1>10. Layout(F, P)'
  BY <1>1, <1>2, <1>4 DEF Layout, Chained, Ordered
<1>11. ReadInv(F, P)'  BY <1>1, <1>2 DEF ReadInv, Unread
<1> QED  BY <1>2, <1>4, <1>5, <1>7, <1>8, <1>10, <1>11 DEF Inv, Frame

LEMMA DeliverInv == ASSUME Inv, Deliver PROVE Inv'
<1>0. Types /\ Frame  BY DEF Inv
<1>1. PICK F, P \in [Msg -> Nat] : Layout(F, P) /\ ReadInv(F, P)  BY DEF Inv
<1>2. /\ pc = "select" /\ ~AtTail(d) /\ pc' = "loop" /\ count' = count + 1
      /\ UNCHANGED <<dataRead, metaData, deleting, crashes, put, owed>>
  BY DEF Deliver
<1> DEFINE m == q[1]
           s == moveForward(d)
           nf == NextF(F, P, m)
           np == NextP(P, m)
\* The message on offer, and the place after it.
<1>3. /\ q # << >> /\ 1 \in 1 .. Len(q) /\ F[m] = d.readFileNum /\ P[m] = d.readPos
      /\ UpTo(nf, np, d.writeFileNum, d.writePos)
  BY <1>0, <1>1, <1>2, SomethingToRead
<1>4. dataRead = m /\ d.nextReadFileNum = nf /\ d.nextReadPos = np
  BY <1>1, <1>2 DEF ReadInv, Ahead
<1>5. /\ m \in Msg /\ nf \in Nat /\ np \in 0 .. MaxBytesPerFile
      /\ nf \in {d.readFileNum, d.readFileNum + 1}
      /\ ~UpTo(nf, np, d.readFileNum, d.readPos)
  BY <1>0, <1>1, <1>3, Places
<1>6. /\ d.readFileNum \in Nat /\ d.writeFileNum \in Nat /\ d.readPos \in Nat /\ d.writePos \in Nat
      /\ Len(q) \in Nat /\ d.depth = Len(q) /\ q \in Seq(Msg)
      /\ d.readFileNum <= d.writeFileNum
  BY <1>0, DataFacts DEF Frame, Types, FileInv
<1>7. /\ s \in Positions /\ s.depth = Len(q) - 1
      /\ s.readFileNum = nf /\ s.readPos = np
      /\ s.nextReadFileNum = nf /\ s.nextReadPos = np
      /\ s.writeFileNum = d.writeFileNum /\ s.writePos = d.writePos
  <2> DEFINE y == d.needSync \/ d.readFileNum # d.nextReadFileNum
             z == d.depth - 1
  <2>1. s = [d EXCEPT !.readFileNum = d.nextReadFileNum, !.readPos = d.nextReadPos,
                      !.depth = z, !.needSync = y]
    BY <1>0 DEF moveForward, Types, Positions
  <2>2. y \in BOOLEAN  OBVIOUS
  <2>3. z \in Int /\ z = Len(q) - 1  BY <1>6
  <2> HIDE DEF y, z, nf, np, s
  <2> QED  BY <1>0, <1>4, <2>1, <2>2, <2>3 DEF Types, Positions
<1> HIDE DEF s, nf, np
\* The reader has not passed the writer, and the depth is 0 once it is there.
<1>8. nf <= d.writeFileNum /\ (nf = d.writeFileNum => np <= d.writePos)
  BY <1>3, <1>5, <1>6 DEF UpTo
<1>9. ~Overrun(s)
  BY <1>5, <1>6, <1>7, <1>8 DEF Overrun, AtTail
<1>10. AtTail(s) => s.depth = 0
  <2> SUFFICES ASSUME AtTail(s), s.depth # 0  PROVE FALSE
    OBVIOUS
  <2>1. 2 \in 1 .. Len(q) /\ 1 \in 1 .. Len(q) - 1
    <3> DEFINE l == Len(q)
    <3>1. l \in Nat /\ l - 1 # 0 /\ 1 \in 1 .. l  BY <1>3, <1>6, <1>7
    <3> HIDE DEF l
    <3>2. 2 \in 1 .. l /\ 1 \in 1 .. l - 1  BY <3>1
    <3> QED  BY <3>2 DEF l
  <2>2. nf = d.writeFileNum /\ np = d.writePos
    BY <1>5, <1>6, <1>7, <1>8 DEF AtTail
  <2>3. F[q[2]] = nf /\ P[q[2]] = np
    BY <1>1, <2>1 DEF Layout, Chained, nf, np
  <2>4. UpTo(NextF(F, P, q[2]), NextP(P, q[2]), d.writeFileNum, d.writePos)
    BY <1>1, <2>1 DEF Layout, Ordered
  <2>5. ~UpTo(NextF(F, P, q[2]), NextP(P, q[2]), F[q[2]], P[q[2]])
    BY <1>0, <1>1, <2>1, Places
  <2> QED  BY <2>2, <2>3, <2>4, <2>5
<1>11. d' = s /\ UNCHANGED <<reader, writeFile>>
       /\ files' = [n \in FileNum |-> IF n \in Finished(d) THEN Nil ELSE files[n]]
  <2>1. checkTailCorruption(s) = s  BY <1>9, <1>10 DEF checkTailCorruption
  <2>2. /\ d' = checkTailCorruption(s)
        /\ Remove(Finished(d) \cup (IF Overrun(s) THEN s.readFileNum .. s.writeFileNum ELSE {}))
        /\ reader' = (IF Overrun(s) THEN Nil ELSE reader)
        /\ writeFile' = (IF Overrun(s) THEN Nil ELSE writeFile)
    BY DEF Deliver, s
  <2> QED  BY <1>9, <2>1, <2>2 DEF Remove
<1>12. \A n \in FileNum : /\ n \in Finished(d) => n = d.readFileNum /\ nf = d.readFileNum + 1
                          /\ n \notin Finished(d) => n # d.readFileNum \/ nf = d.readFileNum
                          /\ files'[n] = IF n \in Finished(d) THEN Nil ELSE files[n]
  BY <1>4, <1>5, <1>11 DEF Finished
\* The queue of what is to be delivered.
<1>13. /\ q' \in Seq(Msg) /\ Len(q') = Len(q) - 1
       /\ \A i \in 1 .. Len(q') : i + 1 \in 1 .. Len(q) /\ q'[i] = q[i + 1]
  <2>1. Head(q) = m /\ q' = Tail(q)
    <3>1. Head(q) = m  BY <1>3, <1>6, HeadTailProperties
    <3> QED  BY <1>3, <1>4, <3>1 DEF Deliver
  <2>2. Tail(q) \in Seq(Msg) /\ Len(Tail(q)) = Len(q) - 1
        /\ \A i \in 1 .. Len(Tail(q)) : Tail(q)[i] = q[i + 1]
    BY <1>3, <1>6, HeadTailProperties
  <2>3. \A i \in 1 .. Len(Tail(q)) : i + 1 \in 1 .. Len(q)  BY <1>6, <2>2
  <2> QED  BY <2>1, <2>2, <2>3
<1>14. Len(q') \in Nat /\ (q' = << >> <=> Len(q) = 1)
  BY <1>3, <1>6, <1>13, EmptySeq
<1>15. sent' = sent \cup {m}
  BY <1>4, <1>5 DEF Deliver
<1>16. Types'
  <2>1. files' \in [FileNum -> Seq(Cell) \cup {Nil}]  BY <1>0, <1>11 DEF Types
  <2>2. writeFile' \in {d'.writeFileNum, Nil}  BY <1>0, <1>7, <1>11 DEF Types
  <2>3. sent' \subseteq Msg /\ count' \in Nat  BY <1>0, <1>2, <1>5, <1>15 DEF Types
  <2> QED  BY <1>0, <1>2, <1>7, <1>11, <1>13, <2>1, <2>2, <2>3 DEF Types
<1>17. OnceInv'
  <2>1. \A i \in 1 .. Len(q') : q'[i] \in put'
    BY <1>0, <1>2, <1>13 DEF Frame, OnceInv
  <2>2. ASSUME NEW i \in 1 .. Len(q'), NEW j \in 1 .. Len(q'), q'[i] = q'[j]  PROVE i = j
    <3>1. /\ i + 1 \in 1 .. Len(q) /\ j + 1 \in 1 .. Len(q)
          /\ q'[i] = q[i + 1] /\ q'[j] = q[j + 1]
      BY <1>13, Zenon
    <3>2. \A k, l \in 1 .. Len(q) : q[k] = q[l] => k = l  BY <1>0, Zenon DEF Frame, OnceInv
    <3>3. i + 1 = j + 1  BY <2>2, <3>1, <3>2, Zenon
    <3>4. i \in Nat /\ j \in Nat  BY <1>14, <2>2
    <3> QED  BY <3>3, <3>4
  <2> QED  BY <2>1, <2>2 DEF OnceInv
<1>18. OwedInv'
  <2> SUFFICES ASSUME NEW x \in owed
               PROVE  x \in sent' \/ \E i \in 1 .. Len(q') : q'[i] = x
    BY <1>2 DEF OwedInv
  <2>1. CASE x \in sent  BY <1>15, <2>1
  <2>2. CASE x \notin sent
    <3>1. PICK i \in 1 .. Len(q) : q[i] = x  BY <1>0, <2>2 DEF Frame, OwedInv
    <3>2. CASE i = 1  BY <1>15, <3>1, <3>2
    <3>3. CASE i # 1
      <4>1. i - 1 \in 1 .. Len(q') /\ (i - 1) + 1 = i  BY <1>6, <1>13, <3>3
      <4>2. q'[i - 1] = x  BY <1>13, <3>1, <4>1
      <4> QED  BY <4>1, <4>2
    <3> QED  BY <3>2, <3>3
  <2> QED  BY <2>1, <2>2
<1>19. FileInv'
  <2>1. ASSUME NEW n \in FileNum, files'[n] # Nil  PROVE n \in nf .. d.writeFileNum
    <3>1. files[n] # Nil /\ n \notin Finished(d)  BY <1>12, <2>1
    <3>2. n \in d.readFileNum .. d.writeFileNum  BY <1>0, <3>1 DEF Frame, FileInv
    <3> QED  BY <1>5, <1>6, <1>12, <3>1, <3>2
  <2>2. d.writeFileNum \in FileNum /\ d.writeFileNum \notin Finished(d)
    BY <1>0, <1>6, <1>8, <1>12, DataFacts
  <2>3. files'[d.writeFileNum] = files[d.writeFileNum]  BY <1>12, <2>2
  <2> QED  BY <1>0, <1>7, <1>8, <1>11, <2>1, <2>3 DEF Frame, FileInv
<1>20. Buffered'
  <2> SUFFICES ASSUME reader # Nil
               PROVE  LET f == files'[d'.readFileNum] IN
                        /\ d'.nextReadFileNum = d'.readFileNum
                        /\ f # Nil /\ d'.nextReadPos <= reader.off /\ reader.off <= Len(f)
                        /\ reader.buf = SubSeq(f, d'.nextReadPos + 1, reader.off)
    BY <1>11 DEF Buffered
  <2>1. d.nextReadFileNum = d.readFileNum  BY <1>0 DEF Frame, Buffered
  <2>2. nf = d.readFileNum /\ d.readFileNum \in FileNum  BY <1>0, <1>4, <2>1, DataFacts
  <2>3. files'[d.readFileNum] = files[d.readFileNum]  BY <1>6, <1>12, <2>2
  <2> QED  BY <1>0, <1>4, <1>7, <1>11, <2>2, <2>3 DEF Frame, Buffered
<1>21. ExitInv'
  BY <1>0, <1>2, <1>3 DEF Frame, ExitInv, NoFiles
<1>22. (d.depth = Len(q))'  BY <1>7, <1>11, <1>13
<1>23. Chained(F, P)'
  <2>1. ASSUME q' = << >>
        PROVE  d'.readFileNum = d'.writeFileNum /\ d'.readPos = d'.writePos
    <3>1. q[Len(q)] = m  BY <1>14, <2>1
    <3>2. nf = d.writeFileNum /\ np = d.writePos
      BY <1>1, <1>3, <3>1 DEF Layout, Chained, nf, np
    <3> QED  BY <1>7, <1>11, <3>2
  <2>2. ASSUME q' # << >>
        PROVE  /\ F[q'[1]] = d'.readFileNum /\ P[q'[1]] = d'.readPos
               /\ NextF(F, P, q'[Len(q')]) = d'.writeFileNum
               /\ NextP(P, q'[Len(q')]) = d'.writePos
    <3>1. /\ 1 \in 1 .. Len(q') /\ Len(q') \in 1 .. Len(q') /\ 1 \in 1 .. Len(q) - 1
          /\ Len(q') + 1 = Len(q)
      BY <1>3, <1>6, <1>13, <1>14, <2>2
    <3>2. q'[1] = q[1 + 1] /\ q'[Len(q')] = q[Len(q)]  BY <1>13, <3>1
    <3>3. F[q[1 + 1]] = nf /\ P[q[1 + 1]] = np
      BY <1>1, <3>1 DEF Layout, Chained, nf, np
    <3>4. NextF(F, P, q[Len(q)]) = d.writeFileNum /\ NextP(P, q[Len(q)]) = d.writePos
      BY <1>1, <1>3 DEF Layout, Chained
    <3> QED  BY <1>7, <1>11, <3>2, <3>3, <3>4
  <2>3. ASSUME NEW i \in 1 .. Len(q') - 1
        PROVE  /\ F[q'[i + 1]] = NextF(F, P, q'[i])
               /\ P[q'[i + 1]] = NextP(P, q'[i])
    <3>1. i \in 1 .. Len(q') /\ i + 1 \in 1 .. Len(q') /\ i + 1 \in 1 .. Len(q) - 1
      BY <1>6, <1>13, <1>14
    <3>2. q'[i] = q[i + 1] /\ q'[i + 1] = q[(i + 1) + 1]  BY <1>13, <3>1
    <3> QED  BY <1>1, <3>1, <3>2 DEF Layout, Chained
  <2>4. F' = F /\ P' = P  OBVIOUS
  <2> QED  BY <2>1, <2>2, <2>3, <2>4 DEF Chained, NextF, NextP, Rolls
<1>24. Ordered(F, P)'
  <2>1. ASSUME NEW i \in 1 .. Len(q')
        PROVE  UpTo(NextF(F, P, q'[i]), NextP(P, q'[i]), d'.writeFileNum, d'.writePos)
    BY <1>1, <1>7, <1>11, <1>13 DEF Layout, Ordered
  <2>2. ASSUME NEW i \in 1 .. Len(q'), NEW j \in 1 .. Len(q'), i < j
        PROVE  UpTo(NextF(F, P, q'[i]), NextP(P, q'[i]), F[q'[j]], P[q'[j]])
    <3>1. i + 1 < j + 1  BY <1>14, <2>2
    <3> QED  BY <1>1, <1>13, <3>1 DEF Layout, Ordered
  <2> QED  BY <2>1, <2>2 DEF Ordered, NextF, NextP, Rolls, UpTo
<1>25. ASSUME NEW i \in 1 .. Len(q')  PROVE Written(F, P, q[i])'
  <2> DEFINE x == q[i + 1]
  <2>1. q'[i] = x /\ i + 1 \in 1 .. Len(q) /\ 1 < i + 1  BY <1>13, <1>14
  <2>2. Written(F, P, x)  BY <1>1, <2>1 DEF Layout
  <2>3. UpTo(nf, np, F[x], P[x])
    BY <1>1, <1>3, <2>1 DEF Layout, Ordered, nf, np
  <2>4. F[x] \in FileNum /\ F[x] \in Nat /\ nf <= F[x]
    <3>1. F[x] \in FileNum  BY <2>2 DEF Written
    <3>2. F[x] \in Nat  BY <3>1, Sizes DEF FileNum
    <3> HIDE DEF x
    <3> QED  BY <1>5, <2>3, <3>1, <3>2 DEF UpTo
  <2>5. F[x] \notin Finished(d)  BY <1>6, <1>12, <2>4
  <2>6. files'[F[x]] = files[F[x]]  BY <1>12, <2>4, <2>5
  <2> HIDE DEF x
  <2> QED  BY <2>1, <2>2, <2>6 DEF Written
<1>26. Layout(F, P)'
  BY <1>23, <1>24, <1>25 DEF Layout
<1>27. ReadInv(F, P)'  BY <1>2, <1>7, <1>11 DEF ReadInv, Unread
<1> QED
  BY <1>16, <1>17, <1>18, <1>19, <1>20, <1>21, <1>22, <1>26, <1>27 DEF Inv, Frame

-----------------------------------------------------------------------------
(* Put().                                                                    *)

\* A write at the write position leaves the messages of q in the files, and, if no
\* bytes were buffered from after it, what the reader has buffered.
LEMMA WriteKeeps ==
    ASSUME Types, Frame, NEW F \in [Msg -> Nat], NEW P \in [Msg -> Nat], Layout(F, P),
           NEW g \in Seq(Cell), files' = [files EXCEPT ![d.writeFileNum] = g],
           d.writePos <= Len(g),
           \A i \in 1 .. d.writePos : g[i] = files[d.writeFileNum][i],
           files' # files => ~BufferedPastEnd
    PROVE  /\ \A i \in 1 .. Len(q) :
                  LET x == q[i] IN
                      /\ F[x] \in FileNum /\ files'[F[x]] # Nil
                      /\ P[x] + Size[x] <= Len(files'[F[x]])
                      /\ \A k \in 1 .. Size[x] : files'[F[x]][P[x] + k] = <<x, k>>
           /\ reader # Nil =>
                  LET h == files'[d.readFileNum] IN
                      /\ d.nextReadFileNum = d.readFileNum
                      /\ h # Nil /\ d.nextReadPos <= reader.off /\ reader.off <= Len(h)
                      /\ reader.buf = SubSeq(h, d.nextReadPos + 1, reader.off)
<1> DEFINE n == d.writeFileNum
           a == d.writePos
<1>1. n \in FileNum /\ n \in Nat /\ a \in Nat /\ Len(g) \in Nat /\ g # Nil /\ a <= Len(g)
  BY DataFacts, LenProperties, DiskQueueAssumption
<1>2. \A k \in FileNum : files'[k] = IF k = n THEN g ELSE files[k]
  BY <1>1 DEF Types
<1>3. ASSUME NEW i \in 1 .. Len(q)
      PROVE  LET x == q[i] IN
                 /\ F[x] \in FileNum /\ files'[F[x]] # Nil
                 /\ P[x] + Size[x] <= Len(files'[F[x]])
                 /\ \A k \in 1 .. Size[x] : files'[F[x]][P[x] + k] = <<x, k>>
  <2> DEFINE x == q[i]
  <2>1. /\ F[x] \in FileNum /\ files[F[x]] # Nil
        /\ P[x] + Size[x] <= Len(files[F[x]])
        /\ \A k \in 1 .. Size[x] : files[F[x]][P[x] + k] = <<x, k>>
    BY DEF Layout, Written
  <2>2. P[x] \in Nat /\ Size[x] \in Nat /\ F[x] \in Nat  BY Places
  <2>3. UpTo(NextF(F, P, x), NextP(P, x), n, a)  BY DEF Layout, Ordered
  <2> HIDE DEF x
  <2>4. CASE F[x] # n
    <3>1. files'[F[x]] = files[F[x]]  BY <1>2, <2>1, <2>4
    <3> QED  BY <2>1, <3>1 DEF x
  <2>5. CASE F[x] = n
    <3>1. files'[F[x]] = g  BY <1>1, <1>2, <2>5
    <3> DEFINE u == P[x]
               v == Size[x]
    <3>2. u + v <= a /\ u \in Nat /\ v \in Nat
      <4>1. CASE Rolls(P, x)
        <5>1. NextF(F, P, x) = n + 1  BY <2>5, <4>1 DEF NextF
        <5> HIDE DEF n, a
        <5> QED  BY <1>1, <2>3, <5>1 DEF UpTo
      <4>2. CASE ~Rolls(P, x)
        <5>1. NextF(F, P, x) = n /\ NextP(P, x) = u + v  BY <2>5, <4>2 DEF NextF, NextP
        <5> HIDE DEF n, a
        <5> QED  BY <1>1, <2>2, <2>3, <5>1 DEF UpTo
      <4> QED  BY <4>1, <4>2
    <3>3. ASSUME NEW k \in 1 .. v  PROVE g[u + k] = <<x, k>>
      <4>1. u + k \in 1 .. a
        <5> HIDE DEF u, v, a
        <5> QED  BY <1>1, <3>2
      <4>2. g[u + k] = files[n][u + k]  BY <4>1
      <4> QED  BY <2>1, <2>5, <4>2
    <3>4. u + v <= Len(g)
      <4> HIDE DEF u, v
      <4> QED  BY <1>1, <3>2
    <3>5. \A k \in 1 .. v : g[u + k] = <<x, k>>  BY <3>3
    <3> QED  BY <1>1, <2>1, <3>1, <3>4, <3>5 DEF x
  <2> QED  BY <2>4, <2>5
<1>4. ASSUME reader # Nil
      PROVE  LET h == files'[d.readFileNum] IN
                 /\ d.nextReadFileNum = d.readFileNum
                 /\ h # Nil /\ d.nextReadPos <= reader.off /\ reader.off <= Len(h)
                 /\ reader.buf = SubSeq(h, d.nextReadPos + 1, reader.off)
  <2> DEFINE f == files[d.readFileNum]
             b == d.nextReadPos
             o == reader.off
  <2>1. /\ d.nextReadFileNum = d.readFileNum /\ f # Nil /\ b <= o /\ o <= Len(f)
        /\ reader.buf = SubSeq(f, b + 1, o)
    BY <1>4 DEF Frame, Buffered
  <2>2. d.readFileNum \in FileNum /\ b \in Nat /\ o \in Nat /\ f \in Seq(Cell) /\ Len(f) \in Nat
    BY <1>4, <2>1, DataFacts DEF Types
  <2>3. CASE d.readFileNum # n \/ files' = files
    <3>1. files'[d.readFileNum] = f  BY <1>2, <2>2, <2>3
    <3> QED  BY <2>1, <3>1
  <2>4. CASE d.readFileNum = n /\ files' # files
    <3>1. files'[d.readFileNum] = g  BY <1>2, <2>2, <2>4
    <3>2. o <= a
      <4>1. ~(o > a)  BY <1>4, <2>4 DEF BufferedPastEnd
      <4> HIDE DEF o, a
      <4> QED  BY <1>1, <2>2, <4>1
    <3>3. ASSUME NEW i \in b + 1 .. o  PROVE g[i] = f[i] /\ f[i] \in Cell
      <4>1. i \in 1 .. a /\ i \in 1 .. Len(f)
        <5> HIDE DEF a, b, o, f
        <5> QED  BY <1>1, <2>1, <2>2, <3>2
      <4> QED  BY <2>2, <2>4, <4>1, ElementOfSeq
    <3> DEFINE x == SubSeq(f, b + 1, o)
               y == SubSeq(g, b + 1, o)
    <3> HIDE DEF f, b, o
    <3>4. b + 1 \in Int /\ o \in Int  BY <2>2
    <3>5. \A i \in b + 1 .. o : f[i] \in Cell /\ g[i] \in Cell /\ g[i] = f[i]
      BY <3>3
    <3>6. /\ x \in Seq(Cell)
          /\ Len(x) = IF b + 1 <= o THEN o - (b + 1) + 1 ELSE 0
          /\ \A i \in 1 .. o - (b + 1) + 1 : x[i] = f[(b + 1) + i - 1]
      BY <3>4, <3>5, SubSeqProperties
    <3>7. /\ y \in Seq(Cell)
          /\ Len(y) = IF b + 1 <= o THEN o - (b + 1) + 1 ELSE 0
          /\ \A i \in 1 .. o - (b + 1) + 1 : y[i] = g[(b + 1) + i - 1]
      BY <3>4, <3>5, SubSeqProperties
    <3>8. ASSUME NEW i \in 1 .. Len(x)  PROVE x[i] = y[i]
      <4>1. i \in 1 .. o - (b + 1) + 1 /\ (b + 1) + i - 1 \in b + 1 .. o
        <5> HIDE DEF x, y
        <5> QED  BY <2>2, <3>4, <3>6
      <4> QED  BY <3>5, <3>6, <3>7, <4>1
    <3>9. x = y
      <4>1. Len(x) = Len(y) /\ x \in Seq(Cell) /\ y \in Seq(Cell)  BY <3>6, <3>7
      <4> HIDE DEF x, y
      <4> QED  BY <3>8, <4>1, SeqEqual
    <3>10. o <= Len(g)
      <4> HIDE DEF a
      <4> QED  BY <1>1, <2>2, <3>2
    <3>11. b <= o /\ reader.buf = y  BY <2>1, <3>9
    <3> QED  BY <1>1, <2>1, <3>1, <3>10, <3>11 DEF y, b, o
  <2> QED  BY <2>3, <2>4
<1> QED  BY <1>3, <1>4

\* writeOne() fails: the file is new, or has bytes after the write position, or both.
LEMMA WriteFailsInv ==
    ASSUME Inv, NEW m \in Msg, Put(m), WriteFails(m), ~mixed'
    PROVE  Inv'
<1>0. Types /\ Frame  BY DEF Inv
<1>1. PICK F, P \in [Msg -> Nat] : Layout(F, P) /\ ReadInv(F, P)  BY DEF Inv
<1> DEFINE w == d.writeFileNum
           a == d.writePos
<1>2. /\ pc = "select" /\ ~deleting /\ pc' = "loop" /\ count' = count + 1 /\ put' = put \cup {m}
      /\ writeFile' = Nil /\ (files' # files => ~BufferedPastEnd)
      /\ UNCHANGED <<d, metaData, q, owed, reader, dataRead, deleting, crashes, sent>>
  BY DEF Put, WriteFails
<1>3. w \in FileNum /\ w \in Nat /\ d.readFileNum \in Nat /\ d.readFileNum <= w /\ a \in Nat
  BY <1>0, DataFacts DEF Frame, FileInv
<1>4. /\ files' \in [FileNum -> Seq(Cell) \cup {Nil}]
      /\ \A k \in FileNum : k # w => files'[k] = files[k]
      /\ IF files'[w] = Nil THEN a = 0 ELSE a <= Len(files'[w])
      /\ \A i \in 1 .. Len(q) :
             LET x == q[i] IN
                 /\ F[x] \in FileNum /\ files'[F[x]] # Nil
                 /\ P[x] + Size[x] <= Len(files'[F[x]])
                 /\ \A k \in 1 .. Size[x] : files'[F[x]][P[x] + k] = <<x, k>>
      /\ reader # Nil =>
             LET h == files'[d.readFileNum] IN
                 /\ d.nextReadFileNum = d.readFileNum
                 /\ h # Nil /\ d.nextReadPos <= reader.off /\ reader.off <= Len(h)
                 /\ reader.buf = SubSeq(h, d.nextReadPos + 1, reader.off)
  <2>1. CASE files' = files
    BY <1>0, <1>1, <2>1 DEF Types, Frame, FileInv, Layout, Written, Buffered
  <2>2. CASE \E k \in 0 .. Size[m] - 1 :
               files' = [files EXCEPT ![w] = WriteAt(files[w], a, SubSeq(Cells(m), 1, k))]
    <3>1. PICK k \in 0 .. Size[m] - 1 :
               files' = [files EXCEPT ![w] = WriteAt(files[w], a, SubSeq(Cells(m), 1, k))]
      BY <2>2
    <3> DEFINE cs == SubSeq(Cells(m), 1, k)
               g == WriteAt(files[w], a, cs)
               f == files[w]
    <3>2. cs \in Seq(Cell)
      <4>1. Size[m] \in Nat /\ \A i \in 1 .. Size[m] : Cells(m)[i] \in Cell
        BY CellsOf, Sizes, ElementOfSeq
      <4>2. \A i \in 1 .. k : Cells(m)[i] \in Cell  BY <4>1
      <4> QED  BY <4>2, SubSeqProperties
    <3>3. f \in Seq(Cell) \cup {Nil} /\ (IF f = Nil THEN a = 0 ELSE a <= Len(f))
      BY <1>0, <1>3 DEF Types, Frame, FileInv
    <3>4. /\ g \in Seq(Cell) /\ a + Len(cs) <= Len(g) /\ Len(cs) \in Nat
          /\ \A i \in 1 .. a : g[i] = f[i]
      <4>1. g = WriteAt(f, a, cs)  OBVIOUS
      <4> HIDE DEF f, cs, g
      <4> QED  BY <1>3, <3>2, <3>3, <4>1, WriteAtPlace, LenProperties
    <3> HIDE DEF g, cs
    <3>5. a <= Len(g) /\ g # Nil
      <4>1. Len(g) \in Nat  BY <3>4, LenProperties
      <4> QED  BY <1>3, <3>4, <4>1, DiskQueueAssumption
    <3>6. files' = [files EXCEPT ![w] = g]  BY <3>1 DEF g, cs
    <3>7. files'[w] = g /\ \A x \in FileNum : x # w => files'[x] = files[x]
      BY <1>0, <1>3, <3>6 DEF Types
    <3>8. files' \in [FileNum -> Seq(Cell) \cup {Nil}]  BY <1>0, <3>4, <3>6 DEF Types
    <3>9. /\ \A i \in 1 .. Len(q) :
                LET x == q[i] IN
                    /\ F[x] \in FileNum /\ files'[F[x]] # Nil
                    /\ P[x] + Size[x] <= Len(files'[F[x]])
                    /\ \A j \in 1 .. Size[x] : files'[F[x]][P[x] + j] = <<x, j>>
          /\ reader # Nil =>
                LET h == files'[d.readFileNum] IN
                    /\ d.nextReadFileNum = d.readFileNum
                    /\ h # Nil /\ d.nextReadPos <= reader.off /\ reader.off <= Len(h)
                    /\ reader.buf = SubSeq(h, d.nextReadPos + 1, reader.off)
      BY <1>0, <1>1, <1>2, <3>4, <3>5, <3>6, WriteKeeps
    <3> QED  BY <3>5, <3>7, <3>8, <3>9
  <2> QED  BY <2>1, <2>2 DEF WriteFails
<1>6. Types'
  BY <1>0, <1>2, <1>4 DEF Types
<1>7. OnceInv' /\ OwedInv' /\ (d.depth = Len(q))'
  BY <1>0, <1>2 DEF Frame, OnceInv, OwedInv
<1>8. FileInv'
  <2>1. ASSUME NEW n \in FileNum, files'[n] # Nil  PROVE n \in d.readFileNum .. w
    <3>1. CASE n = w  BY <1>3, <3>1
    <3>2. CASE n # w  BY <1>0, <1>4, <2>1, <3>2 DEF Frame, FileInv
    <3> QED  BY <3>1, <3>2
  <2>2. IF files'[w] = Nil THEN a = 0 ELSE a <= Len(files'[w])  BY <1>4
  <2> QED  BY <1>2, <1>3, <2>1, <2>2 DEF FileInv
<1>9. Buffered'
  BY <1>2, <1>4 DEF Buffered
<1>10. ExitInv'  BY <1>2 DEF ExitInv
<1>11. Layout(F, P)'
  <2>1. Chained(F, P)'  BY <1>1, <1>2 DEF Layout, Chained, NextF, NextP, Rolls
  <2>2. Ordered(F, P)'  BY <1>1, <1>2 DEF Layout, Ordered, NextF, NextP, Rolls, UpTo
  <2>3. ASSUME NEW i \in 1 .. Len(q)  PROVE Written(F, P, q[i])'
    BY <1>2, <1>4 DEF Written
  <2> QED  BY <1>2, <2>1, <2>2, <2>3 DEF Layout
<1>12. ReadInv(F, P)'
  BY <1>1, <1>2 DEF ReadInv, Unread, Ahead, NextF, NextP, Rolls
<1> QED  BY <1>6, <1>7, <1>8, <1>9, <1>10, <1>11, <1>12 DEF Inv, Frame

\* What writeOne() does to the positions when it writes, with its sync or without.
LEMMA WriteMoves ==
    ASSUME Types, NEW m \in Msg, WriteOK(m), d.writeFileNum <= MaxFile - 3
    PROVE  LET p == d.writePos + Size[m] IN
           /\ d' \in Positions /\ d'.depth = d.depth + 1
           /\ d'.readFileNum = d.readFileNum /\ d'.readPos = d.readPos
           /\ d'.nextReadFileNum = d.nextReadFileNum /\ d'.nextReadPos = d.nextReadPos
           /\ d'.writeFileNum = d.writeFileNum + (IF p > MaxBytesPerFile THEN 1 ELSE 0)
           /\ d'.writePos = IF p > MaxBytesPerFile THEN 0 ELSE p
           /\ writeFile' \in {d'.writeFileNum, Nil}
           /\ metaData' \in Positions \cup {Nil}
           /\ owed' \subseteq owed \cup {m}
<1> DEFINE n == d.writeFileNum
           p == d.writePos + Size[m]
           e == d.depth + 1
           s == [d EXCEPT !.writePos = p, !.depth = @ + 1]
           r == [s EXCEPT !.writeFileNum = n + 1, !.writePos = 0]
<1>1. /\ n \in Nat /\ n + 1 \in FileNum /\ p \in Nat /\ 0 \in 0 .. MaxBytesPerFile /\ e \in Int
      /\ MaxBytesPerFile \in Nat
  <2>1. /\ n \in Nat /\ d.writePos \in Nat /\ Size[m] \in Nat /\ d.depth \in Int
        /\ MaxBytesPerFile \in Nat /\ MaxFile \in Nat
    BY DataFacts, Sizes
  <2>2. n + 1 \in FileNum  BY <2>1 DEF FileNum
  <2> QED  BY <2>1, <2>2
<1>2. d \in Positions  BY DEF Types
<1>3. s = [d EXCEPT !.writePos = p, !.depth = e]
  BY <1>2 DEF Positions
<1>4. CASE Full(p)
  <2>0. p > MaxBytesPerFile  BY <1>4 DEF Full
  <2>1. r = [d EXCEPT !.writePos = 0, !.depth = e, !.writeFileNum = n + 1]
    BY <1>2, <1>3 DEF Positions
  <2>2. /\ r \in Positions /\ r.depth = e /\ r.writeFileNum = n + 1 /\ r.writePos = 0
        /\ r.readFileNum = d.readFileNum /\ r.readPos = d.readPos
        /\ r.nextReadFileNum = d.nextReadFileNum /\ r.nextReadPos = d.nextReadPos
    <3> DEFINE k == n + 1
    <3>1. k \in FileNum /\ r = [d EXCEPT !.writePos = 0, !.depth = e, !.writeFileNum = k]
      BY <1>1, <2>1
    <3> HIDE DEF e, k, r
    <3>2. /\ r \in Positions /\ r.depth = e /\ r.writeFileNum = k /\ r.writePos = 0
          /\ r.readFileNum = d.readFileNum /\ r.readPos = d.readPos
          /\ r.nextReadFileNum = d.nextReadFileNum /\ r.nextReadPos = d.nextReadPos
      BY <1>1, <1>2, <3>1 DEF Positions
    <3> QED  BY <3>2 DEF k
  <2>3. /\ syncOK(r, files', n, q', Nil) \/ syncFails(r, files', n, Nil)
        /\ owed' \subseteq owed \cup {m}
    BY <1>4 DEF WriteOK
  <2>4. PICK fs, u : fs = files' /\ u = q'  OBVIOUS
  <2> HIDE DEF r
  <2>5. syncOK(r, fs, n, u, Nil) \/ syncFails(r, fs, n, Nil)  BY <2>3, <2>4
  <2>6. /\ d' \in Positions /\ writeFile' \in {Nil, Nil}
        /\ d'.depth = r.depth
        /\ d'.readFileNum = r.readFileNum /\ d'.readPos = r.readPos
        /\ d'.writeFileNum = r.writeFileNum /\ d'.writePos = r.writePos
        /\ d'.nextReadFileNum = r.nextReadFileNum /\ d'.nextReadPos = r.nextReadPos
        /\ metaData' \in Positions \cup {Nil}
    BY <2>2, <2>5, Synced DEF Types
  <2> HIDE DEF p
  <2>7. /\ d.writeFileNum + (IF p > MaxBytesPerFile THEN 1 ELSE 0) = n + 1
        /\ (IF p > MaxBytesPerFile THEN 0 ELSE p) = 0
    BY <2>0
  <2> QED  BY <2>2, <2>3, <2>6, <2>7 DEF e, p
<1>5. CASE ~Full(p)
  <2>0. ~(p > MaxBytesPerFile) /\ p \in 0 .. MaxBytesPerFile  BY <1>1, <1>5 DEF Full
  <2>1. d' = s /\ writeFile' = n /\ owed' = owed \cup {m} /\ UNCHANGED metaData
    BY <1>5 DEF WriteOK
  <2> HIDE DEF e, s, p
  <2>2. /\ d' \in Positions /\ d'.depth = e /\ d'.writeFileNum = n /\ d'.writePos = p
        /\ d'.readFileNum = d.readFileNum /\ d'.readPos = d.readPos
        /\ d'.nextReadFileNum = d.nextReadFileNum /\ d'.nextReadPos = d.nextReadPos
    BY <1>1, <1>2, <1>3, <2>0, <2>1 DEF Positions
  <2>3. /\ d.writeFileNum + (IF p > MaxBytesPerFile THEN 1 ELSE 0) = n
        /\ (IF p > MaxBytesPerFile THEN 0 ELSE p) = p
    BY <1>1, <2>0
  <2>4. metaData' \in Positions \cup {Nil}  BY <2>1 DEF Types
  <2> QED  BY <2>1, <2>2, <2>3, <2>4 DEF e, p
<1> QED  BY <1>4, <1>5

\* writeOne() writes message m at the write position.
LEMMA WriteOKInv ==
    ASSUME Inv, NEW m \in Msg, Put(m), WriteOK(m), ~mixed'
    PROVE  Inv'
<1>0. Types /\ Frame  BY DEF Inv
<1>1. PICK F, P \in [Msg -> Nat] : Layout(F, P) /\ ReadInv(F, P)  BY DEF Inv
<1> DEFINE n == d.writeFileNum
           a == d.writePos
           g == WriteAt(files[n], a, Cells(m))
           l == Len(q)
<1>2. /\ pc = "select" /\ ~deleting /\ m \notin put /\ d.writeFileNum <= MaxFile - 3
      /\ pc' = "loop" /\ count' = count + 1 /\ put' = put \cup {m}
      /\ files' = [files EXCEPT ![n] = g] /\ q' = Append(q, m)
      /\ (files' # files => ~BufferedPastEnd)
      /\ UNCHANGED <<reader, dataRead, deleting, crashes, sent>>
  BY DEF Put, WriteOK
<1>3. /\ n \in FileNum /\ n \in Nat /\ a \in Nat /\ Size[m] \in Nat /\ 1 <= Size[m]
      /\ d.readFileNum \in Nat /\ d.readFileNum <= n /\ n + 1 \in FileNum
      /\ MaxBytesPerFile \in Nat /\ l \in Nat /\ q \in Seq(Msg) /\ d.depth = l
  <2>1. /\ n \in FileNum /\ n \in Nat /\ a \in Nat /\ Size[m] \in Nat /\ 1 <= Size[m]
        /\ d.readFileNum \in Nat /\ MaxBytesPerFile \in Nat /\ MaxFile \in Nat /\ l \in Nat
    BY <1>0, DataFacts, Sizes
  <2>2. d.readFileNum <= n /\ d.depth = l /\ q \in Seq(Msg)
    BY <1>0 DEF Frame, FileInv, Types
  <2>3. n + 1 \in FileNum  BY <1>2, <2>1 DEF FileNum
  <2> QED  BY <2>1, <2>2, <2>3
<1>4. PICK G, R \in [Msg -> Nat] : /\ G[m] = n /\ R[m] = a
                                   /\ \A x \in Msg : x # m => G[x] = F[x] /\ R[x] = P[x]
  <2>1. [F EXCEPT ![m] = n] \in [Msg -> Nat] /\ [P EXCEPT ![m] = a] \in [Msg -> Nat]
    BY <1>3
  <2> QED  BY <2>1
<1>5. /\ d' \in Positions /\ d'.depth = l + 1
      /\ d'.readFileNum = d.readFileNum /\ d'.readPos = d.readPos
      /\ d'.nextReadFileNum = d.nextReadFileNum /\ d'.nextReadPos = d.nextReadPos
      /\ d'.writeFileNum = n + (IF a + Size[m] > MaxBytesPerFile THEN 1 ELSE 0)
      /\ d'.writePos = (IF a + Size[m] > MaxBytesPerFile THEN 0 ELSE a + Size[m])
      /\ writeFile' \in {d'.writeFileNum, Nil} /\ metaData' \in Positions \cup {Nil}
      /\ owed' \subseteq owed \cup {m}
  BY <1>0, <1>2, <1>3, WriteMoves
<1>6. d'.writeFileNum = NextF(G, R, m) /\ d'.writePos = NextP(R, m)
  BY <1>3, <1>4, <1>5 DEF NextF, NextP, Rolls
\* The file: m is new at the write position, and what was before it stays.
<1>7. /\ files[n] \in Seq(Cell) \cup {Nil}
      /\ IF files[n] = Nil THEN a = 0 ELSE a <= Len(files[n])
  BY <1>0, <1>3 DEF Types, Frame, FileInv
<1>8. /\ g \in Seq(Cell) /\ Len(g) \in Nat /\ a + Size[m] <= Len(g) /\ a <= Len(g)
      /\ \A i \in 1 .. a : g[i] = files[n][i]
      /\ \A k \in 1 .. Size[m] : g[a + k] = <<m, k>>
  <2> DEFINE f == files[n]
             cs == Cells(m)
  <2>1. f \in Seq(Cell) \cup {Nil} /\ (IF f = Nil THEN a = 0 ELSE a <= Len(f))  BY <1>7
  <2>2. cs \in Seq(Cell) /\ Len(cs) = Size[m] /\ \A k \in 1 .. Size[m] : cs[k] = <<m, k>>
    BY CellsOf
  <2>3. g = WriteAt(f, a, cs)  OBVIOUS
  <2> HIDE DEF f, cs, g, a, n
  <2>4. /\ g \in Seq(Cell) /\ a + Size[m] <= Len(g)
        /\ \A i \in 1 .. a : g[i] = f[i]
        /\ \A k \in 1 .. Size[m] : g[a + k] = <<m, k>>
    <3>1. a \in Nat  BY <1>3
    <3>2. /\ WriteAt(f, a, cs) \in Seq(Cell)
          /\ a + Len(cs) <= Len(WriteAt(f, a, cs))
          /\ \A i \in 1 .. a : WriteAt(f, a, cs)[i] = f[i]
          /\ \A k \in 1 .. Len(cs) : WriteAt(f, a, cs)[a + k] = cs[k]
      BY <2>1, <2>2, <3>1, WriteAtPlace
    <3> QED  BY <2>2, <2>3, <3>2
  <2>5. Len(g) \in Nat  BY <2>4, LenProperties
  <2>6. a <= Len(g)
    <3> HIDE DEF a, n
    <3> QED  BY <1>3, <2>4, <2>5
  <2> QED  BY <2>4, <2>5, <2>6 DEF f, n, a
<1> HIDE DEF g
<1>9. g # Nil  BY <1>8, DiskQueueAssumption
<1>10. \A k \in FileNum : files'[k] = IF k = n THEN g ELSE files[k]
  BY <1>0, <1>2, <1>3 DEF Types
\* The queue: m is new at its end.
<1>11. /\ q' \in Seq(Msg) /\ Len(q') = l + 1 /\ q'[l + 1] = m
       /\ \A i \in 1 .. l : q'[i] = q[i]
  BY <1>2, <1>3, AppendProperties
<1>12. \A i \in 1 .. l : q[i] # m /\ q[i] \in Msg
  BY <1>0, <1>2, <1>3, DataFacts DEF Frame, OnceInv
<1>13. \A i \in 1 .. l : /\ G[q[i]] = F[q[i]] /\ R[q[i]] = P[q[i]]
                         /\ NextF(G, R, q[i]) = NextF(F, P, q[i])
                         /\ NextP(R, q[i]) = NextP(P, q[i])
  <2>1. \A i \in 1 .. l : G[q[i]] = F[q[i]] /\ R[q[i]] = P[q[i]]
    BY <1>4, <1>12
  <2> QED  BY <2>1 DEF NextF, NextP, Rolls
<1>14. \A i \in 1 .. Len(q') : i \in 1 .. l \/ i = l + 1
  BY <1>3, <1>11
<1>15. Types'
  <2>1. files' \in [FileNum -> Seq(Cell) \cup {Nil}]  BY <1>0, <1>2, <1>8 DEF Types
  <2>2. count' \in Nat /\ put' \subseteq Msg /\ owed' \subseteq Msg
    BY <1>0, <1>2, <1>5 DEF Types
  <2> QED  BY <1>0, <1>2, <1>5, <1>11, <2>1, <2>2 DEF Types
<1>16. OnceInv'
  <2>1. \A i \in 1 .. l : q[i] \in put /\ \A j \in 1 .. l : q[i] = q[j] => i = j
    BY <1>0 DEF Frame, OnceInv
  <2>2. \A i \in 1 .. Len(q') : q'[i] \in put'
    BY <1>2, <1>11, <1>14, <2>1
  <2>3. \A i, j \in 1 .. Len(q') : q'[i] = q'[j] => i = j
    BY <1>11, <1>12, <1>14, <2>1
  <2> QED  BY <2>2, <2>3 DEF OnceInv
<1>17. OwedInv'
  <2> SUFFICES ASSUME NEW x \in owed'
               PROVE  x \in sent' \/ \E i \in 1 .. Len(q') : q'[i] = x
    BY DEF OwedInv
  <2>1. l + 1 \in 1 .. Len(q') /\ \A i \in 1 .. l : i \in 1 .. Len(q')  BY <1>3, <1>11
  <2>2. CASE x = m  BY <1>11, <2>1, <2>2
  <2>3. CASE x \in owed
    BY <1>0, <1>2, <1>11, <2>1, <2>3 DEF Frame, OwedInv
  <2> QED  BY <1>5, <2>2, <2>3
<1>18. FileInv'
  <2>0. d'.writeFileNum \in {n, n + 1} /\ d'.writeFileNum \in Nat
    <3>1. d'.writeFileNum = n \/ d'.writeFileNum = n + 1  BY <1>3, <1>5
    <3> HIDE DEF n
    <3> QED  BY <1>3, <3>1
  <2>1. ASSUME NEW k \in FileNum, files'[k] # Nil  PROVE k \in d.readFileNum .. d'.writeFileNum
    <3>1. k \in d.readFileNum .. n
      <4>1. CASE k = n  BY <1>3, <4>1
      <4>2. CASE k # n  BY <1>0, <1>10, <2>1, <4>2 DEF Frame, FileInv
      <4> QED  BY <4>1, <4>2
    <3> QED  BY <1>3, <2>0, <3>1
  <2>2. CASE a + Size[m] > MaxBytesPerFile
    <3>1. d'.writeFileNum = n + 1 /\ d'.writePos = 0  BY <1>5, <2>2
    <3>2. n + 1 \notin d.readFileNum .. n /\ n + 1 # n  BY <1>3
    <3>3. files[n + 1] = Nil  BY <1>0, <1>3, <3>2 DEF Frame, FileInv
    <3>4. files'[n + 1] = Nil  BY <1>3, <1>10, <3>2, <3>3
    <3> QED  BY <1>3, <1>5, <2>1, <3>1, <3>4 DEF FileInv
  <2>3. CASE ~(a + Size[m] > MaxBytesPerFile)
    <3>1. d'.writeFileNum = n /\ d'.writePos <= Len(g)  BY <1>3, <1>5, <1>8, <2>3
    <3>2. files'[n] = g  BY <1>3, <1>10
    <3> QED  BY <1>3, <1>5, <1>9, <2>1, <3>1, <3>2 DEF FileInv
  <2> QED  BY <2>2, <2>3
\* What was in the files, and in the buffer, stays.
<1>18a. /\ \A i \in 1 .. Len(q) :
              LET x == q[i] IN
                  /\ F[x] \in FileNum /\ files'[F[x]] # Nil
                  /\ P[x] + Size[x] <= Len(files'[F[x]])
                  /\ \A k \in 1 .. Size[x] : files'[F[x]][P[x] + k] = <<x, k>>
        /\ reader # Nil =>
              LET h == files'[d.readFileNum] IN
                  /\ d.nextReadFileNum = d.readFileNum
                  /\ h # Nil /\ d.nextReadPos <= reader.off /\ reader.off <= Len(h)
                  /\ reader.buf = SubSeq(h, d.nextReadPos + 1, reader.off)
  BY <1>0, <1>1, <1>2, <1>8, WriteKeeps
<1>19. Buffered'
  <2>1. reader' = reader /\ d'.readFileNum = d.readFileNum
        /\ d'.nextReadFileNum = d.nextReadFileNum /\ d'.nextReadPos = d.nextReadPos
    BY <1>2, <1>5
  <2> SUFFICES ASSUME reader # Nil
               PROVE  LET h == files'[d.readFileNum] IN
                        /\ d.nextReadFileNum = d.readFileNum
                        /\ h # Nil /\ d.nextReadPos <= reader.off /\ reader.off <= Len(h)
                        /\ reader.buf = SubSeq(h, d.nextReadPos + 1, reader.off)
    BY <2>1 DEF Buffered
  <2> QED  BY <1>18a
<1>20. ExitInv'  BY <1>2 DEF ExitInv
<1>21. (d.depth = Len(q))'  BY <1>5, <1>11
<1>22. Chained(G, R)'
  <2>1. l + 1 \in 1 .. Len(q') /\ q' # << >> /\ l + 1 = Len(q')  BY <1>3, <1>11
  <2>2. G[q'[1]] = d'.readFileNum /\ R[q'[1]] = d'.readPos
    <3>1. CASE q = << >>
      <4>1. l = 0 /\ q'[1] = m  BY <1>11, <3>1, EmptySeq
      <4>2. d.readFileNum = n /\ d.readPos = a  BY <1>1, <3>1 DEF Layout, Chained
      <4> QED  BY <1>4, <1>5, <4>1, <4>2
    <3>2. CASE q # << >>
      <4>1. 1 \in 1 .. l  BY <1>3, <3>2, EmptySeq
      <4>2. F[q[1]] = d.readFileNum /\ P[q[1]] = d.readPos
        BY <1>1, <3>2 DEF Layout, Chained
      <4> QED  BY <1>5, <1>11, <1>13, <4>1, <4>2
    <3> QED  BY <3>1, <3>2
  <2>3. NextF(G, R, q'[Len(q')]) = d'.writeFileNum /\ NextP(R, q'[Len(q')]) = d'.writePos
    BY <1>6, <1>11, <2>1
  <2>4. ASSUME NEW i \in 1 .. Len(q') - 1
        PROVE  /\ G[q'[i + 1]] = NextF(G, R, q'[i])
               /\ R[q'[i + 1]] = NextP(R, q'[i])
    <3>1. i \in 1 .. l  BY <1>3, <1>11
    <3>2. q'[i] = q[i]  BY <1>11, <3>1
    <3>3. CASE i = l
      <4>1. q'[i + 1] = m  BY <1>11, <3>3
      <4>2. q # << >>  BY <1>3, <3>1, EmptySeq
      <4>3. NextF(F, P, q[i]) = n /\ NextP(P, q[i]) = a
        BY <1>1, <3>3, <4>2 DEF Layout, Chained
      <4> QED  BY <1>4, <1>13, <3>1, <3>2, <4>1, <4>3
    <3>4. CASE i # l
      <4>1. i + 1 \in 1 .. l /\ i \in 1 .. l - 1  BY <1>3, <3>1, <3>4
      <4>2. q'[i + 1] = q[i + 1]  BY <1>11, <4>1
      <4>3. F[q[i + 1]] = NextF(F, P, q[i]) /\ P[q[i + 1]] = NextP(P, q[i])
        BY <1>1, <4>1 DEF Layout, Chained
      <4> QED  BY <1>13, <3>1, <3>2, <4>1, <4>2, <4>3
    <3> QED  BY <3>3, <3>4
  <2> QED  BY <2>1, <2>2, <2>3, <2>4 DEF Chained, NextF, NextP, Rolls
<1>23. /\ d'.writeFileNum \in Nat /\ d'.writePos \in Nat
       /\ UpTo(n, a, d'.writeFileNum, d'.writePos)
  BY <1>3, <1>5 DEF UpTo
<1>24. \A i \in 1 .. l : /\ UpTo(NextF(F, P, q[i]), NextP(P, q[i]), n, a)
                         /\ NextF(F, P, q[i]) \in Nat /\ NextP(P, q[i]) \in Nat
  <2>1. \A i \in 1 .. l : UpTo(NextF(F, P, q[i]), NextP(P, q[i]), n, a)
    BY <1>1 DEF Layout, Ordered
  <2>2. \A i \in 1 .. l : NextF(F, P, q[i]) \in Nat /\ NextP(P, q[i]) \in 0 .. MaxBytesPerFile
    BY <1>0, <1>1, Places
  <2>3. \A z \in 0 .. MaxBytesPerFile : z \in Nat  BY <1>3
  <2> QED  BY <2>1, <2>2, <2>3
<1>25. Ordered(G, R)'
  <2>1. ASSUME NEW i \in 1 .. Len(q')
        PROVE  UpTo(NextF(G, R, q'[i]), NextP(R, q'[i]), d'.writeFileNum, d'.writePos)
    <3>1. CASE i \in 1 .. l
      <4>1. q'[i] = q[i] /\ NextF(G, R, q[i]) = NextF(F, P, q[i]) /\ NextP(R, q[i]) = NextP(P, q[i])
        BY <1>11, <1>13, <3>1
      <4>2. UpTo(NextF(F, P, q[i]), NextP(P, q[i]), d'.writeFileNum, d'.writePos)
        <5> DEFINE u == NextF(F, P, q[i])
                   v == NextP(P, q[i])
        <5>1. u \in Nat /\ v \in Nat /\ UpTo(u, v, n, a)  BY <1>24, <3>1
        <5> HIDE DEF u, v, n, a
        <5>2. UpTo(u, v, d'.writeFileNum, d'.writePos)  BY <1>3, <1>23, <5>1 DEF UpTo
        <5> QED  BY <5>2 DEF u, v
      <4> QED  BY <4>1, <4>2
    <3>2. CASE i = l + 1
      <4>1. q'[i] = m  BY <1>11, <3>2
      <4> QED  BY <1>6, <1>23, <4>1 DEF UpTo
    <3> QED  BY <1>14, <3>1, <3>2
  <2>2. ASSUME NEW i \in 1 .. Len(q'), NEW j \in 1 .. Len(q'), i < j
        PROVE  UpTo(NextF(G, R, q'[i]), NextP(R, q'[i]), G[q'[j]], R[q'[j]])
    <3>1. i \in 1 .. l /\ q'[i] = q[i]
      <4>1. i \in 1 .. l
        <5>1. i \in 1 .. l + 1 /\ j \in 1 .. l + 1  BY <1>11
        <5> HIDE DEF l
        <5> QED  BY <1>3, <2>2, <5>1
      <4> QED  BY <1>11, <4>1
    <3>2. CASE j \in 1 .. l
      <4>1. UpTo(NextF(F, P, q[i]), NextP(P, q[i]), F[q[j]], P[q[j]])
        BY <1>1, <2>2, <3>1, <3>2 DEF Layout, Ordered
      <4> QED  BY <1>11, <1>13, <3>1, <3>2, <4>1
    <3>3. CASE j = l + 1
      <4>1. q'[j] = m  BY <1>11, <3>3
      <4> QED  BY <1>4, <1>13, <1>24, <3>1, <4>1
    <3> QED  BY <1>14, <3>2, <3>3
  <2> QED  BY <2>1, <2>2 DEF Ordered, NextF, NextP, Rolls, UpTo
<1>26. ASSUME NEW i \in 1 .. Len(q')  PROVE Written(G, R, q[i])'
  <2>1. CASE i = l + 1
    <3>1. q'[i] = m /\ files'[n] = g  BY <1>3, <1>10, <1>11, <2>1
    <3>2. R[m] + Size[m] <= Len(g)  BY <1>3, <1>4, <1>8
    <3>3. \A k \in 1 .. Size[m] : g[R[m] + k] = <<m, k>>  BY <1>4, <1>8
    <3> HIDE DEF a, n
    <3> QED  BY <1>3, <1>4, <1>9, <3>1, <3>2, <3>3 DEF Written
  <2>2. CASE i \in 1 .. l
    <3>1. q'[i] = q[i] /\ G[q[i]] = F[q[i]] /\ R[q[i]] = P[q[i]]  BY <1>11, <1>13, <2>2
    <3> DEFINE x == q[i]
    <3>2. /\ F[x] \in FileNum /\ files'[F[x]] # Nil
          /\ P[x] + Size[x] <= Len(files'[F[x]])
          /\ \A k \in 1 .. Size[x] : files'[F[x]][P[x] + k] = <<x, k>>
      BY <1>18a, <2>2
    <3>3. q'[i] = x /\ G[x] = F[x] /\ R[x] = P[x]  BY <3>1
    <3> HIDE DEF x
    <3> QED  BY <3>2, <3>3 DEF Written
  <2> QED  BY <1>14, <2>1, <2>2
<1>27. Layout(G, R)'  BY <1>22, <1>25, <1>26 DEF Layout
<1>28. ReadInv(G, R)'
  <2>1. Unread \/ Ahead(F, P)  BY <1>1, <1>2 DEF ReadInv
  <2>2. Unread => Unread'  BY <1>5 DEF Unread
  <2>3. ASSUME Ahead(F, P)  PROVE Ahead(G, R)'
    <3>1. q # << >> /\ 1 \in 1 .. l  BY <1>3, <2>3, EmptySeq DEF Ahead
    <3>2. q'[1] = q[1] /\ q' # << >>  BY <1>3, <1>11, <3>1
    <3>3. /\ dataRead' = q'[1] /\ d'.nextReadFileNum = NextF(G, R, q'[1])
          /\ d'.nextReadPos = NextP(R, q'[1])
      BY <1>2, <1>5, <1>13, <2>3, <3>1, <3>2 DEF Ahead
    <3> QED  BY <3>2, <3>3 DEF Ahead, NextF, NextP, Rolls
  <2> QED  BY <1>2, <2>1, <2>2, <2>3 DEF ReadInv
<1>29. Frame'  BY <1>16, <1>17, <1>18, <1>19, <1>20, <1>21 DEF Frame
<1> QED  BY <1>4, <1>15, <1>27, <1>28, <1>29 DEF Inv

LEMMA PutInv == ASSUME Inv, NEW m \in Msg, Put(m), ~mixed' PROVE Inv'
<1>1. WriteOK(m) \/ WriteFails(m)  BY DEF Put
<1> QED  BY <1>1, WriteOKInv, WriteFailsInv

-----------------------------------------------------------------------------
(* The theorems.                                                             *)

LEMMA InitInv == ASSUME Init PROVE Inv
<1>1. d = Empty0 /\ Empty0 \in Positions  BY Sizes DEF Init, Empty0, Positions, FileNum
<1>2. q = << >> /\ q \in Seq(Msg) /\ Len(q) = 0  BY EmptySeq DEF Init
<1>3. \A n \in FileNum : files[n] = Nil  BY DEF Init
<1>4. Types
  <2>1. files \in [FileNum -> Seq(Cell) \cup {Nil}]  BY DEF Init
  <2>2. crashes \in 0 .. MaxCrashes /\ count \in Nat  BY DiskQueueAssumption DEF Init
  <2> QED  BY <1>1, <1>2, <2>1, <2>2 DEF Init, Types
<1>5. /\ d.depth = 0 /\ d.readFileNum = 0 /\ d.readPos = 0 /\ d.writeFileNum = 0
      /\ d.writePos = 0 /\ d.nextReadFileNum = 0 /\ d.nextReadPos = 0
  BY <1>1 DEF Empty0
<1>6. FileInv  BY <1>3, <1>5, Sizes DEF FileInv, FileNum
<1>7. Frame
  BY <1>2, <1>5, <1>6 DEF Init, Frame, OnceInv, Buffered, OwedInv, ExitInv
<1> DEFINE F == [m \in Msg |-> 0]
<1>8. F \in [Msg -> Nat]  OBVIOUS
<1>9. Layout(F, F)  BY <1>2, <1>5 DEF Layout, Chained, Ordered
<1>10. ReadInv(F, F)  BY <1>5 DEF Init, ReadInv, Unread
<1> QED  BY <1>4, <1>7, <1>8, <1>9, <1>10 DEF Inv

LEMMA StutterInv == ASSUME Inv, UNCHANGED vars PROVE Inv'
<1>0. Types /\ Frame  BY DEF Inv
<1>1. /\ UNCHANGED <<pc, d, count, writeFile, reader, dataRead, files, metaData, deleting,
                     crashes, q, put, owed, sent>>
  BY DEF vars
<1>2. PICK F, P \in [Msg -> Nat] : Layout(F, P) /\ ReadInv(F, P)  BY DEF Inv
<1>3. SamePlaces /\ SameRange  BY <1>1 DEF SamePlaces, SameRange
<1>4. Types'  BY <1>0, <1>1 DEF Types
<1>5. OnceInv' /\ Buffered' /\ OwedInv'  BY <1>0, <1>1, <1>3, Kept DEF Frame
<1>6. FileInv' /\ (d.depth = Len(q))' /\ Layout(F, P)' /\ (AtTail(d)' <=> AtTail(d))
  BY <1>0, <1>1, <1>2, <1>3, LayoutKept DEF Frame
<1>7. ExitInv'  BY <1>0, <1>1 DEF Frame, ExitInv, NoFiles, Same
<1>8. ReadInv(F, P)'
  <2>1. (Ahead(F, P) => Ahead(F, P)') /\ (Unread => Unread')  BY <1>1, <1>2, <1>3, Kept
  <2> QED  BY <1>1, <1>2, <1>6, <2>1 DEF ReadInv
<1> QED  BY <1>4, <1>5, <1>6, <1>7, <1>8 DEF Inv, Frame

\* Until the process crashes, or a Put writes over what the reader has buffered, q
\* is laid out in the files between the read and the write position, and dataRead
\* is its head.
InPlace == crashes = 0 /\ ~mixed
UntilLost == crashes \in Nat /\ mixed \in BOOLEAN /\ (InPlace => Inv)

LEMMA StepInv == ASSUME UntilLost, [Next]_vars PROVE UntilLost'
<1>1. CASE UNCHANGED vars
  <2>1. crashes' = crashes /\ mixed' = mixed  BY <1>1 DEF vars
  <2> QED  BY <1>1, <2>1, StutterInv DEF UntilLost, InPlace
<1>2. CASE \E kind \in env.crashes : Crash(kind)
  <2>1. crashes' = crashes + 1 /\ mixed' = mixed  BY <1>2 DEF Crash, Gone
  <2> QED  BY <2>1 DEF UntilLost, InPlace
<1>3. CASE \E m \in Msg : Put(m)
  <2>1. PICK m \in Msg : Put(m)  BY <1>3
  <2>2. crashes' = crashes /\ mixed' \in BOOLEAN /\ (mixed => mixed')
    BY <2>1 DEF Put, UntilLost
  <2>3. ASSUME InPlace'  PROVE Inv'
    <3>1. Inv /\ ~mixed'  BY <2>2, <2>3 DEF UntilLost, InPlace
    <3> QED  BY <2>1, <3>1, PutInv
  <2> QED  BY <2>2, <2>3 DEF UntilLost
<1>4. CASE \/ LoopTop \/ ReadAhead \/ Deliver \/ Tick \/ Close \/ Delete \/ Restart
           \/ \E last \in BOOLEAN : Empty(last)
  <2>1. crashes' = crashes /\ mixed' = mixed
    BY <1>4 DEF LoopTop, ReadAhead, Deliver, Tick, Empty, Close, Delete, Gone, Restart
  <2>2. ASSUME Inv  PROVE Inv'
    BY <1>4, <2>2, LoopTopInv, ReadAheadInv, DeliverInv, TickInv, EmptyInv, CloseInv,
       DeleteInv, RestartInv
  <2> QED  BY <2>1, <2>2 DEF UntilLost, InPlace
<1> QED  BY <1>1, <1>2, <1>3, <1>4 DEF Next

\* No step of ioLoop, of its callers or of a new process that read the metadata
\* breaks the layout of the queue in the files; a write that fails half-way does
\* not, unless the reader buffers its bytes before the next Put overwrites them.
THEOREM DiskQueueInvariant == Spec => []UntilLost
<1>1. Init => UntilLost
  <2>1. Init => crashes \in Nat  BY DEF Init
  <2>2. Init => mixed \in BOOLEAN  BY DEF Init
  <2> QED  BY <2>1, <2>2, InitInv DEF UntilLost
<1>2. UntilLost /\ [Next]_vars => UntilLost'  BY StepInv
<1> QED  BY <1>1, <1>2, PTL DEF Spec

\* As long as the queue is in place the state of ioLoop is well typed: the positions
\* stay inside a file, and what the reader has buffered and the files hold are cells.
THEOREM TypeCorrect == Spec => [](InPlace => TypeOK)
<1>1. UntilLost => (InPlace => TypeOK)
  <2> SUFFICES ASSUME Types, mixed \in BOOLEAN  PROVE TypeOK
    BY DEF UntilLost, Inv
  <2>1. reader # Nil => reader.buf \in Seq(Cell)  BY DEF Types
  <2>2. \A n \in FileNum : files[n] # Nil => files[n] \in Seq(Cell)  BY DEF Types
  <2> QED  BY <2>1, <2>2 DEF Types, TypeOK
<1> QED  BY <1>1, DiskQueueInvariant, PTL

\* Depth() is the number of messages still to be delivered: Put() counts exactly
\* the messages it wrote to the end, whatever its sync did, moveForward() one for
\* each delivery, and Empty(), Close() and a new process agree on it.
THEOREM DepthIsExact == Spec => []DepthExact
<1>1. UntilLost => DepthExact  BY DEF UntilLost, InPlace, Inv, Frame, DepthExact
<1> QED  BY <1>1, DiskQueueInvariant, PTL

\* moveForward() and deleteAllFiles() leave no data file behind the read position, and
\* nobody creates one after the write position.
THEOREM NoFileLeftBehind == Spec => []NoStrayFiles
<1>1. UntilLost => NoStrayFiles  BY DEF UntilLost, InPlace, Inv, Frame, FileInv, NoStrayFiles
<1> QED  BY <1>1, DiskQueueInvariant, PTL

\* What ioLoop offers on readChan is the oldest message written and not delivered,
\* for every size of message, file and read buffer: in a process that does not crash
\* the reader, the buffer it read ahead and the writer agree on where a message
\* begins, after failed and half-written Puts too, until a Put writes over bytes the
\* reader has buffered.
THEOREM FirstInFirstOut == Spec /\ [](crashes = 0) => []InOrder
<1>1. ASSUME UntilLost, crashes = 0  PROVE InOrder
  <2> SUFFICES ASSUME pc = "select", ~AtTail(d), ~mixed  PROVE q # << >> /\ dataRead = Head(q)
    BY DEF InOrder
  <2>1. Inv  BY <1>1 DEF UntilLost, InPlace
  <2>2. PICK F, P \in [Msg -> Nat] : ReadInv(F, P)  BY <2>1 DEF Inv
  <2>3. q # << >> /\ dataRead = q[1]  BY <2>2 DEF ReadInv, Ahead
  <2>4. q \in Seq(Msg)  BY <2>1 DEF Inv, Types
  <2>5. Head(q) = q[1]  BY <2>3, <2>4, HeadTailProperties
  <2> QED  BY <2>3, <2>5
<1> QED  BY <1>1, DiskQueueInvariant, PTL

\* Once the reader is at the write position every message whose Put() was
\* acknowledged, and that Empty() did not drop, has been delivered, under the same
\* condition.
THEOREM AllDelivered == Spec /\ [](crashes = 0) => []NothingOwed
<1>1. ASSUME UntilLost, crashes = 0  PROVE NothingOwed
  <2> SUFFICES ASSUME pc = "select", AtTail(d), ~mixed  PROVE owed \subseteq sent
    BY DEF NothingOwed
  <2>1. Inv  BY <1>1 DEF UntilLost, InPlace
  <2>2. PICK F, P \in [Msg -> Nat] : Layout(F, P)  BY <2>1 DEF Inv
  <2>3. Types /\ OwedInv  BY <2>1 DEF Inv, Frame
  <2>4. q = << >>
    <3> SUFFICES ASSUME q # << >>  PROVE FALSE
      OBVIOUS
    <3>1. 1 \in 1 .. Len(q)  BY <2>3, DataFacts, EmptySeq DEF Types
    <3> DEFINE f == NextF(F, P, q[1])
               p == NextP(P, q[1])
    <3>2. F[q[1]] = d.readFileNum /\ P[q[1]] = d.readPos /\ UpTo(f, p, d.writeFileNum, d.writePos)
      BY <2>2, <3>1 DEF Layout, Chained, Ordered
    <3>3. f \in Nat /\ p \in Nat /\ ~UpTo(f, p, d.readFileNum, d.readPos)
      <4>1. f \in Nat /\ p \in 0 .. MaxBytesPerFile /\ ~UpTo(f, p, F[q[1]], P[q[1]])
        BY <2>2, <2>3, <3>1, Places
      <4> QED  BY <3>2, <4>1, Sizes
    <3> HIDE DEF f, p
    <3> QED  BY <2>3, <3>2, <3>3, DataFacts DEF UpTo, AtTail
  <2>5. Len(q) = 0  BY <2>4, EmptySeq
  <2> QED  BY <2>3, <2>5 DEF OwedInv
<1> QED  BY <1>1, DiskQueueInvariant, PTL
==============================================================================
