---------------------------- MODULE LookupProofs ----------------------------
(***************************************************************************)
(* Lookup for every set of nodes and channels and every bound: its types,  *)
(* and what the database of nsqlookupd says of a connection while its      *)
(* commands, those of other connections and the HTTP requests interleave.  *)
(***************************************************************************)
EXTENDS Lookup, FiniteSetTheorems, SequenceTheorems, TLAPS

USE DEF nodes, config, db, bounds

Commands == {<<"PING", "client">>, <<"IDENTIFY", "client">>}
              \cup ({"REGISTER", "UNREGISTER"} \X Item)
LoopRecord == [conn : 0..MaxConns, sent : BOOLEAN, cmds : Seq(Commands)]

\* The calls of a command, of the end of IOLoop and of an HTTP request.
OpenCalls == ({"add"} \X Key) \cup ({"remove"} \X Chan) \cup ({"removeLast", "drop"} \X Item)
EndCalls == {"remove"} \X Key
HttpCalls == {"addKey", "drop"} \X Item
Calls == {"add", "addKey", "remove", "removeLast", "drop"} \X Key
ServerRecord == [pc : {"open", "closed"}, todo : Seq(Calls)]

NodeTypes ==
    /\ has \in [Node -> [Item -> 0..MaxMade]] /\ made \in [Node -> [Item -> 0..MaxMade]]
    /\ \A p \in pend : p[2] \in Item
    /\ wanted \subseteq Node /\ peers \subseteq Node
    /\ conns \in 0..MaxConns

LoopTypes == loop \in [Node -> LoopRecord]

DbTypes == keys \subseteq Key /\ prod \subseteq keys \X Conn /\ tomb \subseteq prod

ServerTypes ==
    /\ srv \in [Conn \cup {HTTP} -> ServerRecord]
    /\ srv[HTTP].pc = "closed"
    /\ \A j \in 1..Len(srv[HTTP].todo) : srv[HTTP].todo[j] \in HttpCalls
    /\ \A i \in Conn : \A j \in 1..Len(srv[i].todo) :
          srv[i].todo[j] \in IF srv[i].pc = "open" THEN OpenCalls ELSE EndCalls

Types == NodeTypes /\ LoopTypes /\ DbTypes /\ ServerTypes

\* A loop with something to send has a connection, and nsqlookupd serves it unless the
\* connection is lost.  A connection that has not been made is not served.
LinkInv ==
    /\ \A n \in Node :
          /\ loop[n].sent => loop[n].cmds # << >>
          /\ loop[n].cmds # << >> => loop[n].conn # 0
          /\ loop[n].conn # 0 /\ loop[n].conn \notin cut => srv[loop[n].conn].pc = "open"
    /\ \A i \in Conn : i > conns => srv[i].pc = "closed" /\ srv[i].todo = << >>

\* The registrations that a connection leaves behind are those that IOLoop is about
\* to remove.
GhostInv ==
    \A i \in Conn, k \in Key : <<k, i>> \in prod /\ srv[i].pc # "open" =>
        \E j \in 1..Len(srv[i].todo) : srv[i].todo[j] = <<"remove", k>>

\* REGISTER of a channel ends with the topic.  UNREGISTER of the topic ends with the
\* topic too, once it has removed each channel the connection is registered for; the
\* topic's key is dropped only after that.  P is the set of registrations.
EndsWith(s, op) == s # << >> /\ s[Len(s)] = <<op, T>>

Proper(P, i, s) ==
    /\ \A j \in 1..Len(s), c \in Chan : s[j] = <<"add", c>> => EndsWith(s, "add")
    /\ \A j \in 1..Len(s) : s[j] = <<"removeLast", T>> =>
          /\ j = Len(s)
          /\ \A c \in Chan : <<c, i>> \in P => \E h \in 1..Len(s) : s[h] = <<"remove", c>>
    /\ \A j \in 1..Len(s) : s[j] = <<"drop", T>> =>
          j = Len(s) /\ \A c \in Chan : <<c, i>> \notin P
    /\ EndsWith(s, "removeLast") \/ EndsWith(s, "drop") =>
          \A j \in 1..Len(s) : s[j][1] # "add"

CommandInv == \A i \in Conn : srv[i].pc = "open" => Proper(prod, i, srv[i].todo)

Excused == excuse \cap {"deleted by an administrator", "dropped under another producer"} # {}

TopicInv ==
    Excused \/ \A i \in Conn, c \in Chan : srv[i].pc = "open" /\ <<c, i>> \in prod =>
                  <<T, i>> \in prod \/ EndsWith(srv[i].todo, "add")

Inv == Types /\ LinkInv /\ GhostInv /\ CommandInv /\ TopicInv

-----------------------------------------------------------------------------
(* Constants and sequences.                                                 *)

LEMMA Constants ==
    /\ IsFiniteSet(Chan) /\ T \notin Chan /\ "client" \notin Chan /\ "client" # T
    /\ Ephemeral \subseteq Item /\ T \in Item /\ Chan \subseteq Item /\ Item \subseteq Key
    /\ "client" \in Key /\ \A x \in Item : x # T => x \in Chan
    /\ MaxMade \in Nat /\ MaxConns \in Nat
    /\ HTTP = 0 /\ HTTP \notin Conn /\ \A i \in Conn : i # 0 /\ i \in Nat
<1>1. MaxMade \in Nat /\ MaxConns \in Nat  BY LookupAssumption
<1>2. HTTP = 0 /\ HTTP \notin Conn /\ \A i \in Conn : i # 0 /\ i \in Nat
  BY <1>1 DEF HTTP, Conn
<1> QED  BY <1>1, <1>2, LookupAssumption DEF Item, Key

LEMMA SetSeq ==
    ASSUME NEW S, IsFiniteSet(S)
    PROVE  /\ SetToSeq(S) \in Seq(S)
           /\ \A x \in S : \E j \in 1..Len(SetToSeq(S)) : SetToSeq(S)[j] = x
<1> DEFINE N == Cardinality(S)
           f == SetToSeq(S)
<1>1. N \in Nat /\ ExistsBijection(1..N, S)  BY FS_CardinalityType
<1>2. \E g \in [1..N -> S] : IsInjective(g)
  BY <1>1 DEF ExistsBijection, Bijection, Injection
<1>3. f \in [1..N -> S] /\ IsInjective(f)
  BY <1>2 DEF SetToSeq
<1> HIDE DEF f
<1>4. IsFiniteSet(1..N) /\ Cardinality(1..N) = N
  BY <1>1, FS_Interval
<1>5. f \in Injection(1..N, S)  BY <1>3 DEF Injection
<1>6. f \in Surjection(1..N, S)
  BY <1>4, <1>5, FS_Injection
<1>7. f \in Seq(S) /\ Len(f) = N
  BY <1>1, <1>3
<1>8. \A x \in S : \E j \in 1..N : f[j] = x  BY <1>6 DEF Surjection
<1> QED  BY <1>7, <1>8 DEF f

\* The calls, or commands, op for each member of a set.
LEMMA ForEach ==
    ASSUME NEW op, NEW S, IsFiniteSet(S)
    PROVE  /\ SetToSeq({<<op, x>> : x \in S}) \in Seq({op} \X S)
           /\ \A x \in S : \E j \in 1..Len(SetToSeq({<<op, y>> : y \in S})) :
                 SetToSeq({<<op, y>> : y \in S})[j] = <<op, x>>
<1> DEFINE Q == {<<op, x>> : x \in S}
           f == [x \in S |-> <<op, x>>]
<1>1. f \in Surjection(S, Q)  BY DEF Surjection
<1>2. IsFiniteSet(Q)  BY <1>1, FS_Surjection
<1>3. Q = {op} \X S  OBVIOUS
<1>4. \A x \in S : <<op, x>> \in Q  OBVIOUS
<1> HIDE DEF Q
<1>5. SetToSeq(Q) \in Seq(Q) /\ \A q \in Q : \E j \in 1..Len(SetToSeq(Q)) : SetToSeq(Q)[j] = q
  BY <1>2, SetSeq
<1>6. \A x \in S : \E j \in 1..Len(SetToSeq(Q)) : SetToSeq(Q)[j] = <<op, x>>
  BY <1>4, <1>5
<1>7. SetToSeq(Q) \in Seq({op} \X S)  BY <1>3, <1>5
<1> QED  BY <1>6, <1>7 DEF Q

LEMMA Joined ==
    ASSUME NEW S, NEW s \in Seq(S), NEW t \in Seq(S)
    PROVE  /\ s \o t \in Seq(S) /\ Len(s \o t) = Len(s) + Len(t)
           /\ Len(s) \in Nat /\ Len(t) \in Nat
           /\ \A j \in 1..Len(s) : (s \o t)[j] = s[j] /\ s[j] \in S
           /\ \A j \in 1..Len(t) : (s \o t)[Len(s) + j] = t[j] /\ t[j] \in S
           /\ \A j \in 1..Len(s \o t) : j \in 1..Len(s) \/ (j - Len(s)) \in 1..Len(t)
OBVIOUS

LEMMA TailFacts ==
    ASSUME NEW S, NEW s \in Seq(S), s # << >>
    PROVE  /\ Tail(s) \in Seq(S) /\ Head(s) \in S /\ Head(s) = s[1]
           /\ Len(s) \in Nat /\ Len(s) > 0 /\ Len(Tail(s)) = Len(s) - 1
           /\ \A j \in 1..Len(Tail(s)) : Tail(s)[j] = s[j + 1] /\ j + 1 \in 1..Len(s)
           /\ \A j \in 1..Len(s) : j = 1 \/ ((j - 1) \in 1..Len(Tail(s)) /\ Tail(s)[j - 1] = s[j])
BY HeadTailProperties, LenProperties

-----------------------------------------------------------------------------
(* What connectCallback sends, and what commands and requests call.         *)

LEMMA SnapshotFacts ==
    ASSUME NEW n \in Node
    PROVE  Snapshot(n) \in Seq(Commands)
<1> DEFINE cs == {c \in Chan : has[n][c] # 0}
<1>1. IsFiniteSet(cs) /\ cs \subseteq Item  BY Constants, FS_Subset
<1> HIDE DEF cs
<1>2. SetToSeq({<<"REGISTER", c>> : c \in cs}) \in Seq({"REGISTER"} \X cs)
  BY <1>1, ForEach
<1>3. {"REGISTER"} \X cs \subseteq Commands /\ <<"REGISTER", T>> \in Commands
  BY <1>1, Constants DEF Commands
<1>4. SetToSeq({<<"REGISTER", c>> : c \in cs}) \in Seq(Commands)
  <2> HIDE DEF Commands
  <2> QED  BY <1>2, <1>3
<1>5. << >> \in Seq(Commands) /\ <<<<"REGISTER", T>>>> \in Seq(Commands)
  <2> DEFINE e == <<"REGISTER", T>>
  <2>1. e \in Commands  BY <1>3
  <2> HIDE DEF e, Commands
  <2>2. << >> \in Seq(Commands) /\ <<e>> \in Seq(Commands)  BY <2>1
  <2> QED  BY <2>2 DEF e
<1> QED  BY <1>4, <1>5 DEF Snapshot, cs

\* A sequence of calls of one connection, as CommandInv wants them.
Fine(i, s) ==
    s \in Seq(Calls) /\ (\A j \in 1..Len(s) : s[j] \in OpenCalls) /\ Proper(prod, i, s)

LEMMA CallSets == OpenCalls \subseteq Calls /\ EndCalls \subseteq Calls /\ HttpCalls \subseteq Calls
BY Constants DEF OpenCalls, EndCalls, HttpCalls, Calls

LEMMA EmptyFine ==
    ASSUME NEW i
    PROVE  Fine(i, << >>)
<1>1. << >> \in Seq(Calls) /\ Len(<< >>) = 0  OBVIOUS
<1> QED  BY <1>1 DEF Fine, Proper, EndsWith

LEMMA OneFine ==
    ASSUME NEW i, NEW k \in Key, k \notin Chan
    PROVE  Fine(i, <<<<"add", k>>>>)
<1> DEFINE e == <<"add", k>>
<1>1. e \in OpenCalls /\ e \in Calls  BY CallSets DEF OpenCalls
<1>2. e # <<"removeLast", T>> /\ e # <<"drop", T>> /\ \A c \in Chan : e # <<"add", c>>
  OBVIOUS
<1> HIDE DEF e, Calls, OpenCalls
<1>3. <<e>> \in Seq(Calls) /\ Len(<<e>>) = 1 /\ <<e>>[1] = e
  BY <1>1
<1>4. \A j \in 1..Len(<<e>>) : <<e>>[j] = e  BY <1>3
<1>5. Fine(i, <<e>>)  BY <1>1, <1>2, <1>3, <1>4 DEF Fine, Proper, EndsWith
<1> QED  BY <1>5 DEF e

LEMMA TwoFine ==
    ASSUME NEW i, NEW c \in Chan
    PROVE  Fine(i, <<<<"add", c>>, <<"add", T>>>>)
<1> DEFINE d == <<"add", c>>
           e == <<"add", T>>
<1>1. {d, e} \subseteq OpenCalls /\ {d, e} \subseteq Calls  BY CallSets, Constants DEF OpenCalls
<1>2. \A x \in {d, e} : x # <<"removeLast", T>> /\ x # <<"drop", T>>
  OBVIOUS
<1>3. e = <<"add", T>>  OBVIOUS
<1> HIDE DEF d, e, Calls, OpenCalls
<1>4. <<d, e>> \in Seq(Calls) /\ Len(<<d, e>>) = 2 /\ <<d, e>>[1] = d /\ <<d, e>>[2] = e
      /\ <<d, e>> # << >>
  BY <1>1
<1>5. \A j \in 1..Len(<<d, e>>) : <<d, e>>[j] \in {d, e}  BY <1>4
<1>6. EndsWith(<<d, e>>, "add") /\ ~EndsWith(<<d, e>>, "removeLast") /\ ~EndsWith(<<d, e>>, "drop")
  BY <1>2, <1>3, <1>4 DEF EndsWith
<1>7. Fine(i, <<d, e>>)  BY <1>1, <1>2, <1>4, <1>5, <1>6 DEF Fine, Proper
<1> QED  BY <1>7 DEF d, e

LEMMA LastFine ==
    ASSUME NEW i, NEW c \in Chan
    PROVE  Fine(i, <<<<"removeLast", c>>>>)
<1> DEFINE e == <<"removeLast", c>>
<1>1. e \in OpenCalls /\ e \in Calls  BY CallSets, Constants DEF OpenCalls
<1>2. e # <<"removeLast", T>> /\ e # <<"drop", T>> /\ e[1] # "add"
      /\ \A d \in Chan : e # <<"add", d>>
  BY Constants
<1> HIDE DEF e, Calls, OpenCalls
<1>3. <<e>> \in Seq(Calls) /\ Len(<<e>>) = 1 /\ <<e>>[1] = e
  BY <1>1
<1>4. \A j \in 1..Len(<<e>>) : <<e>>[j] = e  BY <1>3
<1>5. Fine(i, <<e>>)  BY <1>1, <1>2, <1>3, <1>4 DEF Fine, Proper, EndsWith
<1> QED  BY <1>5 DEF e

\* UNREGISTER of the topic: its channels first, each that has a key.
LEMMA UnregisterFine ==
    ASSUME DbTypes, NEW i \in Conn
    PROVE  Fine(i, Unregistering(T))
<1> DEFINE S == FindRegistrations(Chan)
           s == SetToSeq({<<"remove", c>> : c \in S})
           e == <<"removeLast", T>>
           q == s \o <<e>>
<1>1. S \subseteq Chan /\ IsFiniteSet(S) /\ \A c \in Chan : <<c, i>> \in prod => c \in S
  <2>1. S \subseteq Chan  BY DEF FindRegistrations
  <2>2. IsFiniteSet(S)  BY <2>1, Constants, FS_Subset
  <2> QED  BY <2>1, <2>2 DEF DbTypes, FindRegistrations
<1> HIDE DEF S
<1>2. s \in Seq({"remove"} \X S) /\ \A c \in S : \E j \in 1..Len(s) : s[j] = <<"remove", c>>
  BY <1>1, ForEach
<1>3. {"remove"} \X S \subseteq Calls /\ {"remove"} \X S \subseteq OpenCalls
  BY <1>1, CallSets DEF OpenCalls
<1>4. e \in Calls /\ e \in OpenCalls /\ e # <<"drop", T>> /\ e[1] # "add"
      /\ \A c \in Chan : e # <<"add", c>>
  BY CallSets, Constants DEF OpenCalls
<1>5. \A x \in {"remove"} \X S : /\ x # <<"drop", T>> /\ x # <<"removeLast", T>> /\ x[1] # "add"
                                 /\ \A c \in Chan : x # <<"add", c>>
  OBVIOUS
<1> DEFINE R == {"remove"} \X S
<1> HIDE DEF e, s, Calls, OpenCalls, R
<1>6. s \in Seq(Calls)  BY <1>2, <1>3 DEF R
<1>7. <<e>> \in Seq(Calls) /\ Len(<<e>>) = 1 /\ <<e>>[1] = e
  BY <1>4
<1>8. /\ q \in Seq(Calls) /\ Len(q) = Len(s) + 1 /\ Len(s) \in Nat
      /\ \A j \in 1..Len(s) : q[j] = s[j]
      /\ q[Len(s) + 1] = e /\ q # << >>
      /\ \A j \in 1..Len(q) : j \in 1..Len(s) \/ j = Len(q)
  BY <1>6, <1>7, Joined
<1>9. \A j \in 1..Len(s) : s[j] \in R
  BY <1>2 DEF R
<1>10. \A j \in 1..Len(q) : (j = Len(q) /\ q[j] = e) \/ (j \in 1..Len(s) /\ q[j] \in R)
  BY <1>8, <1>9
<1> HIDE DEF q
<1>11. \A j \in 1..Len(q) : q[j] \in OpenCalls
  BY <1>3, <1>4, <1>10 DEF R
<1>12. \A j \in 1..Len(q) : /\ q[j] # <<"drop", T>> /\ q[j][1] # "add"
                            /\ \A c \in Chan : q[j] # <<"add", c>>
                            /\ q[j] = <<"removeLast", T>> => j = Len(q)
  BY <1>4, <1>5, <1>10 DEF R
<1>13. \A c \in Chan : <<c, i>> \in prod => \E h \in 1..Len(q) : q[h] = <<"remove", c>>
  BY <1>1, <1>2, <1>8
<1>14. Fine(i, q)  BY <1>8, <1>11, <1>12, <1>13 DEF Fine, Proper
<1> QED  BY <1>14 DEF q, s, e, S, Unregistering

LEMMA ProgramFine ==
    ASSUME DbTypes, NEW i \in Conn, NEW cmd \in Commands
    PROVE  Fine(i, Program(cmd))
<1>1. CASE cmd = <<"PING", "client">>
  BY <1>1, EmptyFine DEF Program
<1>2. CASE cmd = <<"IDENTIFY", "client">>
  BY <1>2, OneFine, Constants DEF Program, Identifying
<1>3. ASSUME NEW x \in Item, cmd = <<"REGISTER", x>>  PROVE Fine(i, Program(cmd))
  <2>1. Program(cmd) = Registering(x)  BY <1>3 DEF Program
  <2>2. CASE x = T
    BY <2>1, <2>2, OneFine, Constants DEF Registering
  <2>3. CASE x # T
    BY <2>1, <2>3, TwoFine, Constants DEF Registering
  <2> QED  BY <2>2, <2>3
<1>4. ASSUME NEW x \in Item, cmd = <<"UNREGISTER", x>>  PROVE Fine(i, Program(cmd))
  <2>1. Program(cmd) = Unregistering(x)  BY <1>4 DEF Program
  <2>2. CASE x = T
    BY <2>1, <2>2, UnregisterFine
  <2>3. CASE x # T
    BY <2>1, <2>3, LastFine, Constants DEF Unregistering
  <2> QED  BY <2>2, <2>3
<1> QED  BY <1>1, <1>2, <1>3, <1>4 DEF Commands

LEMMA LeftoverFacts ==
    ASSUME DbTypes, NEW i \in Conn
    PROVE  LET s == SetToSeq({<<"remove", k>> : k \in Leftover(i)})
           IN  /\ s \in Seq(Calls) /\ \A j \in 1..Len(s) : s[j] \in EndCalls
               /\ \A k \in Key : <<k, i>> \in prod => \E j \in 1..Len(s) : s[j] = <<"remove", k>>
<1> DEFINE S == Leftover(i)
           s == SetToSeq({<<"remove", k>> : k \in S})
<1>1. S \subseteq Key /\ \A k \in Key : <<k, i>> \in prod => k \in S
  BY DEF Leftover, LookupRegistrations
<1>2. IsFiniteSet(Key)
  <2>1. Key = (Chan \cup {T}) \cup {"client"}  BY DEF Key, Item
  <2>2. IsFiniteSet(Chan \cup {T})  BY Constants, FS_AddElement
  <2> QED  BY <2>1, <2>2, FS_AddElement
<1>3. IsFiniteSet(S)  BY <1>1, <1>2, FS_Subset
<1> HIDE DEF S
<1>4. s \in Seq({"remove"} \X S) /\ \A k \in S : \E j \in 1..Len(s) : s[j] = <<"remove", k>>
  BY <1>3, ForEach
<1>5. {"remove"} \X S \subseteq EndCalls /\ {"remove"} \X S \subseteq Calls
  BY <1>1, CallSets DEF EndCalls
<1> DEFINE R == {"remove"} \X S
<1> HIDE DEF s, EndCalls, Calls, R
<1>6. s \in Seq(Calls) /\ \A j \in 1..Len(s) : s[j] \in EndCalls
  BY <1>4, <1>5 DEF R
<1>7. \A k \in Key : <<k, i>> \in prod => \E j \in 1..Len(s) : s[j] = <<"remove", k>>
  BY <1>1, <1>4
<1> QED  BY <1>6, <1>7 DEF s, S

\* The calls of an HTTP request register nobody.
LEMMA RequestFacts ==
    ASSUME NEW r \in Http \ {"tombstone"}, NEW c \in Chan
    PROVE  /\ Request(r, c) \in Seq(Calls)
           /\ \A j \in 1..Len(Request(r, c)) : Request(r, c)[j] \in HttpCalls
<1>1. SUFFICES Request(r, c) \in Seq(HttpCalls)
  BY CallSets
<1>2. /\ <<"addKey", T>> \in HttpCalls /\ <<"addKey", c>> \in HttpCalls
      /\ <<"drop", T>> \in HttpCalls
  BY Constants DEF HttpCalls
<1>3. ASSUME NEW S \in SUBSET Chan
      PROVE  SetToSeq({<<"drop", d>> : d \in FindRegistrations(S)}) \in Seq(HttpCalls)
  <2> DEFINE D == FindRegistrations(S)
  <2>1. D \subseteq Chan  BY DEF FindRegistrations
  <2>2. IsFiniteSet(D)  BY <2>1, Constants, FS_Subset
  <2> HIDE DEF D
  <2>3. SetToSeq({<<"drop", d>> : d \in D}) \in Seq({"drop"} \X D)  BY <2>2, ForEach
  <2>4. {"drop"} \X D \subseteq HttpCalls  BY <2>1, Constants DEF HttpCalls
  <2> HIDE DEF HttpCalls
  <2>5. SetToSeq({<<"drop", d>> : d \in D}) \in Seq(HttpCalls)  BY <2>3, <2>4
  <2> QED  BY <2>5 DEF D
<1> DEFINE e == <<"addKey", T>>
           f == <<"addKey", c>>
           g == <<"drop", T>>
           u == SetToSeq({<<"drop", d>> : d \in FindRegistrations({c})})
           v == SetToSeq({<<"drop", d>> : d \in FindRegistrations(Chan)})
<1>4. u \in Seq(HttpCalls) /\ v \in Seq(HttpCalls)  BY <1>3
<1>5. {e, f, g} \subseteq HttpCalls  BY <1>2
<1>6. /\ r = "create" => Request(r, c) = <<e>>
      /\ r = "createChannel" => Request(r, c) = <<f, e>>
      /\ r = "deleteChannel" => Request(r, c) = u
      /\ r = "delete" => Request(r, c) = v \o <<g>>
  BY DEF Request
<1>7. r \in {"create", "createChannel", "deleteChannel", "delete"}
  BY LookupAssumption
<1> HIDE DEF e, f, g, u, v, HttpCalls
<1>8. /\ <<e>> \in Seq(HttpCalls) /\ <<f, e>> \in Seq(HttpCalls) /\ <<g>> \in Seq(HttpCalls)
  BY <1>5
<1>9. v \o <<g>> \in Seq(HttpCalls)  BY <1>4, <1>8
<1> QED  BY <1>4, <1>6, <1>7, <1>8, <1>9


-----------------------------------------------------------------------------
(* The rest of nsqd, and the loop.                                          *)

\* Steps that leave connections and registrations alone.
LEMMA LoopStep ==
    ASSUME Inv, NodeTypes', LoopTypes', LinkInv', UNCHANGED <<srv, keys, prod>>,
           tomb' \subseteq prod', excuse \subseteq excuse'
    PROVE  Inv'
<1>1. DbTypes' /\ ServerTypes'  BY DEF Inv, Types, DbTypes, ServerTypes
<1>2. GhostInv'  BY DEF Inv, GhostInv
<1>3. CommandInv'  BY DEF Inv, CommandInv
<1>4. TopicInv'
  <2>1. Excused => Excused'  BY DEF Excused
  <2> QED  BY <2>1 DEF Inv, TopicInv
<1> QED  BY <1>1, <1>2, <1>3, <1>4 DEF Inv, Types

LEMMA NodeStep ==
    ASSUME Inv, NodeTypes', UNCHANGED <<loop, cut, srv, keys, prod, conns, excuse>>,
           tomb' \subseteq prod'
    PROVE  Inv'
<1>1. LoopTypes'  BY DEF Inv, Types, LoopTypes
<1>2. LinkInv'  BY DEF Inv, LinkInv
<1> QED  BY <1>1, <1>2, LoopStep

LEMMA CreateInv ==
    ASSUME Inv, NEW n \in Node, NEW x \in Item, Create(n, x)
    PROVE  Inv'
<1>1. NodeTypes
  BY DEF Inv, Types
<1>2. made[n][x] + 1 \in 0..MaxMade
  BY <1>1, Constants DEF NodeTypes, Create
<1>3. has' \in [Node -> [Item -> 0..MaxMade]] /\ made' \in [Node -> [Item -> 0..MaxMade]]
  BY <1>1, <1>2 DEF NodeTypes, Create
<1>4. NodeTypes'
  BY <1>1, <1>3 DEF NodeTypes, Create, Op
<1> QED  BY <1>4, NodeStep DEF Create, Op, Inv, Types, DbTypes

LEMMA DeleteChannelInv ==
    ASSUME Inv, NEW n \in Node, NEW c \in Chan, DeleteChannel(n, c)
    PROVE  Inv'
<1>1. NodeTypes'
  BY Constants DEF Inv, Types, NodeTypes, DeleteChannel, Op
<1> QED  BY <1>1, NodeStep DEF DeleteChannel, Op, Inv, Types, DbTypes

LEMMA DeleteTopicInv ==
    ASSUME Inv, NEW n \in Node, DeleteTopic(n) \/ UnmapTopic(n) \/ doConfig(n)
    PROVE  Inv'
<1>1. CASE DeleteTopic(n)
  <2>1. NodeTypes'
    BY <1>1, Constants DEF Inv, Types, NodeTypes, DeleteTopic, Op
  <2> QED  BY <1>1, <2>1, NodeStep DEF DeleteTopic, Op, Inv, Types, DbTypes
<1>2. CASE UnmapTopic(n)
  <2>1. NodeTypes'
    BY <1>2, Constants DEF Inv, Types, NodeTypes, UnmapTopic
  <2> QED  BY <1>2, <2>1, NodeStep DEF UnmapTopic, Inv, Types, DbTypes
<1>3. CASE doConfig(n)
  <2>1. NodeTypes'
    BY <1>3 DEF Inv, Types, NodeTypes, doConfig
  <2> QED  BY <1>3, <2>1, NodeStep DEF doConfig, Inv, Types, DbTypes
<1> QED  BY <1>1, <1>2, <1>3

LEMMA TombInv ==
    ASSUME Inv, TombstoneLifetime \/ (\E n \in Node : Tombstone(n)) \/ \E i \in Conn : Inactive(i)
    PROVE  Inv'
<1>1. UNCHANGED <<loop, cut, srv, keys, prod, conns, excuse, has, made, pend, wanted, peers>>
  BY DEF TombstoneLifetime, Tombstone, Inactive
<1>2. NodeTypes'  BY <1>1 DEF Inv, Types, NodeTypes
<1>3. tomb' \subseteq prod'
  BY <1>1 DEF TombstoneLifetime, Tombstone, Inactive, Inv, Types, DbTypes
<1> QED  BY <1>1, <1>2, <1>3, NodeStep

\* lookupPeer.Command: a connection that is made is new to nsqlookupd, which has no
\* registration of it.
LEMMA CommandStep ==
    ASSUME Inv, NEW n \in Node, NEW cs \in Seq(Commands), Selecting(n), Command(n, cs),
           UNCHANGED <<has, made, wanted, cut, db>>, pend' \subseteq pend, peers' \subseteq Node,
           excuse \subseteq excuse'
    PROVE  Inv'
<1> DEFINE c == conns + 1
<1>1. NodeTypes /\ LoopTypes /\ ServerTypes /\ DbTypes /\ LinkInv /\ GhostInv
  BY DEF Inv, Types
<1>2. /\ loop[n] \in LoopRecord /\ loop[n].cmds = << >> /\ loop[n].sent = FALSE
  BY <1>1 DEF LoopTypes, LinkInv, Selecting, LoopRecord
<1>3. CASE loop[n].conn # 0
  <2>1. loop' = [loop EXCEPT ![n].cmds = cs] /\ UNCHANGED <<owner, srv, conns>>
    BY <1>3 DEF Command
  <2>2. NodeTypes'  BY <2>1, <1>1 DEF NodeTypes
  <2>3. LoopTypes'  BY <2>1, <1>1 DEF LoopTypes, LoopRecord
  <2>4. LinkInv'  BY <2>1, <1>1, <1>2, <1>3 DEF LoopTypes, LoopRecord, LinkInv
  <2> QED  BY <1>1, <2>1, <2>2, <2>3, <2>4, LoopStep DEF DbTypes
<1>4. CASE loop[n].conn = 0
  <2> DEFINE e == <<"IDENTIFY", "client">>
             q == <<e>> \o cs
  <2>1. e \in Commands  BY DEF Commands
  <2> HIDE DEF e
  <2>2. q \in Seq(Commands) /\ q # << >>
    <3> HIDE DEF Commands
    <3> QED  BY <2>1
  <2> HIDE DEF q
  <2>3. /\ conns < MaxConns /\ conns' = c
        /\ srv' = [srv EXCEPT ![c].pc = "open"]
        /\ loop' = [loop EXCEPT ![n] = [conn |-> c, sent |-> FALSE, cmds |-> q]]
    BY <1>4 DEF Command, q, e
  <2>4. c \in Conn /\ c > conns /\ c \in 0..MaxConns /\ c # 0 /\ c # HTTP
    BY <1>1, <2>3, Constants DEF NodeTypes, Conn
  <2>5. srv[c].pc = "closed" /\ srv[c].todo = << >>
    BY <1>1, <2>4 DEF LinkInv
  <2>6. /\ srv'[c].pc = "open" /\ srv'[c].todo = << >>
        /\ \A i \in Conn \cup {HTTP} : i # c => srv'[i] = srv[i]
        /\ \A i \in Conn \cup {HTTP} : srv'[i].todo = srv[i].todo
    BY <1>1, <2>3, <2>4, <2>5 DEF ServerTypes, ServerRecord
  <2>7. NodeTypes'  BY <1>1, <2>3, <2>4 DEF NodeTypes
  <2>8. LoopTypes'
    <3>1. [conn |-> c, sent |-> FALSE, cmds |-> q] \in LoopRecord
      BY <2>2, <2>4 DEF LoopRecord
    <3> QED  BY <1>1, <2>3, <3>1 DEF LoopTypes
  <2>9. DbTypes'  BY <1>1 DEF DbTypes
  <2>10. ServerTypes'
    <3>1. srv' \in [Conn \cup {HTTP} -> ServerRecord]
      BY <1>1, <2>3, <2>4 DEF ServerTypes, ServerRecord
    <3>2. srv'[HTTP] = srv[HTTP]  BY <2>4, <2>6
    <3>3. \A i \in Conn : \A j \in 1..Len(srv'[i].todo) :
             srv'[i].todo[j] \in IF srv'[i].pc = "open" THEN OpenCalls ELSE EndCalls
      <4> SUFFICES ASSUME NEW i \in Conn
                   PROVE  \A j \in 1..Len(srv'[i].todo) :
                      srv'[i].todo[j] \in IF srv'[i].pc = "open" THEN OpenCalls ELSE EndCalls
        OBVIOUS
      <4>1. CASE i = c  BY <4>1, <2>6
      <4>2. CASE i # c  BY <4>2, <2>6, <1>1 DEF ServerTypes
      <4> QED  BY <4>1, <4>2
    <3> QED  BY <1>1, <3>1, <3>2, <3>3 DEF ServerTypes
  <2>11. LinkInv'
    <3>1. \A m \in Node : m # n => loop'[m] = loop[m]  BY <2>3, <1>1 DEF LoopTypes
    <3>2. loop'[n].conn = c /\ loop'[n].sent = FALSE /\ loop'[n].cmds = q
      BY <2>3, <1>1 DEF LoopTypes
    <3>3. \A m \in Node : /\ loop'[m].sent => loop'[m].cmds # << >>
                          /\ loop'[m].cmds # << >> => loop'[m].conn # 0
      BY <3>1, <3>2, <1>1, <2>2, <2>4 DEF LinkInv
    <3>4. ASSUME NEW m \in Node, loop'[m].conn # 0, loop'[m].conn \notin cut'
          PROVE  srv'[loop'[m].conn].pc = "open"
      <4>1. CASE m = n  BY <4>1, <3>2, <2>6
      <4>2. CASE m # n
        <5>1. loop[m].conn # 0 /\ loop[m].conn \notin cut  BY <3>4, <3>1, <4>2
        <5>2. srv[loop[m].conn].pc = "open"  BY <5>1, <1>1 DEF LinkInv
        <5>3. loop[m].conn \in Conn
          BY <5>1, <1>1 DEF LoopTypes, LoopRecord, Conn
        <5> QED  BY <5>2, <5>3, <3>1, <4>2, <2>6
      <4> QED  BY <4>1, <4>2
    <3>5. \A i \in Conn : i > conns' => srv'[i].pc = "closed" /\ srv'[i].todo = << >>
      BY <1>1, <2>3, <2>4, <2>6, Constants DEF LinkInv, NodeTypes
    <3> QED  BY <3>3, <3>4, <3>5 DEF LinkInv
  <2>12. GhostInv'
    BY <1>1, <2>6 DEF GhostInv
  <2>13. CommandInv'
    <3>1. ASSUME NEW i \in Conn, srv'[i].pc = "open"  PROVE Proper(prod, i, srv'[i].todo)
      <4>1. CASE i = c  BY <4>1, <2>6, EmptyFine DEF Fine
      <4>2. CASE i # c  BY <4>2, <2>6, <3>1 DEF Inv, CommandInv
      <4> QED  BY <4>1, <4>2
    <3> QED  BY <3>1 DEF CommandInv
  <2>14. TopicInv'
    <3>1. \A k \in Key : <<k, c>> \notin prod
      BY <1>1, <2>4, <2>5 DEF GhostInv
    <3>2. Excused => Excused'  BY DEF Excused
    <3>3. \A i \in Conn : i # c => srv'[i] = srv[i]  BY <2>6
    <3>4. \A i \in Conn, d \in Chan : <<d, i>> \in prod => i # c
      BY <3>1, Constants
    <3> QED  BY <3>2, <3>3, <3>4 DEF Inv, TopicInv
  <2> QED  BY <2>7, <2>8, <2>9, <2>10, <2>11, <2>12, <2>13, <2>14 DEF Inv, Types
<1> QED  BY <1>3, <1>4

LEMMA StartPeerInv ==
    ASSUME Inv, NEW n \in Node, StartPeer(n)
    PROVE  Inv'
<1>1. Command(n, << >>) /\ Selecting(n) /\ << >> \in Seq(Commands)
  BY DEF StartPeer
<1>2. peers' \subseteq Node  BY DEF StartPeer, Inv, Types, NodeTypes
<1> QED  BY <1>1, <1>2, CommandStep DEF StartPeer

LEMMA TickInv ==
    ASSUME Inv, NEW n \in Node, Tick(n)
    PROVE  Inv'
<1> DEFINE e == <<"PING", "client">>
<1>1. e \in Commands  BY DEF Commands
<1>2. Command(n, <<e>>) /\ Selecting(n)
  BY DEF Tick
<1> HIDE DEF e
<1>3. <<e>> \in Seq(Commands)
  <2> HIDE DEF Commands
  <2> QED  BY <1>1
<1>4. peers' \subseteq Node  BY DEF Tick, Inv, Types, NodeTypes
<1> QED  BY <1>2, <1>3, <1>4, CommandStep DEF Tick

LEMMA AnyNotifiedInv ==
    ASSUME Inv, NEW n \in Node, AnyNotified(n)
    PROVE  Inv'
<1>1. PICK p \in pend : p[1] = n /\ Notified(n, p[2], p[3], p[4])
  BY DEF AnyNotified
<1>2. p[2] \in Item  BY DEF Inv, Types, NodeTypes
<1> DEFINE verb == Verb(n, p[2], p[3], p[4])
           e == <<verb, p[2]>>
<1>3. e \in Commands
  BY <1>2 DEF Verb, Commands
<1>4. /\ Selecting(n) /\ pend' \subseteq pend
      /\ UNCHANGED <<has, made, wanted, peers, cut, db>>
  BY <1>1 DEF Notified
<1>5. peers' \subseteq Node  BY <1>4 DEF Inv, Types, NodeTypes
<1>6. CASE n \in peers
  <2>1. Command(n, <<e>>) /\ excuse \subseteq excuse'
    BY <1>1, <1>6 DEF Notified
  <2> HIDE DEF e
  <2>2. <<e>> \in Seq(Commands)
    <3> HIDE DEF Commands
    <3> QED  BY <1>3
  <2> QED  BY <1>4, <1>5, <2>1, <2>2, CommandStep
<1>7. CASE n \notin peers
  <2>1. UNCHANGED <<loop, owner, srv, conns, excuse>>
    BY <1>1, <1>7 DEF Notified
  <2>2. NodeTypes'  BY <1>4, <2>1 DEF Inv, Types, NodeTypes
  <2> QED  BY <1>4, <2>1, <2>2, NodeStep DEF Inv, Types, DbTypes
<1> QED  BY <1>6, <1>7

\* A loop that is disconnected, or whose connection is cut, has nothing to answer for.
LEMMA LoopOffInv ==
    ASSUME Inv, NEW n \in Node, Fail(n) \/ Reconfigure(n)
    PROVE  Inv'
<1>1. /\ UNCHANGED <<has, made, pend, wanted, srv, db, conns, excuse>> /\ cut \subseteq cut'
      /\ loop' = [loop EXCEPT ![n] = Off] \/ UNCHANGED loop
      /\ peers' \subseteq peers
  BY DEF Fail, Reconfigure
<1>2. NodeTypes'  BY <1>1 DEF Inv, Types, NodeTypes
<1>3. Off \in LoopRecord /\ Off.sent = FALSE /\ Off.cmds = << >> /\ Off.conn = 0
  BY Constants DEF Off, LoopRecord
<1>4. LoopTypes'  BY <1>1, <1>3 DEF Inv, Types, LoopTypes
<1>5. \A m \in Node : loop'[m] = loop[m] \/ loop'[m] = Off
  BY <1>1 DEF Inv, Types, LoopTypes
<1>6. LinkInv'  BY <1>1, <1>3, <1>5 DEF Inv, LinkInv
<1> QED  BY <1>1, <1>2, <1>4, <1>6, LoopStep DEF Inv, Types, DbTypes

LEMMA BreakInv ==
    ASSUME Inv, NEW i \in Conn, Break(i)
    PROVE  Inv'
<1>1. /\ UNCHANGED <<has, made, pend, wanted, peers, loop, srv, db, conns, excuse>>
      /\ cut \subseteq cut'
  BY DEF Break
<1>2. NodeTypes' /\ LoopTypes'  BY <1>1 DEF Inv, Types, NodeTypes, LoopTypes
<1>3. LinkInv'  BY <1>1 DEF Inv, LinkInv
<1> QED  BY <1>1, <1>2, <1>3, LoopStep DEF Inv, Types, DbTypes

LEMMA ReceiveInv ==
    ASSUME Inv, NEW n \in Node, Receive(n)
    PROVE  Inv'
<1> DEFINE i == loop[n].conn
           old == loop[n].cmds
           snap == IF Head(old)[1] = "IDENTIFY" THEN Snapshot(n) ELSE << >>
           q == snap \o Tail(old)
<1>1. LoopTypes /\ LinkInv  BY DEF Inv, Types
<1>2. loop[n] \in LoopRecord /\ loop[n].sent  BY <1>1 DEF LoopTypes, Receive
<1>3. old \in Seq(Commands) /\ old # << >> /\ i # 0 /\ i \in 0..MaxConns
  BY <1>1, <1>2 DEF LinkInv, LoopRecord
<1>4. snap \in Seq(Commands)  BY SnapshotFacts
<1>5. Tail(old) \in Seq(Commands)
  BY <1>3, TailFacts
<1> HIDE DEF snap
<1>6. q \in Seq(Commands)
  <2> HIDE DEF old, Commands
  <2> QED  BY <1>4, <1>5
<1>7. loop' = [loop EXCEPT ![n] = [conn |-> i, sent |-> FALSE, cmds |-> q]]
  <2>1. loop' = [loop EXCEPT ![n] = [conn |-> i, sent |-> FALSE,
                   cmds |-> (IF Head(loop[n].cmds)[1] = "IDENTIFY" THEN Snapshot(n) ELSE << >>)
                              \o Tail(loop[n].cmds)]]
    BY <1>1 DEF Receive, LoopTypes
  <2> QED  BY <2>1 DEF snap
<1> HIDE DEF q
<1>8. LoopTypes'
  <2>1. [conn |-> i, sent |-> FALSE, cmds |-> q] \in LoopRecord
    BY <1>3, <1>6 DEF LoopRecord
  <2> QED  BY <1>1, <1>7, <2>1 DEF LoopTypes
<1>9. /\ UNCHANGED <<has, made, pend, wanted, peers, cut, srv, db, conns>>
      /\ excuse \subseteq excuse'
  BY DEF Receive
<1>10. NodeTypes'  BY <1>9 DEF Inv, Types, NodeTypes
<1>11. LinkInv'
  <2>1. /\ \A m \in Node : m # n => loop'[m] = loop[m]
        /\ loop'[n].conn = loop[n].conn /\ loop'[n].sent = FALSE
    BY <1>1, <1>7 DEF LoopTypes
  <2> QED  BY <1>1, <1>3, <1>9, <2>1 DEF LinkInv
<1> QED  BY <1>8, <1>9, <1>10, <1>11, LoopStep DEF Inv, Types, DbTypes

\* The command is one of a connection that nsqlookupd serves and that is idle.
LEMMA SendInv ==
    ASSUME Inv, NEW n \in Node, Send(n)
    PROVE  Inv'
<1> DEFINE i == loop[n].conn
           q == Program(Head(loop[n].cmds))
<1>1. /\ NodeTypes /\ LoopTypes /\ ServerTypes /\ DbTypes /\ LinkInv /\ GhostInv
      /\ CommandInv /\ TopicInv
  BY DEF Inv, Types
<1>2. /\ loop[n].cmds # << >> /\ i \notin cut /\ srv[i].todo = << >>
      /\ loop' = [loop EXCEPT ![n].sent = TRUE]
      /\ srv' = [srv EXCEPT ![i].todo = q]
      /\ UNCHANGED <<has, made, pend, wanted, peers, cut, db, conns, excuse>>
  BY DEF Send
<1>3. loop[n] \in LoopRecord  BY <1>1 DEF LoopTypes
<1>4. i \in Conn /\ i # 0 /\ i # HTTP /\ srv[i].pc = "open"
  BY <1>1, <1>2, <1>3, Constants DEF LoopRecord, LinkInv, Conn
<1>5. Head(loop[n].cmds) \in Commands
  BY <1>2, <1>3, TailFacts DEF LoopRecord
<1>6. Fine(i, q)
  BY <1>1, <1>4, <1>5, ProgramFine
<1> HIDE DEF q
<1>8. NodeTypes' /\ LoopTypes' /\ DbTypes'
  <2>1. NodeTypes' /\ DbTypes'  BY <1>1, <1>2 DEF NodeTypes, DbTypes
  <2>2. LoopTypes'  BY <1>1, <1>2 DEF LoopTypes, LoopRecord
  <2> QED  BY <2>1, <2>2
<1>9. /\ srv'[i].todo = q /\ srv'[i].pc = "open"
      /\ \A h \in Conn \cup {HTTP} : h # i => srv'[h] = srv[h]
      /\ \A h \in Conn \cup {HTTP} : srv'[h].pc = srv[h].pc
  BY <1>1, <1>2, <1>4 DEF ServerTypes, ServerRecord
<1>10. ServerTypes'
  <2>1. srv' \in [Conn \cup {HTTP} -> ServerRecord]
    <3>1. q \in Seq(Calls)  BY <1>6 DEF Fine
    <3> HIDE DEF Calls
    <3> QED  BY <1>1, <1>2, <1>4, <3>1 DEF ServerTypes, ServerRecord
  <2>2. srv'[HTTP] = srv[HTTP]  BY <1>4, <1>9
  <2>3. ASSUME NEW h \in Conn
        PROVE  \A j \in 1..Len(srv'[h].todo) :
                  srv'[h].todo[j] \in IF srv'[h].pc = "open" THEN OpenCalls ELSE EndCalls
    <3>1. CASE h = i  BY <3>1, <1>6, <1>9 DEF Fine
    <3>2. CASE h # i  BY <3>2, <1>1, <1>9 DEF ServerTypes
    <3> QED  BY <3>1, <3>2
  <2> QED  BY <1>1, <2>1, <2>2, <2>3 DEF ServerTypes
<1>11. LinkInv'
  <2>1. /\ \A m \in Node : loop'[m].conn = loop[m].conn /\ loop'[m].cmds = loop[m].cmds
        /\ \A m \in Node : m # n => loop'[m] = loop[m]
    BY <1>1, <1>2 DEF LoopTypes, LoopRecord
  <2>2. \A m \in Node : loop[m].conn \in Conn \cup {HTTP}
    BY <1>1, Constants DEF LoopTypes, LoopRecord, Conn
  <2>3. ASSUME NEW m \in Node
        PROVE  /\ loop'[m].sent => loop'[m].cmds # << >>
               /\ loop'[m].cmds # << >> => loop'[m].conn # 0
               /\ loop'[m].conn # 0 /\ loop'[m].conn \notin cut' => srv'[loop'[m].conn].pc = "open"
    BY <1>1, <1>2, <1>9, <2>1, <2>2 DEF LinkInv
  <2>4. \A h \in Conn : h > conns' => srv'[h].pc = "closed" /\ srv'[h].todo = << >>
    BY <1>1, <1>2, <1>4, <1>9 DEF LinkInv
  <2> QED  BY <2>3, <2>4 DEF LinkInv
<1>12. GhostInv'
  <2>1. \A h \in Conn : srv'[h].pc # "open" => srv'[h] = srv[h]  BY <1>9
  <2>2. GhostInv /\ prod' = prod  BY <1>1, <1>2
  <2>3. ASSUME NEW h \in Conn, NEW k \in Key, <<k, h>> \in prod', srv'[h].pc # "open"
        PROVE  \E j \in 1..Len(srv'[h].todo) : srv'[h].todo[j] = <<"remove", k>>
    BY <2>1, <2>2, <2>3 DEF GhostInv
  <2> QED  BY <2>3 DEF GhostInv
<1>13. CommandInv'
  <2>1. ASSUME NEW h \in Conn, srv'[h].pc = "open"  PROVE Proper(prod, h, srv'[h].todo)
    <3>1. CASE h = i  BY <3>1, <1>6, <1>9 DEF Fine
    <3>2. CASE h # i  BY <3>2, <2>1, <1>1, <1>9 DEF CommandInv
    <3> QED  BY <3>1, <3>2
  <2> QED  BY <1>2, <2>1 DEF CommandInv
<1>14. TopicInv'
  <2>1. Excused' = Excused  BY <1>2 DEF Excused
  <2>2. ASSUME ~Excused, NEW h \in Conn, NEW c \in Chan, srv'[h].pc = "open", <<c, h>> \in prod'
        PROVE  <<T, h>> \in prod' \/ EndsWith(srv'[h].todo, "add")
    <3>1. CASE h = i
      BY <2>2, <3>1, <1>1, <1>2, <1>4 DEF TopicInv, EndsWith
    <3>2. CASE h # i
      BY <2>2, <3>2, <1>1, <1>2, <1>9 DEF TopicInv
    <3> QED  BY <3>1, <3>2
  <2> QED  BY <2>1, <2>2 DEF TopicInv
<1> QED  BY <1>8, <1>10, <1>11, <1>12, <1>13, <1>14 DEF Inv, Types

-----------------------------------------------------------------------------
(* One call of a program.                                                   *)

LEMMA TailEnd ==
    ASSUME NEW s \in Seq(Calls), s # << >>, NEW op
    PROVE  /\ EndsWith(Tail(s), op) => EndsWith(s, op)
           /\ EndsWith(s, op) => s[1] = <<op, T>> \/ EndsWith(Tail(s), op)
<1> DEFINE e == <<op, T>>
           t == Tail(s)
<1> HIDE DEF e, Calls
<1>1. /\ t \in Seq(Calls) /\ Len(s) \in Nat /\ Len(s) > 0 /\ Len(t) = Len(s) - 1
      /\ \A j \in 1..Len(t) : t[j] = s[j + 1]
  BY TailFacts
<1> HIDE DEF t
<1>2. ASSUME t # << >>  PROVE t[Len(t)] = s[Len(s)]
  BY <1>1, <1>2, EmptySeq
<1>3. ASSUME t = << >>  PROVE Len(s) = 1
  BY <1>1, <1>3
<1>4. EndsWith(t, op) <=> t # << >> /\ t[Len(t)] = e  BY DEF EndsWith, e
<1>5. EndsWith(s, op) <=> s # << >> /\ s[Len(s)] = e  BY DEF EndsWith, e
<1>6. EndsWith(t, op) => EndsWith(s, op)  BY <1>2, <1>4, <1>5
<1>7. EndsWith(s, op) => s[1] = e \/ EndsWith(t, op)
  BY <1>2, <1>3, <1>4, <1>5
<1> QED  BY <1>6, <1>7 DEF e, t

\* What is left of a program when its first call is done.
LEMMA TailProper ==
    ASSUME NEW P, NEW Q, NEW i, NEW s \in Seq(Calls), s # << >>, Proper(P, i, s),
           \/ s[1][1] = "add"
           \/ \A c \in Chan : <<c, i>> \in Q => <<c, i>> \in P /\ s[1] # <<"remove", c>>
    PROVE  Proper(Q, i, Tail(s))
<1> DEFINE t == Tail(s)
<1>1. /\ t \in Seq(Calls) /\ Len(s) \in Nat /\ Len(s) > 0 /\ Len(t) = Len(s) - 1
      /\ \A j \in 1..Len(t) : t[j] = s[j + 1] /\ j + 1 \in 1..Len(s)
      /\ \A j \in 1..Len(s) : j = 1 \/ ((j - 1) \in 1..Len(t) /\ t[j - 1] = s[j])
  BY TailFacts
<1>2. \A op : /\ EndsWith(t, op) => EndsWith(s, op)
              /\ EndsWith(s, op) => s[1] = <<op, T>> \/ EndsWith(t, op)
  BY TailEnd
<1> HIDE DEF t, Calls
<1>3. ASSUME NEW j \in 1..Len(t), NEW c \in Chan, t[j] = <<"add", c>>
      PROVE  EndsWith(t, "add")
  <2>1. j + 1 \in 1..Len(s) /\ s[j + 1] = <<"add", c>>  BY <1>1, <1>3
  <2>2. EndsWith(s, "add")  BY <2>1 DEF Proper
  <2>3. t # << >>  BY <1>1, <1>3
  <2>4. t[Len(t)] = s[Len(s)]
    BY <1>1, <1>3, <2>3
  <2> QED  BY <2>2, <2>3, <2>4 DEF EndsWith
<1>4. ASSUME EndsWith(s, "removeLast") \/ EndsWith(s, "drop")
      PROVE  s[1][1] # "add" /\ \A j \in 1..Len(t) : t[j][1] # "add"
  <2>1. \A j \in 1..Len(s) : s[j][1] # "add"  BY <1>4 DEF Proper
  <2>2. 1 \in 1..Len(s)  BY <1>1
  <2> QED  BY <2>1, <2>2, <1>1
<1>5. ASSUME NEW j \in 1..Len(t), t[j] = <<"removeLast", T>>
      PROVE  /\ j = Len(t)
             /\ \A c \in Chan : <<c, i>> \in Q => \E h \in 1..Len(t) : t[h] = <<"remove", c>>
  <2>1. j + 1 \in 1..Len(s) /\ s[j + 1] = <<"removeLast", T>>  BY <1>1, <1>5
  <2>2. /\ j + 1 = Len(s)
        /\ \A c \in Chan : <<c, i>> \in P => \E h \in 1..Len(s) : s[h] = <<"remove", c>>
    BY <2>1 DEF Proper
  <2>3. EndsWith(s, "removeLast")  BY <2>1, <2>2 DEF EndsWith
  <2>4. \A c \in Chan : <<c, i>> \in Q => <<c, i>> \in P /\ s[1] # <<"remove", c>>
    BY <1>4, <2>3
  <2>5. ASSUME NEW c \in Chan, <<c, i>> \in Q  PROVE \E h \in 1..Len(t) : t[h] = <<"remove", c>>
    <3>1. PICK h \in 1..Len(s) : s[h] = <<"remove", c>>  BY <2>2, <2>4, <2>5
    <3>2. h # 1  BY <2>4, <2>5, <3>1
    <3> QED  BY <1>1, <3>1, <3>2
  <2>6. j = Len(t)  BY <1>1, <2>2
  <2> QED  BY <2>5, <2>6
<1>6. ASSUME NEW j \in 1..Len(t), t[j] = <<"drop", T>>
      PROVE  j = Len(t) /\ \A c \in Chan : <<c, i>> \notin Q
  <2>1. j + 1 \in 1..Len(s) /\ s[j + 1] = <<"drop", T>>  BY <1>1, <1>6
  <2>2. j + 1 = Len(s) /\ \A c \in Chan : <<c, i>> \notin P
    BY <2>1 DEF Proper
  <2>3. EndsWith(s, "drop")  BY <2>1, <2>2 DEF EndsWith
  <2>4. \A c \in Chan : <<c, i>> \in Q => <<c, i>> \in P
    BY <1>4, <2>3
  <2> QED  BY <1>1, <1>6, <2>2, <2>4
<1>7. ASSUME EndsWith(t, "removeLast") \/ EndsWith(t, "drop")
      PROVE  \A j \in 1..Len(t) : t[j][1] # "add"
  BY <1>2, <1>4, <1>7
<1>8. Proper(Q, i, t)  BY <1>3, <1>5, <1>6, <1>7 DEF Proper
<1> QED  BY <1>8 DEF t

\* UnregisterProducer of an ephemeral channel: its key goes next.
LEMMA PushProper ==
    ASSUME NEW Q, NEW i, NEW t \in Seq(Calls), Proper(Q, i, t), NEW x \in Chan
    PROVE  LET q == <<<<"drop", x>>>> \o t
           IN  /\ q \in Seq(Calls) /\ Proper(Q, i, q)
               /\ EndsWith(t, "add") => EndsWith(q, "add")
               /\ \A j \in 1..Len(q) : q[j] = <<"drop", x>> \/ \E h \in 1..Len(t) : q[j] = t[h]
<1> DEFINE e == <<"drop", x>>
           q == <<e>> \o t
<1>1. e \in Calls  BY Constants DEF Calls
<1>2. /\ e # <<"drop", T>> /\ e # <<"removeLast", T>> /\ e[1] # "add"
      /\ \A c \in Chan : e # <<"add", c>> /\ e # <<"remove", c>>
  BY Constants
<1> HIDE DEF e, Calls
<1>3. /\ q \in Seq(Calls) /\ Len(q) = Len(t) + 1 /\ Len(t) \in Nat /\ q # << >> /\ q[1] = e
      /\ \A j \in 1..Len(t) : q[j + 1] = t[j] /\ j + 1 \in 1..Len(q)
      /\ \A j \in 1..Len(q) : j = 1 \/ ((j - 1) \in 1..Len(t) /\ q[j] = t[j - 1])
  BY <1>1
<1> HIDE DEF q
<1>4. t = << >> => q[Len(q)] = e  BY <1>3
<1>5. t # << >> => q[Len(q)] = t[Len(t)]
  <2>1. t # << >> => Len(t) \in 1..Len(t)  BY <1>3, EmptySeq
  <2> QED  BY <1>3, <2>1
<1>6. /\ EndsWith(q, "add") => EndsWith(t, "add")
      /\ EndsWith(q, "drop") => EndsWith(t, "drop")
      /\ EndsWith(q, "removeLast") => EndsWith(t, "removeLast")
      /\ EndsWith(t, "add") => EndsWith(q, "add")
  <2>1. e # <<"add", T>>  BY DEF e
  <2> QED  BY <2>1, <1>2, <1>3, <1>4, <1>5 DEF EndsWith
<1>7. ASSUME NEW j \in 1..Len(q)
      PROVE  q[j] = e \/ \E h \in 1..Len(t) : h = j - 1 /\ q[j] = t[h]
  BY <1>3
<1>8. ASSUME NEW j \in 1..Len(q), NEW c \in Chan, q[j] = <<"add", c>>
      PROVE  EndsWith(q, "add")
  BY <1>2, <1>6, <1>7, <1>8 DEF Proper
<1>9. ASSUME NEW j \in 1..Len(q), q[j] = <<"removeLast", T>>
      PROVE  /\ j = Len(q)
             /\ \A c \in Chan : <<c, i>> \in Q => \E h \in 1..Len(q) : q[h] = <<"remove", c>>
  <2>1. PICK h \in 1..Len(t) : h = j - 1 /\ q[j] = t[h]  BY <1>2, <1>7, <1>9
  <2>2. /\ h = Len(t)
        /\ \A c \in Chan : <<c, i>> \in Q => \E g \in 1..Len(t) : t[g] = <<"remove", c>>
    BY <1>9, <2>1 DEF Proper
  <2>3. j = Len(q)  BY <1>3, <2>1, <2>2
  <2>4. ASSUME NEW c \in Chan, <<c, i>> \in Q  PROVE \E g \in 1..Len(q) : q[g] = <<"remove", c>>
    <3>1. PICK g \in 1..Len(t) : t[g] = <<"remove", c>>  BY <2>2, <2>4
    <3> QED  BY <1>3, <3>1
  <2> QED  BY <2>3, <2>4
<1>10. ASSUME NEW j \in 1..Len(q), q[j] = <<"drop", T>>
      PROVE  j = Len(q) /\ \A c \in Chan : <<c, i>> \notin Q
  <2>1. PICK h \in 1..Len(t) : h = j - 1 /\ q[j] = t[h]  BY <1>2, <1>7, <1>10
  <2>2. h = Len(t) /\ \A c \in Chan : <<c, i>> \notin Q
    BY <1>10, <2>1 DEF Proper
  <2> QED  BY <1>3, <2>1, <2>2
<1>11. ASSUME EndsWith(q, "removeLast") \/ EndsWith(q, "drop")
       PROVE  \A j \in 1..Len(q) : q[j][1] # "add"
  <2>1. \A j \in 1..Len(t) : t[j][1] # "add"  BY <1>6, <1>11 DEF Proper
  <2> QED  BY <2>1, <1>2, <1>7
<1>12. Proper(Q, i, q)  BY <1>8, <1>9, <1>10, <1>11 DEF Proper
<1> QED  BY <1>3, <1>6, <1>7, <1>12 DEF q, e

\* The first call of a program, and the other producers of its key.
First(i) == srv[i].todo[1]
Others(i) == {p \in prod : p[1] = First(i)[2] /\ p[2] # i}

LEMMA CallFacts ==
    ASSUME Types, NEW i \in Conn \cup {HTTP}, Call(i)
    PROVE  /\ srv[i].todo \in Seq(Calls) /\ srv[i].todo # << >>
           /\ First(i) = <<First(i)[1], First(i)[2]>>
           /\ i = HTTP => First(i) \in HttpCalls
           /\ i # HTTP /\ srv[i].pc = "open" => First(i) \in OpenCalls
           /\ i # HTTP /\ srv[i].pc # "open" => First(i) \in EndCalls
           /\ \A h \in Conn \cup {HTTP} : h # i => srv'[h] = srv[h]
           /\ srv' = [srv EXCEPT ![i].todo = srv'[i].todo]
           /\ srv'[i].pc = srv[i].pc
           /\ srv'[i].todo = IF First(i)[1] = "removeLast" /\ Others(i) = {} /\ First(i)[2] \in Ephemeral
                             THEN <<<<"drop", First(i)[2]>>>> \o Tail(srv[i].todo)
                             ELSE Tail(srv[i].todo)
           /\ First(i)[1] = "add" => AddProducer(First(i)[2], i)
           /\ First(i)[1] = "addKey" => AddRegistration(First(i)[2])
           /\ First(i)[1] = "drop" => RemoveRegistration(First(i)[2])
           /\ First(i)[1] \in {"remove", "removeLast"} => RemoveProducer(First(i)[2], i)
           /\ First(i)[1] = "drop" /\ Others(i) # {} => Excused'
           /\ excuse \subseteq excuse'
           /\ UNCHANGED <<has, made, pend, wanted, peers, loop, cut, conns>>
<1> DEFINE s == srv[i].todo
           t == IF First(i)[1] = "removeLast" /\ Others(i) = {} /\ First(i)[2] \in Ephemeral
                THEN <<<<"drop", First(i)[2]>>>> \o Tail(s) ELSE Tail(s)
<1>1. ServerTypes /\ srv[i] \in ServerRecord  BY DEF Types, ServerTypes
<1>2. s \in Seq(Calls) /\ s # << >>  BY <1>1 DEF ServerRecord, Call
<1>3. Head(s) = First(i) /\ First(i) \in Calls /\ Tail(s) \in Seq(Calls) /\ 1 \in 1..Len(s)
  BY <1>2, TailFacts DEF First
<1>4. First(i) = <<First(i)[1], First(i)[2]>>  BY <1>3 DEF Calls
<1>5. /\ i = HTTP => First(i) \in HttpCalls
      /\ i # HTTP /\ srv[i].pc = "open" => First(i) \in OpenCalls
      /\ i # HTTP /\ srv[i].pc # "open" => First(i) \in EndCalls
  BY <1>1, <1>3 DEF ServerTypes, First
<1>6. << >> \o Tail(s) = Tail(s)  BY <1>3
<1>7. srv' = [srv EXCEPT ![i].todo = t]
  <2>1. srv' = [srv EXCEPT ![i].todo =
                  (IF First(i)[1] = "removeLast" /\ Others(i) = {} /\ First(i)[2] \in Ephemeral
                   THEN <<<<"drop", First(i)[2]>>>> ELSE << >>) \o Tail(s)]
    BY <1>1, <1>3 DEF Call, Others, ServerTypes
  <2>2. t = (IF First(i)[1] = "removeLast" /\ Others(i) = {} /\ First(i)[2] \in Ephemeral
                   THEN <<<<"drop", First(i)[2]>>>> ELSE << >>) \o Tail(s)
    <3> HIDE DEF s
    <3> QED  BY <1>6
  <2> QED  BY <2>1, <2>2
<1> HIDE DEF t
<1>8. /\ \A h \in Conn \cup {HTTP} : h # i => srv'[h] = srv[h]
      /\ srv'[i].pc = srv[i].pc /\ srv'[i].todo = t
      /\ srv' = [srv EXCEPT ![i].todo = srv'[i].todo]
  BY <1>1, <1>7 DEF ServerTypes, ServerRecord
<1>9. /\ First(i)[1] = "add" => AddProducer(First(i)[2], i)
      /\ First(i)[1] = "addKey" => AddRegistration(First(i)[2])
      /\ First(i)[1] = "drop" => RemoveRegistration(First(i)[2])
      /\ First(i)[1] \in {"remove", "removeLast"} => RemoveProducer(First(i)[2], i)
  BY <1>3 DEF Call
<1>10. /\ First(i)[1] = "drop" /\ Others(i) # {} => Excused'
       /\ excuse \subseteq excuse'
  BY <1>3 DEF Call, Others, Excused
<1>11. UNCHANGED <<has, made, pend, wanted, peers, loop, cut, conns>>
  BY DEF Call
<1> QED  BY <1>2, <1>4, <1>5, <1>8, <1>9, <1>10, <1>11 DEF t

\* A step of one connection, or of the HTTP server, that keeps to its own registrations
\* or says that it did not.
LEMMA ServerStep ==
    ASSUME Inv, NEW i \in Conn \cup {HTTP}, DbTypes', srv[i].todo # << >>,
           srv' = [srv EXCEPT ![i].todo = srv'[i].todo], srv'[i].todo \in Seq(Calls),
           \A j \in 1..Len(srv'[i].todo) :
              srv'[i].todo[j] \in IF i = HTTP THEN HttpCalls
                                  ELSE IF srv[i].pc = "open" THEN OpenCalls ELSE EndCalls,
           UNCHANGED <<has, made, pend, wanted, peers, loop, cut, conns>>, excuse \subseteq excuse',
           \A h \in Conn \ {i}, k \in Key : <<k, h>> \in prod' => <<k, h>> \in prod,
           Excused' \/ \A h \in Conn \ {i}, k \in Key : <<k, h>> \in prod => <<k, h>> \in prod',
           i \in Conn /\ srv[i].pc # "open" =>
              \A k \in Key : <<k, i>> \in prod' =>
                 \E j \in 1..Len(srv'[i].todo) : srv'[i].todo[j] = <<"remove", k>>,
           i \in Conn /\ srv[i].pc = "open" =>
              /\ Proper(prod', i, srv'[i].todo)
              /\ Excused' \/ \A c \in Chan : <<c, i>> \in prod' =>
                                <<T, i>> \in prod' \/ EndsWith(srv'[i].todo, "add")
    PROVE  Inv'
<1> DEFINE t == srv'[i].todo
<1> HIDE DEF t
<1>1. /\ NodeTypes /\ LoopTypes /\ ServerTypes /\ LinkInv /\ GhostInv /\ CommandInv /\ TopicInv
  BY DEF Inv, Types
<1>2. /\ \A h \in Conn \cup {HTTP} : h # i => srv'[h] = srv[h]
      /\ \A h \in Conn \cup {HTTP} : srv'[h].pc = srv[h].pc
  BY <1>1 DEF ServerTypes, ServerRecord
<1>3. NodeTypes' /\ LoopTypes'  BY <1>1 DEF NodeTypes, LoopTypes
<1>4. ServerTypes'
  <2>1. srv' \in [Conn \cup {HTTP} -> ServerRecord]
    <3>1. srv' = [srv EXCEPT ![i].todo = t] /\ t \in Seq(Calls)  BY DEF t
    <3> HIDE DEF Calls
    <3> QED  BY <1>1, <3>1 DEF ServerTypes, ServerRecord
  <2>2. srv'[HTTP].pc = "closed"  BY <1>1, <1>2 DEF ServerTypes
  <2>3. \A j \in 1..Len(srv'[HTTP].todo) : srv'[HTTP].todo[j] \in HttpCalls
    <3>1. CASE i = HTTP  BY <3>1
    <3>2. CASE i # HTTP  BY <3>2, <1>1, <1>2 DEF ServerTypes
    <3> QED  BY <3>1, <3>2
  <2>4. ASSUME NEW h \in Conn
        PROVE  \A j \in 1..Len(srv'[h].todo) :
                  srv'[h].todo[j] \in IF srv'[h].pc = "open" THEN OpenCalls ELSE EndCalls
    <3>1. CASE h = i  BY <3>1, <1>2, Constants
    <3>2. CASE h # i  BY <3>2, <1>1, <1>2 DEF ServerTypes
    <3> QED  BY <3>1, <3>2
  <2> QED  BY <2>1, <2>2, <2>3, <2>4 DEF ServerTypes
<1>5. LinkInv'
  <2>1. \A m \in Node : loop[m].conn \in Conn \cup {HTTP}
    BY <1>1, Constants DEF LoopTypes, LoopRecord, Conn
  <2>2. ASSUME NEW m \in Node
        PROVE  /\ loop'[m].sent => loop'[m].cmds # << >>
               /\ loop'[m].cmds # << >> => loop'[m].conn # 0
               /\ loop'[m].conn # 0 /\ loop'[m].conn \notin cut' => srv'[loop'[m].conn].pc = "open"
    BY <1>1, <1>2, <2>1 DEF LinkInv
  <2>3. ASSUME NEW h \in Conn, h > conns'
        PROVE  srv'[h].pc = "closed" /\ srv'[h].todo = << >>
    <3>1. srv[h].pc = "closed" /\ srv[h].todo = << >>  BY <1>1, <2>3 DEF LinkInv
    <3>2. h # i  BY <3>1
    <3> QED  BY <1>2, <3>1, <3>2
  <2> QED  BY <2>2, <2>3 DEF LinkInv
<1>6. GhostInv'
  <2>1. ASSUME NEW h \in Conn, NEW k \in Key, <<k, h>> \in prod', srv'[h].pc # "open"
        PROVE  \E j \in 1..Len(srv'[h].todo) : srv'[h].todo[j] = <<"remove", k>>
    <3>1. CASE h = i  BY <2>1, <3>1, <1>2
    <3>2. CASE h # i
      <4>1. <<k, h>> \in prod /\ srv'[h] = srv[h]  BY <2>1, <3>2, <1>2
      <4>2. srv[h].pc # "open" /\ GhostInv  BY <2>1, <4>1, <1>1
      <4>3. \E j \in 1..Len(srv[h].todo) : srv[h].todo[j] = <<"remove", k>>
        BY <4>1, <4>2 DEF GhostInv
      <4> QED  BY <4>1, <4>3
    <3> QED  BY <3>1, <3>2
  <2> QED  BY <2>1 DEF GhostInv
<1>7. CommandInv'
  <2>1. ASSUME NEW h \in Conn, srv'[h].pc = "open"  PROVE Proper(prod', h, srv'[h].todo)
    <3>1. CASE h = i  BY <2>1, <3>1, <1>2
    <3>2. CASE h # i
      <4>1. srv'[h] = srv[h] /\ Proper(prod, h, srv[h].todo)
        BY <2>1, <3>2, <1>1, <1>2 DEF CommandInv
      <4>2. \A c \in Chan : <<c, h>> \in prod' => <<c, h>> \in prod  BY <3>2, Constants
      <4>3. Proper(prod', h, srv[h].todo)  BY <4>1, <4>2 DEF Proper
      <4> QED  BY <4>1, <4>3
    <3> QED  BY <3>1, <3>2
  <2> QED  BY <2>1 DEF CommandInv
<1>8. TopicInv'
  <2>1. Excused => Excused'  BY DEF Excused
  <2>2. ASSUME ~Excused', NEW h \in Conn, NEW c \in Chan, srv'[h].pc = "open", <<c, h>> \in prod'
        PROVE  <<T, h>> \in prod' \/ EndsWith(srv'[h].todo, "add")
    <3>1. CASE h = i  BY <2>2, <3>1, <1>2
    <3>2. CASE h # i
      <4>1. srv'[h] = srv[h] /\ <<c, h>> \in prod  BY <2>2, <3>2, <1>2, Constants
      <4>2. <<T, h>> \in prod \/ EndsWith(srv[h].todo, "add")
        BY <2>1, <2>2, <4>1, <1>1 DEF TopicInv
      <4>3. <<T, h>> \in prod => <<T, h>> \in prod'  BY <2>2, <3>2, Constants
      <4> QED  BY <4>1, <4>2, <4>3
    <3> QED  BY <3>1, <3>2
  <2> QED  BY <2>2 DEF TopicInv
<1> QED  BY <1>3, <1>4, <1>5, <1>6, <1>7, <1>8 DEF Inv, Types

\* What a call does to the registrations of others, and to its own.
LEMMA CallDb ==
    ASSUME Types, NEW i \in Conn \cup {HTTP}, NEW op, NEW k \in Key,
           i = HTTP => op \in {"addKey", "drop"},
           \/ op = "add" /\ AddProducer(k, i)
           \/ op = "addKey" /\ AddRegistration(k)
           \/ op = "drop" /\ RemoveRegistration(k)
           \/ op \in {"remove", "removeLast"} /\ RemoveProducer(k, i)
    PROVE  /\ DbTypes'
           /\ \A h \in Conn \ {i}, m \in Key : <<m, h>> \in prod' => <<m, h>> \in prod
           /\ \A h \in Conn \ {i}, m \in Key :
                 <<m, h>> \in prod => <<m, h>> \in prod' \/ (op = "drop" /\ m = k)
           /\ \A m \in Key : <<m, i>> \in prod' =>
                 (<<m, i>> \in prod /\ (op \in {"add", "addKey"} \/ m # k)) \/ (op = "add" /\ m = k)
           /\ \A m \in Key : <<m, i>> \in prod => <<m, i>> \in prod' \/ (op \notin {"add", "addKey"} /\ m = k)
           /\ op = "add" => <<k, i>> \in prod'
<1>1. keys \subseteq Key /\ prod \subseteq keys \X Conn /\ tomb \subseteq prod
  BY DEF Types, DbTypes
<1>2. CASE op = "add" /\ AddProducer(k, i)
  <2>1. i \in Conn  BY <1>2
  <2> QED  BY <1>1, <1>2, <2>1 DEF DbTypes, AddProducer
<1>3. CASE op = "addKey" /\ AddRegistration(k)
  BY <1>1, <1>3 DEF DbTypes, AddRegistration
<1>4. CASE op = "drop" /\ RemoveRegistration(k)
  BY <1>1, <1>4 DEF DbTypes, RemoveRegistration
<1>5. CASE op \in {"remove", "removeLast"} /\ RemoveProducer(k, i)
  BY <1>1, <1>5 DEF DbTypes, RemoveProducer
<1> QED  BY <1>2, <1>3, <1>4, <1>5

LEMMA CallInv ==
    ASSUME Inv, NEW i \in Conn \cup {HTTP}, Call(i)
    PROVE  Inv'
<1> DEFINE s == srv[i].todo
           t == srv'[i].todo
           op == First(i)[1]
           k == First(i)[2]
<1>1. Types  BY DEF Inv
<1>2. /\ s \in Seq(Calls) /\ s # << >> /\ First(i) = <<op, k>>
      /\ i = HTTP => First(i) \in HttpCalls
      /\ i # HTTP /\ srv[i].pc = "open" => First(i) \in OpenCalls
      /\ i # HTTP /\ srv[i].pc # "open" => First(i) \in EndCalls
      /\ srv' = [srv EXCEPT ![i].todo = srv'[i].todo]
      /\ t = IF op = "removeLast" /\ Others(i) = {} /\ k \in Ephemeral
             THEN <<<<"drop", k>>>> \o Tail(s) ELSE Tail(s)
      /\ op = "drop" /\ Others(i) # {} => Excused'
      /\ excuse \subseteq excuse'
      /\ UNCHANGED <<has, made, pend, wanted, peers, loop, cut, conns>>
  BY <1>1, CallFacts
<1>3. /\ op = "add" => AddProducer(k, i)
      /\ op = "addKey" => AddRegistration(k)
      /\ op = "drop" => RemoveRegistration(k)
      /\ op \in {"remove", "removeLast"} => RemoveProducer(k, i)
  BY <1>1, CallFacts
<1>4. i = HTTP => op \in {"addKey", "drop"} /\ k \in Item
  BY <1>2 DEF HttpCalls
<1>5. i # HTTP /\ srv[i].pc = "open" =>
         \/ op = "add" /\ k \in Key
         \/ op = "remove" /\ k \in Chan
         \/ op \in {"removeLast", "drop"} /\ k \in Item
  BY <1>2 DEF OpenCalls
<1>6. i # HTTP /\ srv[i].pc # "open" => op = "remove" /\ k \in Key
  BY <1>2 DEF EndCalls
<1>7. k \in Key /\ op \in {"add", "addKey", "drop", "remove", "removeLast"}
  BY <1>4, <1>5, <1>6, Constants
<1>8. /\ \A j \in 1..Len(s) : s[j] \in IF i = HTTP THEN HttpCalls
                                       ELSE IF srv[i].pc = "open" THEN OpenCalls ELSE EndCalls
      /\ First(i) = s[1]
  BY <1>1 DEF Types, ServerTypes, First
<1>9. /\ Tail(s) \in Seq(Calls) /\ Len(s) \in Nat /\ Len(s) > 0
      /\ \A j \in 1..Len(Tail(s)) : Tail(s)[j] = s[j + 1] /\ j + 1 \in 1..Len(s)
      /\ \A j \in 1..Len(s) : j = 1 \/ ((j - 1) \in 1..Len(Tail(s)) /\ Tail(s)[j - 1] = s[j])
  BY <1>2, TailFacts
<1> DEFINE Allowed == IF i = HTTP THEN HttpCalls
                      ELSE IF srv[i].pc = "open" THEN OpenCalls ELSE EndCalls
           u == Tail(s)
<1>10. \A j \in 1..Len(u) : u[j] \in Allowed  BY <1>8, <1>9
<1> HIDE DEF op, k
<1>11. /\ DbTypes'
       /\ \A h \in Conn \ {i}, m \in Key : <<m, h>> \in prod' => <<m, h>> \in prod
       /\ \A h \in Conn \ {i}, m \in Key :
             <<m, h>> \in prod => <<m, h>> \in prod' \/ (op = "drop" /\ m = k)
       /\ \A m \in Key : <<m, i>> \in prod' =>
             (<<m, i>> \in prod /\ (op \in {"add", "addKey"} \/ m # k)) \/ (op = "add" /\ m = k)
       /\ \A m \in Key : <<m, i>> \in prod => <<m, i>> \in prod' \/ (op \notin {"add", "addKey"} /\ m = k)
       /\ op = "add" => <<k, i>> \in prod'
  <2>1. i = HTTP => op \in {"addKey", "drop"}  BY <1>4
  <2>2. \/ op = "add" /\ AddProducer(k, i)
        \/ op = "addKey" /\ AddRegistration(k)
        \/ op = "drop" /\ RemoveRegistration(k)
        \/ op \in {"remove", "removeLast"} /\ RemoveProducer(k, i)
    BY <1>3, <1>7
  <2> QED  BY <1>1, <1>7, <2>1, <2>2, CallDb
<1>12. Excused' \/ \A h \in Conn \ {i}, m \in Key : <<m, h>> \in prod => <<m, h>> \in prod'
  <2>1. \A h \in Conn \ {i} : <<k, h>> \in prod => <<k, h>> \in Others(i)
    BY <1>2 DEF Others, k
  <2> QED  BY <1>2, <1>11, <2>1
<1>13. CASE i = HTTP
  <2>1. t = u  BY <1>2, <1>4, <1>13
  <2>2. i \notin Conn  BY <1>13, Constants
  <2> QED  BY <1>2, <1>9, <1>10, <1>11, <1>12, <2>1, <2>2, ServerStep
<1>14. CASE i # HTTP /\ srv[i].pc # "open"
  <2>1. t = u /\ i \in Conn /\ op = "remove"  BY <1>2, <1>6, <1>14
  <2>2. ASSUME NEW m \in Key, <<m, i>> \in prod'
        PROVE  \E j \in 1..Len(u) : u[j] = <<"remove", m>>
    <3>1. <<m, i>> \in prod /\ m # k  BY <1>11, <2>1, <2>2
    <3>2. PICK j \in 1..Len(s) : s[j] = <<"remove", m>>
      BY <3>1, <2>1, <1>14 DEF Inv, GhostInv
    <3>3. j # 1  BY <3>1, <3>2, <1>2, <1>8
    <3> QED  BY <1>9, <3>2, <3>3
  <2>3. /\ t \in Seq(Calls)
        /\ \A j \in 1..Len(t) : t[j] \in Allowed
    BY <1>9, <1>10, <2>1
  <2> QED  BY <1>2, <1>11, <1>12, <1>14, <2>1, <2>2, <2>3, ServerStep
<1>15. CASE i # HTTP /\ srv[i].pc = "open"
  <2>1. i \in Conn /\ Proper(prod, i, s)
    BY <1>15 DEF Inv, CommandInv
  <2>2. Excused' \/ \A c \in Chan : <<c, i>> \in prod =>
                       <<T, i>> \in prod \/ EndsWith(s, "add")
    <3>1. Excused => Excused'  BY <1>2 DEF Excused
    <3> QED  BY <1>15, <2>1, <3>1 DEF Inv, TopicInv
  <2>3. s[1] = <<op, k>>  BY <1>2, <1>8
  <2>4. /\ EndsWith(u, "add") => EndsWith(s, "add")
        /\ EndsWith(s, "add") => s[1] = <<"add", T>> \/ EndsWith(u, "add")
    BY <1>2, TailEnd
  <2>5. SUFFICES /\ t \in Seq(Calls) /\ Proper(prod', i, t)
                 /\ \A j \in 1..Len(t) : t[j] \in OpenCalls
                 /\ Excused' \/ \A c \in Chan : <<c, i>> \in prod' =>
                                   <<T, i>> \in prod' \/ EndsWith(t, "add")
    BY <1>2, <1>11, <1>12, <1>15, <2>1, ServerStep
  <2>6. CASE op = "add"
    <3>1. t = u  BY <1>2, <2>6
    <3>2. s[1][1] = "add"  BY <2>3, <2>6
    <3>3. Proper(prod', i, u)  BY <1>2, <2>1, <3>2, TailProper
    <3>4. ASSUME NEW c \in Chan, <<c, i>> \in prod', ~Excused', <<T, i>> \notin prod'
          PROVE  EndsWith(u, "add")
      <4>1. k # T  BY <1>11, <2>6, <3>4
      <4>2. <<T, i>> \notin prod  BY <1>11, <2>6, <3>4, Constants
      <4>3. EndsWith(s, "add")
        <5>1. CASE k = c
          BY <2>1, <2>3, <2>6, <5>1, <1>9 DEF Proper
        <5>2. CASE k # c
          BY <1>11, <2>2, <3>4, <4>2, <5>2, Constants
        <5> QED  BY <5>1, <5>2
      <4> QED  BY <2>3, <2>4, <4>1, <4>3
    <3> QED  BY <1>9, <1>10, <1>15, <3>1, <3>3, <3>4
  <2>7. CASE op = "remove"
    <3>1. t = u /\ k \in Chan  BY <1>2, <1>5, <1>15, <2>7
    <3>2. \A c \in Chan : <<c, i>> \in prod' => <<c, i>> \in prod /\ s[1] # <<"remove", c>>
      BY <1>11, <2>3, <2>7, Constants
    <3>3. Proper(prod', i, u)  BY <1>2, <2>1, <3>2, TailProper
    <3>4. <<T, i>> \in prod => <<T, i>> \in prod'  BY <1>11, <3>1, Constants
    <3>5. EndsWith(s, "add") => EndsWith(u, "add")  BY <2>3, <2>4, <2>7
    <3>6. Excused' \/ \A c \in Chan : <<c, i>> \in prod' =>
                         <<T, i>> \in prod' \/ EndsWith(u, "add")
      BY <2>2, <3>2, <3>4, <3>5
    <3> QED  BY <1>9, <1>10, <1>15, <3>1, <3>3, <3>6
  <2>8. CASE op \in {"removeLast", "drop"} /\ k # T
    <3>1. k \in Chan  BY <1>5, <1>15, <2>8, Constants
    <3>2. \A c \in Chan : <<c, i>> \in prod' => <<c, i>> \in prod /\ s[1] # <<"remove", c>>
      BY <1>11, <2>3, <2>8, Constants
    <3>3. Proper(prod', i, u)  BY <1>2, <2>1, <3>2, TailProper
    <3>4. <<T, i>> \in prod => <<T, i>> \in prod'  BY <1>11, <2>8, Constants
    <3>5. EndsWith(s, "add") => EndsWith(u, "add")  BY <2>3, <2>4, <2>8
    <3>6. Excused' \/ \A c \in Chan : <<c, i>> \in prod' =>
                         <<T, i>> \in prod' \/ EndsWith(u, "add")
      BY <2>2, <3>2, <3>4, <3>5
    <3>7. CASE t = u
      BY <1>9, <1>10, <1>15, <3>3, <3>6, <3>7
    <3>8. CASE t = <<<<"drop", k>>>> \o u
      <4> DEFINE q == <<<<"drop", k>>>> \o u
      <4>1. /\ q \in Seq(Calls) /\ Proper(prod', i, q)
            /\ EndsWith(u, "add") => EndsWith(q, "add")
            /\ \A j \in 1..Len(q) : q[j] = <<"drop", k>> \/ \E h \in 1..Len(u) : q[j] = u[h]
        BY <1>9, <3>1, <3>3, PushProper
      <4> HIDE DEF q
      <4>2. <<"drop", k>> \in OpenCalls  BY <3>1, Constants DEF OpenCalls
      <4>3. \A j \in 1..Len(q) : q[j] \in OpenCalls
        <5>1. \A j \in 1..Len(u) : u[j] \in OpenCalls  BY <1>10, <1>15
        <5> QED  BY <4>1, <4>2, <5>1
      <4>4. t = q  BY <3>8 DEF q
      <4> QED  BY <3>6, <4>1, <4>3, <4>4
    <3> QED  BY <1>2, <3>7, <3>8
  <2>9. CASE op = "removeLast" /\ k = T
    <3>1. s[1] = <<"removeLast", T>> /\ 1 \in 1..Len(s)  BY <1>9, <2>3, <2>9
    <3>2. Len(s) = 1 /\ \A c \in Chan : <<c, i>> \in prod => \E h \in 1..Len(s) : s[h] = <<"remove", c>>
      BY <2>1, <3>1 DEF Proper
    <3>3. \A c \in Chan : <<c, i>> \notin prod
      BY <3>1, <3>2
    <3>4. \A c \in Chan : <<c, i>> \notin prod'
      BY <1>11, <2>9, <3>3, Constants
    <3>5. u = << >>
      <4>1. Len(u) = 0  BY <1>2, <3>2, TailFacts
      <4> QED  BY <1>9, <4>1, EmptySeq
    <3>6. CASE t = u
      <4>1. Proper(prod', i, << >>)  BY DEF Proper, EndsWith
      <4>2. t = << >>  BY <3>5, <3>6
      <4> HIDE DEF t
      <4>3. t \in Seq(Calls) /\ Proper(prod', i, t) /\ \A j \in 1..Len(t) : t[j] \in OpenCalls
        BY <4>1, <4>2
      <4> QED  BY <3>4, <4>3 DEF t
    <3>7. CASE t = <<<<"drop", k>>>> \o u
      <4> DEFINE e == <<"drop", T>>
      <4>1. e \in Calls /\ e \in OpenCalls /\ e # <<"removeLast", T>> /\ e[1] # "add"
            /\ \A c \in Chan : e # <<"add", c>>
        BY CallSets, Constants DEF OpenCalls
      <4>2. t = <<e>> \o << >>  BY <3>5, <3>7, <2>9
      <4> HIDE DEF e, t
      <4>3. t = <<e>> /\ Len(t) = 1 /\ t[1] = e /\ \A j \in 1..Len(t) : t[j] = e /\ j = Len(t)
        BY <4>2
      <4>4. t \in Seq(Calls)
        <5> HIDE DEF Calls
        <5> QED  BY <4>1, <4>3
      <4>5. Proper(prod', i, t)
        BY <3>4, <4>1, <4>3 DEF Proper, EndsWith
      <4> QED  BY <3>4, <4>1, <4>3, <4>4, <4>5 DEF t
    <3> QED  BY <1>2, <3>6, <3>7
  <2>10. CASE op = "drop" /\ k = T
    <3>1. s[1] = <<"drop", T>> /\ 1 \in 1..Len(s)  BY <1>9, <2>3, <2>10
    <3>2. Len(s) = 1 /\ \A c \in Chan : <<c, i>> \notin prod
      BY <2>1, <3>1 DEF Proper
    <3>3. \A c \in Chan : <<c, i>> \notin prod'
      BY <1>11, <2>10, <3>2, Constants
    <3>4. u = << >>
      <4>1. Len(u) = 0  BY <1>2, <3>2, TailFacts
      <4> QED  BY <1>9, <4>1, EmptySeq
    <3>5. t = u  BY <1>2, <2>10
    <3>6. Proper(prod', i, << >>)  BY DEF Proper, EndsWith
    <3>7. t = << >>  BY <3>4, <3>5
    <3> HIDE DEF t
    <3>8. t \in Seq(Calls) /\ Proper(prod', i, t) /\ \A j \in 1..Len(t) : t[j] \in OpenCalls
      BY <3>6, <3>7
    <3> QED  BY <3>3, <3>8 DEF t
  <2> QED  BY <1>5, <1>15, <2>6, <2>7, <2>8, <2>9, <2>10
<1> QED  BY <1>13, <1>14, <1>15

-----------------------------------------------------------------------------
(* The end of a connection, HTTP requests and a restart.                    *)

\* IOLoop's end makes a call for each registration there is: nobody else adds one.
LEMMA EndOfLoopInv ==
    ASSUME Inv, NEW i \in Conn, EndOfLoop(i)
    PROVE  Inv'
<1> DEFINE t == SetToSeq({<<"remove", k>> : k \in Leftover(i)})
<1>1. /\ NodeTypes /\ LoopTypes /\ ServerTypes /\ DbTypes /\ LinkInv /\ GhostInv
      /\ CommandInv /\ TopicInv
  BY DEF Inv, Types
<1>2. /\ t \in Seq(Calls) /\ \A j \in 1..Len(t) : t[j] \in EndCalls
      /\ \A k \in Key : <<k, i>> \in prod => \E j \in 1..Len(t) : t[j] = <<"remove", k>>
  BY <1>1, LeftoverFacts
<1>3. /\ srv[i].pc = "open" /\ i \in cut
      /\ srv' = [srv EXCEPT ![i] = [pc |-> "closed", todo |-> t]]
      /\ UNCHANGED <<has, made, pend, wanted, peers, loop, cut, db, conns, excuse>>
  BY DEF EndOfLoop
<1> HIDE DEF t
<1>4. /\ srv'[i].pc = "closed" /\ srv'[i].todo = t
      /\ \A h \in Conn \cup {HTTP} : h # i => srv'[h] = srv[h]
  BY <1>1, <1>3 DEF ServerTypes
<1>5. NodeTypes' /\ LoopTypes' /\ DbTypes'  BY <1>1, <1>3 DEF NodeTypes, LoopTypes, DbTypes
<1>6. ServerTypes'
  <2>1. [pc |-> "closed", todo |-> t] \in ServerRecord  BY <1>2 DEF ServerRecord
  <2>2. srv' \in [Conn \cup {HTTP} -> ServerRecord]  BY <1>1, <1>3, <2>1 DEF ServerTypes
  <2>3. srv'[HTTP] = srv[HTTP]  BY <1>4, Constants
  <2>4. ASSUME NEW h \in Conn
        PROVE  \A j \in 1..Len(srv'[h].todo) :
                  srv'[h].todo[j] \in IF srv'[h].pc = "open" THEN OpenCalls ELSE EndCalls
    <3>1. CASE h = i  BY <3>1, <1>2, <1>4
    <3>2. CASE h # i  BY <3>2, <1>1, <1>4 DEF ServerTypes
    <3> QED  BY <3>1, <3>2
  <2> QED  BY <1>1, <2>2, <2>3, <2>4 DEF ServerTypes
<1>7. LinkInv'
  <2>1. \A m \in Node : loop[m].conn \in Conn \cup {HTTP}
    BY <1>1, Constants DEF LoopTypes, LoopRecord, Conn
  <2>2. ASSUME NEW m \in Node
        PROVE  /\ loop'[m].sent => loop'[m].cmds # << >>
               /\ loop'[m].cmds # << >> => loop'[m].conn # 0
               /\ loop'[m].conn # 0 /\ loop'[m].conn \notin cut' => srv'[loop'[m].conn].pc = "open"
    BY <1>1, <1>3, <1>4, <2>1 DEF LinkInv
  <2>3. ASSUME NEW h \in Conn, h > conns'
        PROVE  srv'[h].pc = "closed" /\ srv'[h].todo = << >>
    <3>1. srv[h].pc = "closed" /\ srv[h].todo = << >>  BY <1>1, <1>3, <2>3 DEF LinkInv
    <3>2. h # i  BY <1>3, <3>1
    <3> QED  BY <1>4, <3>1, <3>2
  <2> QED  BY <2>2, <2>3 DEF LinkInv
<1>8. GhostInv'
  <2>1. ASSUME NEW h \in Conn, NEW k \in Key, <<k, h>> \in prod', srv'[h].pc # "open"
        PROVE  \E j \in 1..Len(srv'[h].todo) : srv'[h].todo[j] = <<"remove", k>>
    <3>1. CASE h = i  BY <2>1, <3>1, <1>2, <1>3, <1>4
    <3>2. CASE h # i
      <4>1. <<k, h>> \in prod /\ srv'[h] = srv[h]  BY <2>1, <3>2, <1>3, <1>4
      <4>2. srv[h].pc # "open" /\ GhostInv  BY <2>1, <4>1, <1>1
      <4>3. \E j \in 1..Len(srv[h].todo) : srv[h].todo[j] = <<"remove", k>>
        BY <4>1, <4>2 DEF GhostInv
      <4> QED  BY <4>1, <4>3
    <3> QED  BY <3>1, <3>2
  <2> QED  BY <2>1 DEF GhostInv
<1>9. \A h \in Conn : srv'[h].pc = "open" => srv'[h] = srv[h]  BY <1>4
<1>10. CommandInv'  BY <1>1, <1>3, <1>9 DEF CommandInv
<1>11. TopicInv'
  <2>1. Excused' = Excused /\ prod' = prod  BY <1>3 DEF Excused
  <2> QED  BY <1>1, <1>9, <2>1 DEF TopicInv
<1> QED  BY <1>5, <1>6, <1>7, <1>8, <1>10, <1>11 DEF Inv, Types

LEMMA ServeInv ==
    ASSUME Inv, NEW r \in Http \ {"tombstone"}, NEW c \in Chan, Serve(r, c)
    PROVE  Inv'
<1> DEFINE t == Request(r, c)
<1>1. /\ NodeTypes /\ LoopTypes /\ ServerTypes /\ DbTypes /\ LinkInv /\ GhostInv
      /\ CommandInv /\ TopicInv
  BY DEF Inv, Types
<1>2. t \in Seq(Calls) /\ \A j \in 1..Len(t) : t[j] \in HttpCalls
  BY RequestFacts
<1>3. /\ srv' = [srv EXCEPT ![HTTP].todo = t]
      /\ UNCHANGED <<has, made, pend, wanted, peers, loop, cut, db, conns, excuse>>
  BY DEF Serve
<1> HIDE DEF t
<1>4. /\ srv'[HTTP].pc = srv[HTTP].pc /\ srv'[HTTP].todo = t
      /\ \A h \in Conn : srv'[h] = srv[h]
  BY <1>1, <1>3, Constants DEF ServerTypes, ServerRecord
<1>5. NodeTypes' /\ LoopTypes' /\ DbTypes'  BY <1>1, <1>3 DEF NodeTypes, LoopTypes, DbTypes
<1>6. ServerTypes'
  <2>1. srv' \in [Conn \cup {HTTP} -> ServerRecord]
    <3> HIDE DEF Calls
    <3> QED  BY <1>1, <1>2, <1>3 DEF ServerTypes, ServerRecord
  <2> QED  BY <1>1, <1>2, <1>4, <2>1 DEF ServerTypes
<1>7. LinkInv'
  <2>1. \A m \in Node : loop[m].conn = 0 \/ loop[m].conn \in Conn
    BY <1>1, Constants DEF LoopTypes, LoopRecord, Conn
  <2>2. ASSUME NEW m \in Node
        PROVE  /\ loop'[m].sent => loop'[m].cmds # << >>
               /\ loop'[m].cmds # << >> => loop'[m].conn # 0
               /\ loop'[m].conn # 0 /\ loop'[m].conn \notin cut' => srv'[loop'[m].conn].pc = "open"
    BY <1>1, <1>3, <1>4, <2>1 DEF LinkInv
  <2>3. \A h \in Conn : h > conns' => srv'[h].pc = "closed" /\ srv'[h].todo = << >>
    BY <1>1, <1>3, <1>4 DEF LinkInv
  <2> QED  BY <2>2, <2>3 DEF LinkInv
<1>8. GhostInv'
  <2>1. GhostInv /\ prod' = prod /\ \A h \in Conn : srv'[h] = srv[h]  BY <1>1, <1>3, <1>4
  <2> QED  BY <2>1 DEF GhostInv
<1>9. CommandInv'  BY <1>1, <1>3, <1>4 DEF CommandInv
<1>10. TopicInv'
  <2>1. Excused' = Excused /\ prod' = prod  BY <1>3 DEF Excused
  <2> QED  BY <1>1, <1>4, <2>1 DEF TopicInv
<1> QED  BY <1>5, <1>6, <1>7, <1>8, <1>9, <1>10 DEF Inv, Types

LEMMA RestartInv ==
    ASSUME Inv, Restart
    PROVE  Inv'
<1>1. NodeTypes /\ LoopTypes /\ ServerTypes /\ LinkInv  BY DEF Inv, Types
<1>2. /\ keys' = {} /\ prod' = {} /\ tomb' = {}
      /\ srv' = [i \in Conn \cup {HTTP} |-> Closed]
      /\ cut' = {i \in Conn : srv[i].pc = "open" \/ i \in cut}
      /\ UNCHANGED <<has, made, pend, wanted, peers, loop, conns, excuse>>
  BY DEF Restart
<1>3. Closed \in ServerRecord /\ Closed.pc = "closed" /\ Closed.todo = << >>
  BY DEF Closed, ServerRecord
<1>4. NodeTypes' /\ LoopTypes'  BY <1>1, <1>2 DEF NodeTypes, LoopTypes
<1>5. DbTypes'  BY <1>2 DEF DbTypes
<1>6. \A i \in Conn \cup {HTTP} : srv'[i] = Closed /\ srv'[i].todo = << >> /\ srv'[i].pc = "closed"
  BY <1>2, <1>3
<1>7. ServerTypes'
  <2>1. srv' \in [Conn \cup {HTTP} -> ServerRecord]  BY <1>2, <1>3
  <2>2. Len(<< >>) = 0  OBVIOUS
  <2> QED  BY <1>6, <2>1, <2>2 DEF ServerTypes
<1>8. LinkInv'
  <2>1. ASSUME NEW m \in Node, loop[m].conn # 0  PROVE loop[m].conn \in cut'
    <3>1. loop[m].conn \in Conn
      BY <1>1, <2>1, Constants DEF LoopTypes, LoopRecord, Conn
    <3>2. loop[m].conn \in cut \/ srv[loop[m].conn].pc = "open"  BY <1>1, <2>1 DEF LinkInv
    <3> QED  BY <1>2, <3>1, <3>2
  <2> QED  BY <1>1, <1>2, <1>6, <2>1 DEF LinkInv
<1>9. GhostInv'  BY <1>2 DEF GhostInv
<1>10. CommandInv'  BY <1>6 DEF CommandInv
<1>11. TopicInv'  BY <1>2 DEF TopicInv
<1> QED  BY <1>4, <1>5, <1>7, <1>8, <1>9, <1>10, <1>11 DEF Inv, Types

-----------------------------------------------------------------------------
(* The theorems.                                                            *)

LEMMA InitInv == Init => Inv
<1> SUFFICES ASSUME Init PROVE Inv
  OBVIOUS
<1>1. Closed \in ServerRecord /\ Closed.pc = "closed" /\ Closed.todo = << >>
  BY DEF Closed, ServerRecord
<1>2. Off \in LoopRecord /\ Off.sent = FALSE /\ Off.cmds = << >> /\ Off.conn = 0
  BY Constants DEF Off, LoopRecord
<1>3. \A i \in Conn \cup {HTTP} : srv[i] = Closed /\ srv[i].todo = << >> /\ srv[i].pc = "closed"
  BY <1>1 DEF Init
<1>4. NodeTypes  BY Constants DEF Init, NodeTypes
<1>5. LoopTypes  BY <1>2 DEF Init, LoopTypes
<1>6. DbTypes  BY DEF Init, DbTypes
<1>7. ServerTypes
  <2>1. srv \in [Conn \cup {HTTP} -> ServerRecord]  BY <1>1 DEF Init
  <2>2. Len(<< >>) = 0  OBVIOUS
  <2> QED  BY <1>3, <2>1, <2>2 DEF ServerTypes
<1>8. LinkInv  BY <1>2, <1>3 DEF Init, LinkInv
<1>9. GhostInv /\ CommandInv /\ TopicInv
  BY <1>3 DEF Init, GhostInv, CommandInv, TopicInv
<1> QED  BY <1>4, <1>5, <1>6, <1>7, <1>8, <1>9 DEF Inv, Types

LEMMA NextInv == Inv /\ [Next]_vars => Inv'
<1> SUFFICES ASSUME Inv, [Next]_vars PROVE Inv'
  OBVIOUS
<1>1. CASE UNCHANGED vars
  <2>1. NodeTypes' /\ tomb' \subseteq prod'  BY <1>1 DEF vars, Inv, Types, NodeTypes, DbTypes
  <2> QED  BY <1>1, <2>1, NodeStep DEF vars
<1>2. ASSUME NEW i \in Conn \cup {HTTP}, Call(i)  PROVE Inv'
  BY <1>2, CallInv
<1>3. ASSUME NEW n \in Node, Client(n)  PROVE Inv'
  BY <1>3, SendInv, ReceiveInv, LoopOffInv DEF Client
<1>4. ASSUME NEW n \in Node, StartPeer(n) \/ Tick(n) \/ AnyNotified(n) \/ Reconfigure(n)
      PROVE  Inv'
  BY <1>4, StartPeerInv, TickInv, AnyNotifiedInv, LoopOffInv
<1>5. ASSUME NEW n \in Node, DeleteTopic(n) \/ UnmapTopic(n) \/ doConfig(n)  PROVE Inv'
  BY <1>5, DeleteTopicInv
<1>6. ASSUME NEW n \in Node, Tombstone(n)  PROVE Inv'
  BY <1>6, TombInv
<1>7. ASSUME NEW n \in Node, NEW x \in Item, Create(n, x)  PROVE Inv'
  BY <1>7, CreateInv
<1>8. ASSUME NEW n \in Node, NEW c \in Chan, DeleteChannel(n, c)  PROVE Inv'
  BY <1>8, DeleteChannelInv
<1>9. ASSUME NEW r \in Http \ {"tombstone"}, NEW c \in Chan, Serve(r, c)  PROVE Inv'
  BY <1>9, ServeInv
<1>10. ASSUME NEW i \in Conn, Break(i) \/ EndOfLoop(i) \/ Inactive(i)  PROVE Inv'
  BY <1>10, BreakInv, EndOfLoopInv, TombInv
<1>11. CASE TombstoneLifetime
  BY <1>11, TombInv
<1>12. CASE Restart
  BY <1>12, RestartInv
<1> QED  BY <1>1, <1>2, <1>3, <1>4, <1>5, <1>6, <1>7, <1>8, <1>9, <1>10, <1>11, <1>12 DEF Next

\* The inductive invariant: the types, what the loop of a node knows of its connection,
\* and how far the program of every connection has come.
THEOREM LookupInvariant == Spec => []Inv
<1>1. Inv /\ [Next]_vars => Inv'  BY NextInv
<1> QED  BY InitInv, <1>1, PTL DEF Spec

\* The types: registrationMap has no producer without a key and no tombstone without a
\* producer, and the loop of a node sends well-formed commands only, whatever the
\* notifications, the HTTP requests and the lost connections are.
THEOREM TypeCorrect == Spec => []TypeOK
<1>1. Inv => TypeOK
  <2> SUFFICES ASSUME Inv PROVE TypeOK
    OBVIOUS
  <2> DEFINE W == {"PING", "IDENTIFY", "REGISTER", "UNREGISTER"} \X Key
  <2>1. Commands \subseteq W  BY Constants DEF Commands
  <2> HIDE DEF W
  <2>2. \A q \in Seq(Commands) : q \in Seq(W)
    <3> HIDE DEF Commands
    <3> QED  BY <2>1
  <2>3. \A r \in LoopRecord : r \in [conn : 0..MaxConns, sent : BOOLEAN, cmds : Seq(W)]
    BY <2>2 DEF LoopRecord
  <2>4. loop \in [Node -> [conn : 0..MaxConns, sent : BOOLEAN, cmds : Seq(W)]]
    BY <2>3 DEF Inv, Types, LoopTypes
  <2> QED  BY <2>4 DEF Inv, Types, NodeTypes, DbTypes, TypeOK, W
<1> QED  BY LookupInvariant, <1>1, PTL

\* When IOLoop has ended and has made the calls of its deferred clean-up, no registration
\* of the connection is left in the database, although the calls of other connections and
\* of the HTTP API interleave with its own.
THEOREM GoneProducersAreForgotten == Spec => []NoGhosts
<1>1. Inv => NoGhosts
  <2> SUFFICES ASSUME Inv, NEW p \in prod, srv[p[2]].pc # "open"
               PROVE  srv[p[2]].todo # << >>
    BY DEF NoGhosts
  <2>1. p[1] \in Key /\ p[2] \in Conn /\ <<p[1], p[2]>> = p
    BY DEF Inv, Types, DbTypes
  <2>2. \E j \in 1..Len(srv[p[2]].todo) : srv[p[2]].todo[j] = <<"remove", p[1]>>
    BY <2>1 DEF Inv, GhostInv
  <2> QED  BY <2>2
<1> QED  BY LookupInvariant, <1>1, PTL

\* Between the commands of a connection, REGISTER and UNREGISTER have left it registered
\* for the topic of every channel it is registered for, unless a deletion has dropped the
\* key under it.
THEOREM TopicOfEveryChannel == Spec => []ChannelHasTopic
<1>1. Inv => ChannelHasTopic
  <2> SUFFICES ASSUME Inv, ~Excused, NEW p \in prod, p[1] \in Chan, srv[p[2]].pc = "open",
                      srv[p[2]].todo = << >>
               PROVE  <<T, p[2]>> \in prod
    BY DEF ChannelHasTopic, Excused
  <2>1. p[2] \in Conn /\ <<p[1], p[2]>> = p
    BY DEF Inv, Types, DbTypes
  <2> QED  BY <2>1 DEF Inv, TopicInv, EndsWith
<1> QED  BY LookupInvariant, <1>1, PTL
=============================================================================
