---------------------------- MODULE NSQDProofs ----------------------------
(***************************************************************************)
(* NSQD for every set of topic and channel names, every number of requests *)
(* served at the same time and every bound: its types and the lock, the    *)
(* one topic of a name, the pauses the metadata file keeps and the file    *)
(* that describes the topics once everything is served.                    *)
(***************************************************************************)
EXTENDS NSQD, FiniteSetTheorems, SequenceTheorems, TLAPS

USE DEF volatile, history, bounds

PC == {"idle", "create", "query", "getChannel", "delChannel", "pause", "persist",
       "persisting", "delTopic", "wait", "unmap", "close"}

TopicRecord == [name : Name, status : [Key -> Status], exiting : BOOLEAN,
                started : BOOLEAN, deleter : {"no", "due", "done"}]
CallRecord == [pc : PC, name : Name \cup {Nil}, topic : Nat, key : Key \cup {Nil},
               val : {"run", "paused"}]
JobRecord == [on : BOOLEAN, todo : SUBSET Name, snap : Entries]

TopicTypes ==
    /\ topics \in Seq(TopicRecord)
    /\ topicMap \in [Name -> Nat]
    /\ \A n \in Name : topicMap[n] # 0 =>
          topicMap[n] \in 1..Len(topics) /\ topics[topicMap[n]].name = n

OtherTypes ==
    /\ Ephemeral \subseteq Name \cup Chan
    /\ phase \in {"down", "load", "up", "closing", "stopping"}
    /\ lock \in Actor \cup {Nil}
    /\ file \in Entries /\ todo \subseteq Name
    /\ at \in [Actor -> CallRecord]
    /\ job \in [Actor -> JobRecord]
    /\ notify \in Nat
    /\ acked \in Entries
    /\ setter \in [Name -> [Key -> Req \cup {Nil}]]
    /\ failed \in BOOLEAN /\ doubled \in BOOLEAN

\* What a call has in hand at each of its steps, and which calls each actor makes.
HandTypes ==
    \A a \in Actor :
        /\ at[a].pc \notin {"idle", "close"} => at[a].name \in Name
        /\ at[a].pc \notin {"idle", "close", "create"} =>
              at[a].topic \in 1..Len(topics) /\ topics[at[a].topic].name = at[a].name
        /\ at[a].pc \in {"getChannel", "delChannel"} => at[a].key \in Chan
        /\ at[a].pc \in {"pause", "persist", "persisting"} => at[a].key \in Key
        /\ at[a].pc \in {"delTopic", "wait", "unmap"} => a \in Req \cup {"deleter"}
        /\ at[a].pc = "close" => a = "exit"
        /\ at[a].pc \notin {"idle", "delTopic", "wait", "unmap", "close"} => a \in Req

Types == TopicTypes /\ OtherTypes /\ HandTypes

\* The write lock is held exactly by the one that persists, or by Exit() while it
\* closes the topics; nobody but main runs before the topics are loaded.
LockInv ==
    /\ \A a \in Actor \ {"main"} : job[a].on => lock = a
    /\ \A a \in Req : job[a].on <=> at[a].pc = "persisting"
    /\ ~job["deleter"].on
    /\ job["main"].on => phase = "load" /\ todo = {}
    /\ phase \in {"load", "down"} =>
          lock = Nil /\ notify = 0 /\ \A a \in Actor : at[a].pc = "idle"
    /\ at["exit"].pc = "close" => lock = "exit" /\ ~job["exit"].on

\* The file, and what is about to become the file, lists a topic with its channels.
FileInv ==
    /\ \A n \in Name, k \in Key : file[n][k] # "none" => file[n][Self] # "none"
    /\ \A a \in Actor, n \in Name, k \in Key :
          job[a].snap[n][k] # "none" => job[a].snap[n][Self] # "none"
    /\ \A t \in 1..Len(topics) : topics[t].status[Self] # "none"
    /\ \A n \in todo : phase = "load" /\ file[n][Self] # "none" /\ topicMap[n] = 0

\* Unless deletions of one name overlap, the topic that is being deleted is the one
\* of its name in topicMap until its deleter removes it from there.
MapInv ==
    ~doubled =>
        /\ \A t \in 1..Len(topics) : ~topics[t].exiting => topicMap[topics[t].name] = t
        /\ \A a, b \in Actor, n \in Name : Deleting(a, n) /\ Deleting(b, n) => a = b
        /\ \A a \in Actor, n \in Name : Deleting(a, n) => topicMap[n] = at[a].topic
        /\ \A a \in Actor : at[a].pc \in {"wait", "unmap"} => topics[at[a].topic].exiting

\* An answered pause is the state of the topic, or of the entry LoadMetadata will make
\* the topic of, and of every snapshot that has got past the topic.  The request that
\* set a key last will find its value where it set it.
Current(n, k, v) == topicMap[n] # 0 /\ topics[topicMap[n]].status[k] = v

PauseInv ==
    ~doubled =>
        /\ \A n \in Name \ Ephemeral, k \in Key \ Ephemeral : acked[n][k] # "none" =>
              /\ file[n][k] = acked[n][k]
              /\ phase # "down" => n \in todo \/ Current(n, k, acked[n][k])
              /\ \A a \in Actor : job[a].on /\ n \notin job[a].todo =>
                    job[a].snap[n][k] = acked[n][k]
        /\ \A a \in Actor : at[a].pc \in {"wait", "unmap"} =>
              \A k \in Key : acked[at[a].name][k] = "none" /\ setter[at[a].name][k] = Nil
        /\ \A a \in Req, n \in Name \ Ephemeral, k \in Key \ Ephemeral :
              /\ at[a].pc \in {"persist", "persisting"} /\ at[a].name = n /\ at[a].key = k
              /\ setter[n][k] = a
              => /\ Current(n, k, at[a].val)
                 /\ job[a].on /\ n \notin job[a].todo => job[a].snap[n][k] = at[a].val

\* What the file, or a snapshot that has got past a topic, does not say of the topic
\* is about to be persisted.
Pending == notify > 0 \/ \E a \in Req : at[a].pc = "persist"

MetaInv ==
    ~Pending =>
        \A n \in Name \ Ephemeral : topicMap[n] # 0 =>
            /\ phase = "up" /\ ~failed /\ (\A a \in Actor : ~job[a].on) =>
                  file[n] = Listed(topics[topicMap[n]])
            /\ \A a \in Actor : phase \in {"load", "up"} /\ job[a].on /\ n \notin job[a].todo =>
                  job[a].snap[n] = Listed(topics[topicMap[n]])

Inv == Types /\ LockInv /\ FileInv /\ MapInv /\ PauseInv /\ MetaInv

-----------------------------------------------------------------------------
(* Constants, and the sequence of topics.                                   *)

LEMMA Constants ==
    /\ Self \in Key /\ Self \notin Chan /\ Self \notin Name
    /\ Chan \subseteq Key /\ \A k \in Key : k \in Chan \/ k = Self
    /\ Nil \notin Actor /\ Nil \notin Req /\ Req \subseteq Actor
    /\ {"notify", "deleter", "main", "exit"} \subseteq Actor
    /\ "notify" \notin Req /\ "deleter" \notin Req /\ "main" \notin Req /\ "exit" \notin Req
    /\ \A a \in Actor : a \in Req \/ a \in {"notify", "deleter", "main", "exit"}
BY NSQDAssumption DEF Key, Actor

LEMMA Finite ==
    ASSUME NEW S, S \subseteq Chan
    PROVE  Cardinality(S) \in Nat /\ (S # {} => Cardinality(S) > 0)
<1>1. IsFiniteSet(S)  BY NSQDAssumption, FS_Subset
<1> QED  BY <1>1, FS_CardinalityType, FS_EmptySet

\* One topic object changes, and keeps its name.
Edit(t, v) == topics' = [topics EXCEPT ![t] = v] /\ topicMap' = topicMap

\* One topic object is added, and put into topicMap.
Add(n, v) ==
    topics' = Append(topics, v) /\ topicMap' = [topicMap EXCEPT ![n] = Len(topics) + 1]

LEMMA EditTopic ==
    ASSUME TopicTypes, NEW t \in 1..Len(topics), NEW v \in TopicRecord,
           v.name = topics[t].name, Edit(t, v)
    PROVE  /\ TopicTypes' /\ Len(topics) \in Nat /\ Len(topics') = Len(topics)
           /\ topicMap' = topicMap /\ topics'[t] = v
           /\ \A u \in 1..Len(topics) : topics[u] \in TopicRecord /\ topics'[u] \in TopicRecord
           /\ \A u \in 1..Len(topics) : u # t => topics'[u] = topics[u]
           /\ \A u \in 1..Len(topics) : topics'[u].name = topics[u].name
<1>1. /\ topics \in Seq(TopicRecord) /\ topicMap \in [Name -> Nat]
      /\ \A n \in Name : topicMap[n] # 0 =>
            topicMap[n] \in 1..Len(topics) /\ topics[topicMap[n]].name = n
  BY DEF TopicTypes
<1>2. /\ Len(topics) \in Nat /\ DOMAIN topics = 1..Len(topics)
      /\ \A u \in 1..Len(topics) : topics[u] \in TopicRecord
  BY <1>1, LenProperties, ElementOfSeq
<1>3. /\ topics' = [topics EXCEPT ![t] = v] /\ topicMap' = topicMap
  BY DEF Edit
<1> HIDE DEF TopicRecord
<1>4. /\ topics' \in Seq(TopicRecord) /\ Len(topics') = Len(topics)
  BY <1>1, <1>2, <1>3
<1>5. \A u \in 1..Len(topics) : topics'[u] = IF u = t THEN v ELSE topics[u]
  BY <1>2, <1>3
<1>6. \A u \in 1..Len(topics) : topics'[u].name = topics[u].name
  BY <1>5
<1>7. TopicTypes'
  <2>1. topicMap' \in [Name -> Nat]  BY <1>1, <1>3
  <2>2. \A n \in Name : topicMap'[n] # 0 =>
          topicMap'[n] \in 1..Len(topics') /\ topics'[topicMap'[n]].name = n
    BY <1>1, <1>3, <1>4, <1>6
  <2> QED  BY <1>4, <2>1, <2>2 DEF TopicTypes
<1> QED  BY <1>2, <1>3, <1>4, <1>5, <1>6, <1>7

LEMMA AddTopic ==
    ASSUME TopicTypes, NEW n \in Name, NEW v \in TopicRecord, v.name = n, Add(n, v)
    PROVE  /\ TopicTypes' /\ Len(topics) \in Nat /\ Len(topics') = Len(topics) + 1
           /\ \A u \in 1..Len(topics) : topics[u] \in TopicRecord
           /\ \A u \in 1..Len(topics') : topics'[u] \in TopicRecord
           /\ \A u \in 1..Len(topics) : topics'[u] = topics[u]
           /\ topics'[Len(topics')] = v
           /\ topicMap \in [Name -> Nat]
           /\ topicMap' = [topicMap EXCEPT ![n] = Len(topics')]
<1>1. /\ topics \in Seq(TopicRecord) /\ topicMap \in [Name -> Nat]
      /\ \A m \in Name : topicMap[m] # 0 =>
            topicMap[m] \in 1..Len(topics) /\ topics[topicMap[m]].name = m
  BY DEF TopicTypes
<1>2. /\ Len(topics) \in Nat /\ DOMAIN topics = 1..Len(topics)
      /\ \A u \in 1..Len(topics) : topics[u] \in TopicRecord
  BY <1>1, LenProperties, ElementOfSeq
<1>3. topics' = Append(topics, v) /\ topicMap' = [topicMap EXCEPT ![n] = Len(topics) + 1]
  BY DEF Add
<1> HIDE DEF TopicRecord
<1>4. /\ topics' \in Seq(TopicRecord) /\ Len(topics') = Len(topics) + 1
      /\ \A u \in 1..Len(topics) : topics'[u] = topics[u]
      /\ topics'[Len(topics) + 1] = v
  BY <1>1, <1>3, AppendProperties
<1>5. TopicTypes'
  <2>1. topicMap' \in [Name -> Nat]  BY <1>1, <1>2, <1>3
  <2>2. \A m \in Name : topicMap'[m] # 0 =>
          topicMap'[m] \in 1..Len(topics') /\ topics'[topicMap'[m]].name = m
    BY <1>1, <1>2, <1>3, <1>4
  <2> QED  BY <1>4, <2>1, <2>2 DEF TopicTypes
<1>6. \A u \in 1..Len(topics') : topics'[u] \in TopicRecord
  BY <1>4, ElementOfSeq
<1> QED  BY <1>1, <1>2, <1>3, <1>4, <1>5, <1>6

LEMMA TopicFacts ==
    ASSUME TopicTypes
    PROVE  /\ Len(topics) \in Nat /\ DOMAIN topics = 1..Len(topics)
           /\ \A u \in 1..Len(topics) :
                 /\ topics[u] \in TopicRecord
                 /\ topics[u].name \in Name /\ topics[u].status \in [Key -> Status]
                 /\ topics[u].exiting \in BOOLEAN
           /\ topicMap \in [Name -> Nat]
           /\ \A n \in Name : topicMap[n] # 0 =>
                 topicMap[n] \in 1..Len(topics) /\ topics[topicMap[n]].name = n
<1>1. topics \in Seq(TopicRecord)  BY DEF TopicTypes
<1>2. /\ Len(topics) \in Nat /\ DOMAIN topics = 1..Len(topics)
      /\ \A u \in 1..Len(topics) : topics[u] \in TopicRecord
  BY <1>1, LenProperties, ElementOfSeq
<1>3. \A u \in 1..Len(topics) :
        /\ topics[u].name \in Name /\ topics[u].status \in [Key -> Status]
        /\ topics[u].exiting \in BOOLEAN
  BY <1>2 DEF TopicRecord
<1> QED  BY <1>2, <1>3 DEF TopicTypes

-----------------------------------------------------------------------------
(* Types.                                                                   *)

LEMMA CallFacts ==
    ASSUME OtherTypes, HandTypes, NEW a \in Actor
    PROVE  /\ at[a].pc \in PC /\ at[a].topic \in Nat /\ at[a].val \in {"run", "paused"}
           /\ at[a].name \in Name \cup {Nil} /\ at[a].key \in Key \cup {Nil}
           /\ job[a].on \in BOOLEAN /\ job[a].todo \subseteq Name /\ job[a].snap \in Entries
           /\ job[a] \in JobRecord
           /\ at[a].pc \notin {"idle", "close"} => at[a].name \in Name
           /\ at[a].pc \notin {"idle", "close", "create"} =>
                 at[a].topic \in 1..Len(topics) /\ topics[at[a].topic].name = at[a].name
           /\ at[a].pc \in {"getChannel", "delChannel"} => at[a].key \in Chan
           /\ at[a].pc \in {"pause", "persist", "persisting"} => at[a].key \in Key
           /\ at[a].pc \notin {"idle", "delTopic", "wait", "unmap", "close"} => a \in Req
<1>1. at[a] \in CallRecord /\ job[a] \in JobRecord
  BY DEF OtherTypes
<1> QED  BY <1>1 DEF HandTypes, CallRecord, JobRecord

LEMMA IdleFacts ==
    /\ Idle \in CallRecord /\ Idle.pc = "idle" /\ [Idle EXCEPT !.pc = "close"] \in CallRecord
    /\ [Idle EXCEPT !.pc = "close"].pc = "close"
    /\ NoJob \in JobRecord /\ ~NoJob.on /\ NoFile \in Entries /\ NoJob.snap = NoFile
BY DEF Idle, CallRecord, PC, NoJob, JobRecord, Entries, NoFile, Status

LEMMA NewJobFacts ==
    NewJob \in JobRecord /\ NewJob.on /\ NewJob.snap = NoFile
    /\ NewJob.todo = {n \in Name \ Ephemeral : topicMap[n] # 0}
BY IdleFacts DEF NewJob, JobRecord

LEMMA ListedFacts ==
    ASSUME TopicTypes, NEW t \in 1..Len(topics)
    PROVE  /\ Listed(topics[t]) \in [Key -> Status]
           /\ \A k \in Key : Listed(topics[t])[k] =
                IF k \in Ephemeral THEN "none" ELSE topics[t].status[k]
BY TopicFacts DEF Listed, Status

\* A step that leaves the topics alone, and changes one call.
LEMMA CallTypes ==
    ASSUME TopicTypes, OtherTypes, HandTypes, UNCHANGED <<topics, topicMap>>,
           NEW a \in Actor, NEW r \in CallRecord, at' = [at EXCEPT ![a] = r],
           r.pc \notin {"idle", "close"} => r.name \in Name,
           r.pc \notin {"idle", "close", "create"} =>
              r.topic \in 1..Len(topics) /\ topics[r.topic].name = r.name,
           r.pc \in {"getChannel", "delChannel"} => r.key \in Chan,
           r.pc \in {"pause", "persist", "persisting"} => r.key \in Key,
           r.pc \in {"delTopic", "wait", "unmap"} => a \in Req \cup {"deleter"},
           r.pc = "close" => a = "exit",
           r.pc \notin {"idle", "delTopic", "wait", "unmap", "close"} => a \in Req
    PROVE  TopicTypes' /\ HandTypes' /\ at' \in [Actor -> CallRecord]
<1>1. at \in [Actor -> CallRecord]  BY DEF OtherTypes
<1>2. at' \in [Actor -> CallRecord]  BY <1>1
<1>3. TopicTypes'  BY DEF TopicTypes
<1>4. \A b \in Actor : at'[b] = IF b = a THEN r ELSE at[b]  BY <1>1
<1>5. HandTypes'
  BY <1>4 DEF HandTypes
<1> QED  BY <1>2, <1>3, <1>5

\* A step that changes a topic, or adds one, and changes one call.
LEMMA CallTypesNext ==
    ASSUME OtherTypes, HandTypes, Len(topics) \in Nat, Len(topics') \in Nat,
           Len(topics) <= Len(topics'),
           \A u \in 1..Len(topics) : topics'[u].name = topics[u].name,
           NEW a \in Actor, NEW r \in CallRecord, at' = [at EXCEPT ![a] = r],
           r.pc \notin {"idle", "close"} => r.name \in Name,
           r.pc \notin {"idle", "close", "create"} =>
              r.topic \in 1..Len(topics') /\ topics'[r.topic].name = r.name,
           r.pc \in {"getChannel", "delChannel"} => r.key \in Chan,
           r.pc \in {"pause", "persist", "persisting"} => r.key \in Key,
           r.pc \in {"delTopic", "wait", "unmap"} => a \in Req \cup {"deleter"},
           r.pc = "close" => a = "exit",
           r.pc \notin {"idle", "delTopic", "wait", "unmap", "close"} => a \in Req
    PROVE  HandTypes' /\ at' \in [Actor -> CallRecord]
<1>1. at \in [Actor -> CallRecord]  BY DEF OtherTypes
<1>2. at' \in [Actor -> CallRecord]  BY <1>1
<1>4. \A b \in Actor : at'[b] = IF b = a THEN r ELSE at[b]  BY <1>1
<1>5. HandTypes'
  BY <1>4 DEF HandTypes
<1> QED  BY <1>2, <1>5

LEMMA GotoFacts ==
    ASSUME OtherTypes, NEW a \in Actor, NEW pc \in PC, Goto(a, pc)
    PROVE  \E r \in CallRecord :
              /\ at' = [at EXCEPT ![a] = r] /\ r.pc = pc /\ r.name = at[a].name
              /\ r.topic = at[a].topic /\ r.key = at[a].key /\ r.val = at[a].val
<1> DEFINE r == [at[a] EXCEPT !.pc = pc]
<1>1. at[a] \in CallRecord  BY DEF OtherTypes
<1>2. r \in CallRecord /\ r.pc = pc /\ r.name = at[a].name
      /\ r.topic = at[a].topic /\ r.key = at[a].key /\ r.val = at[a].val
  BY <1>1 DEF CallRecord
<1>3. at' = [at EXCEPT ![a] = r]  BY DEF Goto
<1> QED  BY <1>2, <1>3

LEMMA VisitTypes ==
    ASSUME Types, NEW a \in Actor, NEW n \in Name, Visit(a, n)
    PROVE  Types' /\ \E e \in [Key -> Status] :
              /\ topicMap[n] = 0 => e = job[a].snap[n]
              /\ topicMap[n] # 0 => e = Listed(topics[topicMap[n]])
              /\ job' = [job EXCEPT ![a] = [job[a] EXCEPT !.todo = @ \ {n},
                            !.snap = [@ EXCEPT ![n] = e]]]
<1> USE DEF Types
<1>1. job[a] \in JobRecord /\ job[a].snap \in Entries /\ job[a].todo \subseteq Name
  BY CallFacts
<1> DEFINE e == IF topicMap[n] = 0 THEN job[a].snap[n] ELSE Listed(topics[topicMap[n]])
<1>2. e \in [Key -> Status]
  BY <1>1, TopicFacts, ListedFacts DEF Entries
<1>3. job' = [job EXCEPT ![a] = [job[a] EXCEPT !.todo = @ \ {n}, !.snap = [@ EXCEPT ![n] = e]]]
  BY DEF Visit
<1> HIDE DEF e
<1>4. [job[a] EXCEPT !.todo = @ \ {n}, !.snap = [@ EXCEPT ![n] = e]] \in JobRecord
  BY <1>1, <1>2 DEF JobRecord, Entries
<1>5. UNCHANGED <<phase, topics, topicMap, todo, at, notify, lock, file, Ephemeral,
                  acked, setter, failed, doubled>>
  BY DEF Visit
<1>6. TopicTypes' /\ HandTypes'  BY <1>5 DEF TopicTypes, HandTypes
<1>7. job' \in [Actor -> JobRecord]  BY <1>3, <1>4 DEF OtherTypes
<1>8. OtherTypes'  BY <1>5, <1>7 DEF OtherTypes
<1>9. /\ topicMap[n] = 0 => e = job[a].snap[n]
      /\ topicMap[n] # 0 => e = Listed(topics[topicMap[n]])
  BY DEF e
<1> QED  BY <1>2, <1>3, <1>6, <1>8, <1>9

\* What a call of PersistMetadata does when it ends, whether it succeeds or not.
Ended(a) ==
    /\ job[a].on /\ job[a].todo = {}
    /\ job' = [job EXCEPT ![a] = NoJob]
    /\ UNCHANGED <<topics, topicMap, todo, notify, Ephemeral, setter, doubled>>

LEMMA EndedTypes ==
    ASSUME Types, LockInv, NEW a \in Actor, NEW ok \in BOOLEAN, Ended(a), After(a, ok),
           file' \in Entries, failed' \in BOOLEAN
    PROVE  /\ Types'
           /\ a \in Req => at[a].pc = "persisting" /\ at[a].name \in Name /\ at[a].key \in Key
<1> USE DEF Types
<1>1. a \in Req => at[a].pc = "persisting" /\ at[a].name \in Name /\ at[a].key \in Key
  BY CallFacts DEF Ended, LockInv
<1> DEFINE r == IF a = "exit" THEN [Idle EXCEPT !.pc = "close"] ELSE Idle
<1>2. r \in CallRecord /\ (r.pc = "idle" \/ (r.pc = "close" /\ a = "exit"))
  BY IdleFacts
<1>3. at' = [at EXCEPT ![a] = r]  BY DEF After
<1> HIDE DEF r
<1>4. TopicTypes' /\ HandTypes' /\ at' \in [Actor -> CallRecord]
  BY <1>2, <1>3, CallTypes DEF Ended
<1>5. job' \in [Actor -> JobRecord]  BY IdleFacts DEF Ended, OtherTypes
<1>6. acked' \in Entries
  <2>1. at[a].val \in Status  BY CallFacts DEF Status
  <2> QED  BY <1>1, <2>1 DEF After, OtherTypes, Entries
<1>7. lock' \in Actor \cup {Nil} /\ phase' \in {"down", "load", "up", "closing", "stopping"}
  BY DEF After, OtherTypes
<1>8. OtherTypes'
  BY <1>4, <1>5, <1>6, <1>7 DEF Ended, OtherTypes
<1> QED  BY <1>1, <1>4, <1>8

LEMMA RenameFacts ==
    ASSUME Types, LockInv, NEW a \in Actor, Rename(a)
    PROVE  Ended(a) /\ After(a, TRUE) /\ file' = job[a].snap /\ failed' = FALSE /\ Types'
<1>1. Ended(a) /\ After(a, TRUE) /\ file' = job[a].snap /\ failed' = FALSE
  BY DEF Rename, Ended
<1>2. file' \in Entries  BY <1>1, CallFacts DEF Types
<1> QED  BY <1>1, <1>2, EndedTypes

LEMMA PersistErrorFacts ==
    ASSUME Types, LockInv, NEW a \in Actor, PersistError(a)
    PROVE  Ended(a) /\ After(a, FALSE) /\ file' = file /\ failed' = TRUE /\ Types'
<1>1. Ended(a) /\ After(a, FALSE) /\ file' = file /\ failed' = TRUE
  BY DEF PersistError, Ended
<1>2. file' \in Entries  BY <1>1 DEF Types, OtherTypes
<1> QED  BY <1>1, <1>2, EndedTypes

\* NewJob for one actor: Main, PersistPaused, NotifyPersist and Exit.
LEMMA NewJobTypes ==
    ASSUME OtherTypes, NEW a \in Actor, job' = [job EXCEPT ![a] = NewJob]
    PROVE  job' \in [Actor -> JobRecord]
BY NewJobFacts DEF OtherTypes

LEMMA MainTypes ==
    ASSUME Types, Main
    PROVE  Types'
<1>1. job' \in [Actor -> JobRecord]  BY NewJobTypes, Constants DEF Main, Types
<1> QED  BY <1>1 DEF Main, Types, TopicTypes, OtherTypes, HandTypes

LEMMA NotifyPersistTypes ==
    ASSUME Types, NotifyPersist
    PROVE  Types'
<1>1. job' \in [Actor -> JobRecord]  BY NewJobTypes, Constants DEF NotifyPersist, Types
<1>2. notify' \in Nat  BY DEF NotifyPersist, Types, OtherTypes
<1> QED  BY <1>1, <1>2, Constants DEF NotifyPersist, Locked, Types, TopicTypes, OtherTypes, HandTypes

LEMMA NotifyExitTypes ==
    ASSUME Types, NotifyExit
    PROVE  Types'
<1>2. notify' \in Nat  BY DEF NotifyExit, Types, OtherTypes
<1> QED  BY <1>2 DEF NotifyExit, Types, TopicTypes, OtherTypes, HandTypes

LEMMA ExitTypes ==
    ASSUME Types, Exit
    PROVE  Types'
<1>1. job' \in [Actor -> JobRecord]  BY NewJobTypes, Constants DEF Exit, Types
<1> QED  BY <1>1, Constants DEF Exit, Locked, Types, TopicTypes, OtherTypes, HandTypes

LEMMA PersistPausedTypes ==
    ASSUME Types, NEW a \in Actor, PersistPaused(a)
    PROVE  Types'
<1> USE DEF Types
<1>1. job' \in [Actor -> JobRecord]  BY NewJobTypes DEF PersistPaused
<1>2. PICK r \in CallRecord :
        /\ at' = [at EXCEPT ![a] = r] /\ r.pc = "persisting" /\ r.name = at[a].name
        /\ r.topic = at[a].topic /\ r.key = at[a].key /\ r.val = at[a].val
  BY GotoFacts DEF PersistPaused, PC
<1>3. TopicTypes' /\ HandTypes' /\ at' \in [Actor -> CallRecord]
  BY <1>2, CallTypes, CallFacts DEF PersistPaused
<1> QED  BY <1>1, <1>3 DEF PersistPaused, Locked, OtherTypes

-----------------------------------------------------------------------------
(* The steps of a call that works on the topic object it has in hand:       *)
(* what they have in common.                                                *)

\* The status of k is as it was, or k is new.
Undisturbed(t, v, k) == v.status[k] = topics[t].status[k] \/ topics[t].status[k] = "none"

Works(a, v, r) ==
    /\ at[a].pc \in {"query", "getChannel", "delChannel", "pause", "delTopic", "wait"}
    /\ v \in TopicRecord /\ v.name = topics[at[a].topic].name /\ Edit(at[a].topic, v)
    /\ v.status[Self] # "none"
    /\ topics[at[a].topic].exiting => v.exiting
    /\ r \in CallRecord /\ at' = [at EXCEPT ![a] = r]
    /\ r.pc \in {"idle", "persist", "wait", "unmap"}
    /\ r.pc # "idle" => /\ r.name = at[a].name /\ r.topic = at[a].topic
                        /\ r.key = at[a].key /\ r.val = at[a].val
    /\ notify' \in Nat /\ notify' >= notify
    /\ v.status = topics[at[a].topic].status \/ notify' > notify \/ r.pc = "persist"
    /\ UNCHANGED <<phase, todo, job, lock, file, Ephemeral, failed, doubled>>

WorksHistory(a, v, r) ==
    /\ acked' \in Entries /\ setter' \in [Name -> [Key -> Req \cup {Nil}]]
    /\ \A n \in Name, k \in Key : acked'[n][k] = acked[n][k] \/ acked'[n][k] = "none"
    /\ \A n \in Name, k \in Key :
          \/ setter'[n][k] = setter[n][k] \/ setter'[n][k] = Nil
          \/ /\ setter'[n][k] = a /\ r.pc = "persist" /\ n = at[a].name /\ k = at[a].key
             /\ topicMap[n] = at[a].topic /\ ~topics[at[a].topic].exiting
    /\ r.pc = "persist" => /\ at[a].pc = "pause"
                           /\ v.status[at[a].key] = at[a].val
                           /\ setter'[at[a].name][at[a].key] = a =>
                                 topicMap[at[a].name] = at[a].topic
    /\ r.pc \in {"wait", "unmap"} => at[a].pc \in {"delTopic", "wait"}
    /\ ~doubled => /\ r.pc \in {"wait", "unmap"} =>
                        /\ v.exiting
                        /\ \A k \in Key : acked'[at[a].name][k] = "none" /\ setter'[at[a].name][k] = Nil
                   /\ \A k \in Key : \/ Undisturbed(at[a].topic, v, k)
                                     \/ /\ acked'[at[a].name][k] = "none"
                                        /\ setter'[at[a].name][k] \in {Nil, a}

\* The call, and the topic in its hand.
LEMMA InHand ==
    ASSUME Types, FileInv, NEW a \in Actor, at[a].pc \notin {"idle", "close", "create"}
    PROVE  /\ at[a].name \in Name /\ at[a].topic \in 1..Len(topics)
           /\ topics[at[a].topic] \in TopicRecord
           /\ topics[at[a].topic].name = at[a].name
           /\ topics[at[a].topic].status \in [Key -> Status]
           /\ topics[at[a].topic].status[Self] # "none"
           /\ topics[at[a].topic].exiting \in BOOLEAN
           /\ DOMAIN topics = 1..Len(topics) /\ Len(topics) \in Nat
           /\ notify \in Nat
           /\ acked \in Entries /\ setter \in [Name -> [Key -> Req \cup {Nil}]]
           /\ [topics EXCEPT ![at[a].topic] = topics[at[a].topic]] = topics
<1>1. at[a].name \in Name /\ at[a].topic \in 1..Len(topics) /\ topics[at[a].topic].name = at[a].name
  BY CallFacts DEF Types
<1>2. topics[at[a].topic].status[Self] # "none"  BY <1>1 DEF FileInv
<1>3. topics \in Seq(TopicRecord)  BY DEF Types, TopicTypes
<1>4. [topics EXCEPT ![at[a].topic] = topics[at[a].topic]] = topics
  <2> HIDE DEF TopicRecord
  <2> QED  BY <1>1, <1>3
<1> QED  BY <1>1, <1>2, <1>4, TopicFacts DEF Types, OtherTypes

LEMMA GetChannelWorks ==
    ASSUME Inv, NEW a \in Actor, GetChannel(a)
    PROVE  \E v, r : Works(a, v, r) /\ WorksHistory(a, v, r)
<1> DEFINE t == at[a].topic
           k0 == at[a].key
           new == topics[t].status[k0] = "none"
           v == IF new THEN [topics[t] EXCEPT !.status[k0] = "run"] ELSE topics[t]
<1>1. at[a].pc = "getChannel" /\ Types /\ FileInv /\ k0 \in Key /\ k0 # Self
  BY CallFacts, Constants DEF GetChannel, Inv, Types
<1>2. /\ at[a].name \in Name /\ t \in 1..Len(topics) /\ topics[t] \in TopicRecord
      /\ topics[t].name = at[a].name /\ topics[t].status \in [Key -> Status]
      /\ topics[t].status[Self] # "none" /\ DOMAIN topics = 1..Len(topics)
      /\ notify \in Nat /\ acked \in Entries /\ setter \in [Name -> [Key -> Req \cup {Nil}]]
  BY <1>1, InHand
<1>3. /\ v \in TopicRecord /\ v.name = topics[t].name /\ v.exiting = topics[t].exiting
      /\ \A k \in Key : v.status[k] = IF new /\ k = k0 THEN "run" ELSE topics[t].status[k]
      /\ v.status[Self] # "none"
  BY <1>1, <1>2, Constants DEF TopicRecord, Status
<1>4. Edit(t, v)
  <2>1. CASE new
    BY <2>1 DEF GetChannel, Edit
  <2>2. CASE ~new
    BY <1>1, <2>2, InHand DEF GetChannel, Edit
  <2> QED  BY <2>1, <2>2
<1>5. /\ notify' = notify + (IF new THEN 1 ELSE 0)
      /\ at' = [at EXCEPT ![a] = Idle]
      /\ UNCHANGED <<phase, todo, job, lock, file, Ephemeral, failed, doubled, acked, setter>>
  BY DEF GetChannel, Notify, Return
<1>6. v.status = topics[t].status \/ new
  BY <1>2
<1> HIDE DEF v, new
<1>7. Works(a, v, Idle)
  BY <1>1, <1>2, <1>3, <1>4, <1>5, <1>6, IdleFacts DEF Works
<1>8. \A k \in Key : Undisturbed(t, v, k)
  BY <1>2, <1>3 DEF Undisturbed, new
<1>9. WorksHistory(a, v, Idle)
  BY <1>2, <1>5, <1>8, IdleFacts DEF WorksHistory
<1> QED  BY <1>7, <1>9

LEMMA PreCreateWorks ==
    ASSUME Inv, NEW a \in Actor, PreCreate(a)
    PROVE  \E v, r : Works(a, v, r) /\ WorksHistory(a, v, r)
<1> DEFINE t == at[a].topic
<1>1. at[a].pc = "query" /\ Types /\ FileInv
  BY DEF PreCreate, Inv
<1>2. /\ at[a].name \in Name /\ t \in 1..Len(topics) /\ topics[t] \in TopicRecord
      /\ topics[t].name = at[a].name /\ topics[t].status \in [Key -> Status]
      /\ topics[t].status[Self] # "none" /\ DOMAIN topics = 1..Len(topics)
      /\ notify \in Nat /\ acked \in Entries /\ setter \in [Name -> [Key -> Req \cup {Nil}]]
  BY <1>1, InHand
<1>3. PICK new \in SUBSET (LookupChans \ Ephemeral) :
        LET made == {c \in new : topics[t].status[c] = "none"}
        IN /\ topics' = [topics EXCEPT ![t].started = Started(new),
                           ![t].status = [k \in Key |-> IF k \in made THEN "run" ELSE @[k]]]
           /\ Notify(Cardinality(made))
  BY DEF PreCreate
<1> DEFINE made == {c \in new : topics[t].status[c] = "none"}
           status == [k \in Key |-> IF k \in made THEN "run" ELSE topics[t].status[k]]
           v == [topics[t] EXCEPT !.started = TRUE, !.status = status]
<1>4. made \subseteq Chan  BY NSQDAssumption
<1>5. Cardinality(made) \in Nat /\ (made # {} => Cardinality(made) > 0)
  BY <1>4, Finite
<1>6. status \in [Key -> Status]  BY <1>2 DEF Status
<1>7. status[Self] # "none"  BY <1>2, Constants
<1>8. topics' = [topics EXCEPT ![t] = v]
  BY <1>2, <1>3 DEF Started, TopicRecord
<1>9. \A k \in Key : status[k] = topics[t].status[k] \/ topics[t].status[k] = "none"
  OBVIOUS
<1>10. status = topics[t].status \/ made # {}
  BY <1>2, <1>6
<1>11. notify' = notify + Cardinality(made)  BY <1>3 DEF Notify
<1> HIDE DEF made, status
<1>12. /\ v \in TopicRecord /\ v.name = topics[t].name /\ v.exiting = topics[t].exiting
       /\ v.status = status
  BY <1>2, <1>6 DEF TopicRecord
<1> HIDE DEF v
<1>13. /\ at' = [at EXCEPT ![a] = Idle]
       /\ UNCHANGED <<phase, topicMap, todo, job, lock, file, Ephemeral, failed, doubled, acked, setter>>
  BY DEF PreCreate, Return
<1>14. notify' \in Nat /\ notify' >= notify /\ (made # {} => notify' > notify)
  BY <1>2, <1>5, <1>11
<1>15. Works(a, v, Idle)
  BY <1>1, <1>2, <1>7, <1>8, <1>10, <1>12, <1>13, <1>14, IdleFacts DEF Works, Edit
<1>16. WorksHistory(a, v, Idle)
  BY <1>2, <1>9, <1>12, <1>13, IdleFacts DEF WorksHistory, Undisturbed
<1> QED  BY <1>15, <1>16

LEMMA ForgetFacts ==
    ASSUME NEW n \in Name, NEW ks \in SUBSET Key, Forget(n, ks),
           acked \in Entries, setter \in [Name -> [Key -> Req \cup {Nil}]]
    PROVE  /\ acked' \in Entries /\ setter' \in [Name -> [Key -> Req \cup {Nil}]]
           /\ \A m \in Name, k \in Key :
                 /\ acked'[m][k] = IF m = n /\ k \in ks THEN "none" ELSE acked[m][k]
                 /\ setter'[m][k] = IF m = n /\ k \in ks THEN Nil ELSE setter[m][k]
<1>1. \A m \in Name : acked[m] \in [Key -> Status] /\ setter[m] \in [Key -> Req \cup {Nil}]
  BY DEF Entries
<1> DEFINE e == [k \in Key |-> IF k \in ks THEN "none" ELSE acked[n][k]]
           f == [k \in Key |-> IF k \in ks THEN Nil ELSE setter[n][k]]
<1>2. e \in [Key -> Status] /\ f \in [Key -> Req \cup {Nil}]
  BY <1>1 DEF Status
<1>3. /\ \A k \in Key : e[k] = IF k \in ks THEN "none" ELSE acked[n][k]
      /\ \A k \in Key : f[k] = IF k \in ks THEN Nil ELSE setter[n][k]
  OBVIOUS
<1>4. acked' = [acked EXCEPT ![n] = e] /\ setter' = [setter EXCEPT ![n] = f]
  BY DEF Forget
<1> HIDE DEF e, f
<1>5. acked' \in Entries  BY <1>2, <1>4 DEF Entries
<1>6. setter' \in [Name -> [Key -> Req \cup {Nil}]]  BY <1>2, <1>4
<1>7. \A m \in Name : /\ acked'[m] = IF m = n THEN e ELSE acked[m]
                      /\ setter'[m] = IF m = n THEN f ELSE setter[m]
  BY <1>4 DEF Entries
<1> QED  BY <1>3, <1>5, <1>6, <1>7

LEMMA DeleteExistingChannelWorks ==
    ASSUME Inv, NEW a \in Actor, DeleteExistingChannel(a)
    PROVE  \E v, r : Works(a, v, r) /\ WorksHistory(a, v, r)
<1> DEFINE t == at[a].topic
           k0 == at[a].key
<1>1. at[a].pc = "delChannel" /\ Types /\ FileInv /\ k0 \in Key /\ k0 # Self
  BY CallFacts, Constants DEF DeleteExistingChannel, Inv, Types
<1>2. /\ at[a].name \in Name /\ t \in 1..Len(topics) /\ topics[t] \in TopicRecord
      /\ topics[t].name = at[a].name /\ topics[t].status \in [Key -> Status]
      /\ topics[t].status[Self] # "none" /\ DOMAIN topics = 1..Len(topics)
      /\ notify \in Nat /\ acked \in Entries /\ setter \in [Name -> [Key -> Req \cup {Nil}]]
      /\ [topics EXCEPT ![t] = topics[t]] = topics
  BY <1>1, InHand
<1>3. /\ at' = [at EXCEPT ![a] = Idle]
      /\ UNCHANGED <<phase, topicMap, todo, job, lock, file, Ephemeral, failed, doubled>>
  BY DEF DeleteExistingChannel, Return
<1>4. CASE topics[t].status[k0] = "none"
  <2>1. UNCHANGED <<topics, notify, acked, setter>>
    BY <1>4 DEF DeleteExistingChannel
  <2>2. Works(a, topics[t], Idle)
    BY <1>1, <1>2, <1>3, <2>1, IdleFacts DEF Works, Edit
  <2>3. WorksHistory(a, topics[t], Idle)
    BY <1>2, <1>3, <2>1, IdleFacts DEF WorksHistory, Undisturbed
  <2> QED  BY <2>2, <2>3
<1>5. CASE topics[t].status[k0] # "none"
  <2>1. PICK d \in {"no", "due", "done"} :
          topics' = [topics EXCEPT ![t] = [topics[t] EXCEPT !.status[k0] = "none", !.deleter = d]]
    <3> DEFINE left == {c \in Chan \ {k0} : topics[t].status[c] # "none"}
               last == left = {} /\ topics[t].name \in Ephemeral /\ topics[t].deleter = "no"
               d == IF last THEN "due" ELSE topics[t].deleter
    <3>1. topics' = [topics EXCEPT ![t].status[k0] = "none",
                                   ![t].deleter = IF last THEN "due" ELSE @]
      BY <1>5 DEF DeleteExistingChannel
    <3> HIDE DEF last
    <3>2. d \in {"no", "due", "done"}  BY <1>2 DEF TopicRecord
    <3>3. topics' = [topics EXCEPT ![t] = [topics[t] EXCEPT !.status[k0] = "none", !.deleter = d]]
      BY <1>2, <3>1 DEF TopicRecord
    <3> QED  BY <3>2, <3>3
  <2> DEFINE v == [topics[t] EXCEPT !.status[k0] = "none", !.deleter = d]
  <2>2. /\ v \in TopicRecord /\ v.name = topics[t].name /\ v.exiting = topics[t].exiting
        /\ \A k \in Key : v.status[k] = IF k = k0 THEN "none" ELSE topics[t].status[k]
    BY <1>2 DEF TopicRecord, Status
  <2>3. v.status[Self] # "none"
    BY <1>1, <1>2, <2>2, Constants
  <2> HIDE DEF v
  <2>4. /\ notify' = notify + 1 /\ Forget(at[a].name, {k0})
    BY <1>2, <1>5 DEF DeleteExistingChannel, Notify
  <2>5. Works(a, v, Idle)
    BY <1>1, <1>2, <1>3, <2>1, <2>2, <2>3, <2>4, IdleFacts DEF Works, Edit, v
  <2>6. /\ acked' \in Entries /\ setter' \in [Name -> [Key -> Req \cup {Nil}]]
        /\ \A m \in Name, k \in Key :
              /\ acked'[m][k] = IF m = at[a].name /\ k = k0 THEN "none" ELSE acked[m][k]
              /\ setter'[m][k] = IF m = at[a].name /\ k = k0 THEN Nil ELSE setter[m][k]
    BY <1>1, <1>2, <2>4, ForgetFacts
  <2>7. WorksHistory(a, v, Idle)
    BY <1>2, <2>2, <2>6, IdleFacts DEF WorksHistory, Undisturbed
  <2> QED  BY <2>5, <2>7
<1> QED  BY <1>4, <1>5

LEMMA SetPausedWorks ==
    ASSUME Inv, NEW a \in Actor, SetPaused(a)
    PROVE  \E v, r : Works(a, v, r) /\ WorksHistory(a, v, r)
<1> DEFINE t == at[a].topic
           k0 == at[a].key
           n0 == at[a].name
<1>1. /\ at[a].pc = "pause" /\ Types /\ FileInv /\ k0 \in Key /\ a \in Req
      /\ at[a].val \in {"run", "paused"}
  BY CallFacts, Constants DEF SetPaused, Inv, Types
<1>2. /\ n0 \in Name /\ t \in 1..Len(topics) /\ topics[t] \in TopicRecord
      /\ topics[t].name = n0 /\ topics[t].status \in [Key -> Status]
      /\ topics[t].status[Self] # "none" /\ DOMAIN topics = 1..Len(topics)
      /\ notify \in Nat /\ acked \in Entries /\ setter \in [Name -> [Key -> Req \cup {Nil}]]
      /\ [topics EXCEPT ![t] = topics[t]] = topics
  BY <1>1, InHand
<1>3. UNCHANGED <<phase, topicMap, todo, job, notify, lock, file, Ephemeral, failed, doubled>>
  BY DEF SetPaused
<1>4. CASE topics[t].status[k0] = "none"
  <2>1. UNCHANGED <<topics, acked, setter>> /\ at' = [at EXCEPT ![a] = Idle]
    BY <1>4 DEF SetPaused, Return
  <2>2. Works(a, topics[t], Idle)
    BY <1>1, <1>2, <1>3, <2>1, IdleFacts DEF Works, Edit
  <2>3. WorksHistory(a, topics[t], Idle)
    BY <1>2, <1>3, <2>1, IdleFacts DEF WorksHistory, Undisturbed
  <2> QED  BY <2>2, <2>3
<1>5. CASE topics[t].status[k0] # "none"
  <2> DEFINE v == [topics[t] EXCEPT !.status[k0] = at[a].val]
             who == IF topicMap[n0] = t /\ ~topics[t].exiting THEN a ELSE Nil
  <2>1. /\ v \in TopicRecord /\ v.name = topics[t].name /\ v.exiting = topics[t].exiting
        /\ \A k \in Key : v.status[k] = IF k = k0 THEN at[a].val ELSE topics[t].status[k]
    BY <1>1, <1>2 DEF TopicRecord, Status
  <2>2. v.status[Self] # "none"
    BY <1>1, <1>2, <2>1, Constants
  <2>3. topics' = [topics EXCEPT ![t] = v] /\ Goto(a, "persist")
    BY <1>5 DEF SetPaused
  <2> HIDE DEF v
  <2>4. acked' = [acked EXCEPT ![n0][k0] = "none"] /\ setter' = [setter EXCEPT ![n0][k0] = who]
    BY <1>5 DEF SetPaused
  <2>5. who \in Req \cup {Nil} /\ (who = a \/ who = Nil)
        /\ (who = a => topicMap[n0] = t /\ ~topics[t].exiting)
    BY <1>1, Constants
  <2> HIDE DEF who
  <2>6. /\ acked' \in Entries /\ setter' \in [Name -> [Key -> Req \cup {Nil}]]
        /\ \A m \in Name, k \in Key :
              /\ acked'[m][k] = IF m = n0 /\ k = k0 THEN "none" ELSE acked[m][k]
              /\ setter'[m][k] = IF m = n0 /\ k = k0 THEN who ELSE setter[m][k]
    BY <1>1, <1>2, <2>4, <2>5 DEF Entries, Status
  <2>7. PICK r \in CallRecord :
          /\ at' = [at EXCEPT ![a] = r] /\ r.pc = "persist" /\ r.name = at[a].name
          /\ r.topic = at[a].topic /\ r.key = at[a].key /\ r.val = at[a].val
    BY <1>1, <2>3, GotoFacts DEF PC, Types
  <2>8. Works(a, v, r)
    BY <1>1, <1>2, <1>3, <2>1, <2>2, <2>3, <2>7 DEF Works, Edit
  <2>9. WorksHistory(a, v, r)
    BY <1>1, <1>2, <2>1, <2>5, <2>6, <2>7 DEF WorksHistory, Undisturbed
  <2> QED  BY <2>8, <2>9
<1> QED  BY <1>4, <1>5

LEMMA DeleteTopicWorks ==
    ASSUME Inv, NEW a \in Actor, DeleteTopic(a)
    PROVE  \E v, r : Works(a, v, r) /\ WorksHistory(a, v, r)
<1> DEFINE t == at[a].topic
           n0 == at[a].name
           v == [topics[t] EXCEPT !.exiting = TRUE]
           pc == IF topics[t].exiting THEN "unmap" ELSE "wait"
<1>1. at[a].pc = "delTopic" /\ Types /\ FileInv
  BY DEF DeleteTopic, Inv
<1>2. /\ n0 \in Name /\ t \in 1..Len(topics) /\ topics[t] \in TopicRecord
      /\ topics[t].name = n0 /\ topics[t].status \in [Key -> Status]
      /\ topics[t].status[Self] # "none" /\ DOMAIN topics = 1..Len(topics)
      /\ notify \in Nat /\ acked \in Entries /\ setter \in [Name -> [Key -> Req \cup {Nil}]]
      /\ [topics EXCEPT ![t] = topics[t]] = topics /\ topics[t].exiting \in BOOLEAN
  BY <1>1, InHand
<1>3. /\ UNCHANGED <<phase, topicMap, todo, job, lock, file, Ephemeral, failed, doubled>>
      /\ Forget(n0, Key)
  BY DEF DeleteTopic
<1>4. /\ v \in TopicRecord /\ v.name = topics[t].name /\ v.status = topics[t].status /\ v.exiting
      /\ topics[t].exiting => v = topics[t]
  BY <1>2 DEF TopicRecord
<1>5. topics' = [topics EXCEPT ![t] = v]
  <2>1. CASE topics[t].exiting
    BY <1>2, <1>4, <2>1 DEF DeleteTopic
  <2>2. CASE ~topics[t].exiting
    BY <2>2 DEF DeleteTopic
  <2> QED  BY <2>1, <2>2
<1>6. Goto(a, pc) /\ notify' \in Nat /\ notify' >= notify
  BY <1>2 DEF DeleteTopic, Notify
<1>7. PICK r \in CallRecord :
        /\ at' = [at EXCEPT ![a] = r] /\ r.pc = pc /\ r.name = at[a].name
        /\ r.topic = at[a].topic /\ r.key = at[a].key /\ r.val = at[a].val
  BY <1>1, <1>6, GotoFacts DEF PC, Types
<1>8. /\ acked' \in Entries /\ setter' \in [Name -> [Key -> Req \cup {Nil}]]
      /\ \A m \in Name, k \in Key :
            /\ acked'[m][k] = IF m = n0 THEN "none" ELSE acked[m][k]
            /\ setter'[m][k] = IF m = n0 THEN Nil ELSE setter[m][k]
  BY <1>2, <1>3, ForgetFacts
<1> HIDE DEF v
<1>9. Works(a, v, r)
  BY <1>1, <1>2, <1>3, <1>4, <1>5, <1>6, <1>7 DEF Works, Edit
<1>10. WorksHistory(a, v, r)
  BY <1>1, <1>2, <1>4, <1>7, <1>8 DEF WorksHistory, Undisturbed
<1> QED  BY <1>9, <1>10

LEMMA DeleteChannelsWorks ==
    ASSUME Inv, NEW a \in Actor, DeleteChannels(a)
    PROVE  \E v, r : Works(a, v, r) /\ WorksHistory(a, v, r)
<1> DEFINE t == at[a].topic
           n0 == at[a].name
           cs == {c \in Chan : topics[t].status[c] # "none"}
           status == [k \in Key |-> IF k = Self THEN topics[t].status[k] ELSE "none"]
           v == [topics[t] EXCEPT !.status = status]
<1>1. at[a].pc = "wait" /\ Types /\ FileInv /\ MapInv /\ PauseInv
  BY DEF DeleteChannels, Inv
<1>2. /\ n0 \in Name /\ t \in 1..Len(topics) /\ topics[t] \in TopicRecord
      /\ topics[t].name = n0 /\ topics[t].status \in [Key -> Status]
      /\ topics[t].status[Self] # "none" /\ DOMAIN topics = 1..Len(topics)
      /\ notify \in Nat /\ acked \in Entries /\ setter \in [Name -> [Key -> Req \cup {Nil}]]
  BY <1>1, InHand
<1>3. UNCHANGED <<phase, topicMap, todo, job, lock, file, Ephemeral, failed, doubled, acked, setter>>
  BY DEF DeleteChannels
<1>4. status \in [Key -> Status] /\ status[Self] = topics[t].status[Self]
  BY <1>2, Constants DEF Status
<1>5. status = topics[t].status \/ cs # {}
  <2>1. CASE cs = {}
    <3>1. \A k \in Key : status[k] = topics[t].status[k]
      BY <2>1, Constants
    <3> QED  BY <1>2, <1>4, <3>1
  <2> QED  BY <2>1
<1>6. topics' = [topics EXCEPT ![t] = v] /\ Goto(a, "unmap") /\ notify' = notify + Cardinality(cs)
  BY <1>2 DEF DeleteChannels, Notify
<1>7. Cardinality(cs) \in Nat /\ (cs # {} => Cardinality(cs) > 0)
  <2>1. cs \subseteq Chan  OBVIOUS
  <2> HIDE DEF cs
  <2> QED  BY <2>1, Finite
<1> HIDE DEF cs, status
<1>8. notify' \in Nat /\ notify' >= notify /\ (cs # {} => notify' > notify)
  BY <1>2, <1>6, <1>7
<1>9. /\ v \in TopicRecord /\ v.name = topics[t].name /\ v.status = status
      /\ v.exiting = topics[t].exiting
  BY <1>2, <1>4 DEF TopicRecord
<1> HIDE DEF v
<1>10. PICK r \in CallRecord :
        /\ at' = [at EXCEPT ![a] = r] /\ r.pc = "unmap" /\ r.name = at[a].name
        /\ r.topic = at[a].topic /\ r.key = at[a].key /\ r.val = at[a].val
  BY <1>1, <1>6, GotoFacts DEF PC, Types
<1>11. Works(a, v, r)
  BY <1>1, <1>2, <1>3, <1>4, <1>5, <1>6, <1>8, <1>9, <1>10 DEF Works, Edit
<1>12. ~doubled => /\ \A k \in Key : acked[n0][k] = "none" /\ setter[n0][k] = Nil
                   /\ topics[t].exiting
  BY <1>1 DEF MapInv, PauseInv
<1>13. WorksHistory(a, v, r)
  BY <1>1, <1>2, <1>3, <1>9, <1>10, <1>12 DEF WorksHistory, Undisturbed
<1> QED  BY <1>11, <1>13

\* What a working step does to the state, point by point.
LEMMA WorksFacts ==
    ASSUME Inv, NEW a \in Actor, NEW v, NEW r, Works(a, v, r), WorksHistory(a, v, r)
    PROVE  /\ Types' /\ a \in Req \cup {"deleter"}
           /\ at[a].topic \in 1..Len(topics) /\ at[a].name \in Name
           /\ topics[at[a].topic].name = at[a].name
           /\ Len(topics) \in Nat /\ Len(topics') = Len(topics) /\ topicMap' = topicMap
           /\ topics'[at[a].topic] = v
           /\ \A u \in 1..Len(topics) : u # at[a].topic => topics'[u] = topics[u]
           /\ \A u \in 1..Len(topics) : topics'[u].name = topics[u].name
           /\ \A b \in Actor : at'[b] = IF b = a THEN r ELSE at[b]
<1>1. Types /\ FileInv /\ TopicTypes /\ OtherTypes /\ HandTypes  BY DEF Inv, Types
<1>2. /\ at[a].pc \in {"query", "getChannel", "delChannel", "pause", "delTopic", "wait"}
      /\ r \in CallRecord /\ at' = [at EXCEPT ![a] = r]
      /\ r.pc \in {"idle", "persist", "wait", "unmap"}
      /\ r.pc # "idle" => /\ r.name = at[a].name /\ r.topic = at[a].topic
                          /\ r.key = at[a].key /\ r.val = at[a].val
      /\ v \in TopicRecord /\ v.name = topics[at[a].topic].name /\ Edit(at[a].topic, v)
  BY DEF Works
<1>3. /\ at[a].name \in Name /\ at[a].topic \in 1..Len(topics)
      /\ topics[at[a].topic].name = at[a].name
  BY <1>1, <1>2, InHand
<1>4. /\ TopicTypes' /\ Len(topics) \in Nat /\ Len(topics') = Len(topics)
      /\ topicMap' = topicMap /\ topics'[at[a].topic] = v
      /\ \A u \in 1..Len(topics) : u # at[a].topic => topics'[u] = topics[u]
      /\ \A u \in 1..Len(topics) : topics'[u].name = topics[u].name
  BY <1>1, <1>2, <1>3, EditTopic
<1>5. /\ a \in Req \cup {"deleter"}
      /\ at[a].pc = "pause" => a \in Req /\ at[a].key \in Key
      /\ r.pc = "persist" => at[a].pc = "pause"
  BY <1>1, <1>2, CallFacts DEF HandTypes, WorksHistory
<1>6. HandTypes' /\ at' \in [Actor -> CallRecord]
  <2>1. /\ r.pc \notin {"idle", "close"} => r.name \in Name
        /\ r.pc \notin {"idle", "close", "create"} =>
              r.topic \in 1..Len(topics') /\ topics'[r.topic].name = r.name
        /\ r.pc \in {"pause", "persist", "persisting"} => r.key \in Key
        /\ r.pc \notin {"idle", "delTopic", "wait", "unmap", "close"} => a \in Req
    BY <1>2, <1>3, <1>4, <1>5
  <2>2. r.pc \notin {"getChannel", "delChannel", "close"} /\ Len(topics) <= Len(topics')
    BY <1>2, <1>4
  <2> HIDE DEF CallRecord
  <2> QED  BY <1>1, <1>2, <1>4, <1>5, <2>1, <2>2, CallTypesNext
<1>7. OtherTypes'
  BY <1>1, <1>6 DEF Works, WorksHistory, OtherTypes
<1>8. \A b \in Actor : at'[b] = IF b = a THEN r ELSE at[b]
  BY <1>1, <1>2 DEF OtherTypes
<1> QED  BY <1>3, <1>4, <1>5, <1>6, <1>7, <1>8 DEF Types

LEMMA WorksLock ==
    ASSUME Inv, NEW a \in Actor, NEW v, NEW r, Works(a, v, r), WorksHistory(a, v, r)
    PROVE  LockInv' /\ FileInv'
<1>1. /\ a \in Req \cup {"deleter"} /\ Len(topics') = Len(topics) /\ topicMap' = topicMap
      /\ topics'[at[a].topic] = v
      /\ \A u \in 1..Len(topics) : u # at[a].topic => topics'[u] = topics[u]
      /\ \A b \in Actor : at'[b] = IF b = a THEN r ELSE at[b]
  BY WorksFacts
<1>2. /\ at[a].pc \in {"query", "getChannel", "delChannel", "pause", "delTopic", "wait"}
      /\ r.pc \in {"idle", "persist", "wait", "unmap"} /\ v.status[Self] # "none"
      /\ UNCHANGED <<phase, todo, job, lock, file>>
  BY DEF Works
<1>3. LockInv'
  BY <1>1, <1>2, Constants DEF Inv, LockInv
<1>4. FileInv'
  BY <1>1, <1>2 DEF Inv, FileInv
<1> QED  BY <1>3, <1>4

LEMMA WorksMap ==
    ASSUME Inv, NEW a \in Actor, NEW v, NEW r, Works(a, v, r), WorksHistory(a, v, r)
    PROVE  MapInv'
<1>1. /\ Len(topics') = Len(topics) /\ topicMap' = topicMap
      /\ topics'[at[a].topic] = v
      /\ \A u \in 1..Len(topics) : u # at[a].topic => topics'[u] = topics[u]
      /\ \A u \in 1..Len(topics) : topics'[u].name = topics[u].name
      /\ \A b \in Actor : at'[b] = IF b = a THEN r ELSE at[b]
      /\ HandTypes /\ HandTypes'
  BY WorksFacts DEF Inv, Types
<1>2. /\ r.pc \in {"idle", "persist", "wait", "unmap"}
      /\ r.pc # "idle" => r.name = at[a].name /\ r.topic = at[a].topic
      /\ topics[at[a].topic].exiting => v.exiting
      /\ doubled' = doubled
  BY DEF Works
<1>3. /\ r.pc \in {"wait", "unmap"} => at[a].pc \in {"delTopic", "wait"}
      /\ ~doubled /\ r.pc \in {"wait", "unmap"} => v.exiting
  BY DEF WorksHistory
<1>4. SUFFICES ASSUME ~doubled  PROVE MapInv'
  BY <1>2 DEF MapInv
<1>5. /\ \A t \in 1..Len(topics) : ~topics[t].exiting => topicMap[topics[t].name] = t
      /\ \A b, c \in Actor, n \in Name : Deleting(b, n) /\ Deleting(c, n) => b = c
      /\ \A b \in Actor, n \in Name : Deleting(b, n) => topicMap[n] = at[b].topic
      /\ \A b \in Actor : at[b].pc \in {"wait", "unmap"} => topics[at[b].topic].exiting
  BY <1>4 DEF Inv, MapInv
<1>6. \A t \in 1..Len(topics') : ~topics'[t].exiting => topicMap'[topics'[t].name] = t
  BY <1>1, <1>2, <1>5
<1>7. \A b \in Actor, n \in Name : Deleting(b, n)' => Deleting(b, n) /\ at'[b].topic = at[b].topic
  BY <1>1, <1>2, <1>3 DEF Deleting
<1>8. \A b \in Actor : at'[b].pc \in {"wait", "unmap"} => topics'[at'[b].topic].exiting
  BY <1>1, <1>2, <1>3, <1>4, <1>5 DEF HandTypes
<1> QED  BY <1>1, <1>5, <1>6, <1>7, <1>8 DEF MapInv

LEMMA WorksPause ==
    ASSUME Inv, NEW a \in Actor, NEW v, NEW r, Works(a, v, r), WorksHistory(a, v, r)
    PROVE  PauseInv'
<1>1. /\ Len(topics') = Len(topics) /\ topicMap' = topicMap
      /\ at[a].topic \in 1..Len(topics) /\ at[a].name \in Name
      /\ topics[at[a].topic].name = at[a].name
      /\ topics'[at[a].topic] = v
      /\ \A u \in 1..Len(topics) : u # at[a].topic => topics'[u] = topics[u]
      /\ \A b \in Actor : at'[b] = IF b = a THEN r ELSE at[b]
      /\ TopicTypes /\ OtherTypes /\ HandTypes /\ HandTypes'
  BY WorksFacts DEF Inv, Types
<1>2. /\ r.pc \in {"idle", "persist", "wait", "unmap"}
      /\ at[a].pc \in {"query", "getChannel", "delChannel", "pause", "delTopic", "wait"}
      /\ r.pc # "idle" => /\ r.name = at[a].name /\ r.topic = at[a].topic
                          /\ r.key = at[a].key /\ r.val = at[a].val
      /\ UNCHANGED <<phase, todo, job, lock, file, Ephemeral, doubled>>
  BY DEF Works
<1>3. SUFFICES ASSUME ~doubled  PROVE PauseInv'
  BY <1>2 DEF PauseInv
<1>4. /\ \A n \in Name, k \in Key : acked'[n][k] = acked[n][k] \/ acked'[n][k] = "none"
      /\ \A n \in Name, k \in Key :
            \/ setter'[n][k] = setter[n][k] \/ setter'[n][k] = Nil
            \/ /\ setter'[n][k] = a /\ r.pc = "persist" /\ n = at[a].name /\ k = at[a].key
               /\ topicMap[n] = at[a].topic /\ ~topics[at[a].topic].exiting
      /\ r.pc = "persist" => /\ at[a].pc = "pause"
                             /\ v.status[at[a].key] = at[a].val
                             /\ setter'[at[a].name][at[a].key] = a =>
                                   topicMap[at[a].name] = at[a].topic
      /\ r.pc \in {"wait", "unmap"} =>
            \A k \in Key : acked'[at[a].name][k] = "none" /\ setter'[at[a].name][k] = Nil
      /\ \A k \in Key : \/ Undisturbed(at[a].topic, v, k)
                        \/ /\ acked'[at[a].name][k] = "none"
                           /\ setter'[at[a].name][k] \in {Nil, a}
  BY <1>3 DEF WorksHistory
<1>5. \A n \in Name : topicMap[n] # 0 =>
        topicMap[n] \in 1..Len(topics) /\ topics[topicMap[n]].name = n
  BY <1>1 DEF TopicTypes
\* What is in topicMap keeps an answered status.
<1>6. ASSUME NEW n \in Name, NEW k \in Key, NEW s \in {"run", "paused"}, Current(n, k, s),
             acked'[n][k] # "none" \/ (setter'[n][k] # Nil /\ setter'[n][k] # a)
      PROVE  Current(n, k, s)'
  <2>1. topicMap[n] # 0 /\ topics[topicMap[n]].status[k] = s
    BY <1>6 DEF Current
  <2>2. CASE topicMap[n] = at[a].topic
    <3>1. n = at[a].name  BY <1>1, <1>5, <2>1, <2>2
    <3>2. Undisturbed(at[a].topic, v, k)  BY <1>4, <1>6, <3>1
    <3> QED  BY <1>1, <2>1, <2>2, <3>2 DEF Undisturbed, Current
  <2>3. CASE topicMap[n] # at[a].topic
    BY <1>1, <1>5, <2>1, <2>3 DEF Current
  <2> QED  BY <2>2, <2>3
<1>7. ASSUME NEW n \in Name \ Ephemeral, NEW k \in Key \ Ephemeral, acked'[n][k] # "none"
      PROVE  /\ file[n][k] = acked'[n][k]
             /\ phase # "down" => n \in todo \/ Current(n, k, acked[n][k])'
             /\ \A b \in Actor : job[b].on /\ n \notin job[b].todo =>
                   job[b].snap[n][k] = acked'[n][k]
  <2>1. acked'[n][k] = acked[n][k]  BY <1>4, <1>7
  <2>2. /\ file[n][k] = acked[n][k]
        /\ phase # "down" => n \in todo \/ Current(n, k, acked[n][k])
        /\ \A b \in Actor : job[b].on /\ n \notin job[b].todo => job[b].snap[n][k] = acked[n][k]
    BY <1>3, <1>7, <2>1 DEF Inv, PauseInv
  <2>3. acked[n][k] \in {"run", "paused"}
    BY <1>1, <1>7, <2>1 DEF OtherTypes, Entries, Status
  <2>4. ASSUME NEW s, s = acked[n][k], Current(n, k, s)  PROVE Current(n, k, s)'
    BY <1>6, <1>7, <2>3, <2>4
  <2>5. ASSUME Current(n, k, acked[n][k])  PROVE Current(n, k, acked[n][k])'
    <3>1. PICK s : s = acked[n][k]  OBVIOUS
    <3>2. Current(n, k, s)'  BY <2>4, <2>5, <3>1
    <3> QED  BY <2>1, <3>1, <3>2 DEF Current
  <2> QED  BY <2>1, <2>2, <2>5
<1>8. ASSUME NEW b \in Actor, at'[b].pc \in {"wait", "unmap"}, NEW k \in Key
      PROVE  acked'[at'[b].name][k] = "none" /\ setter'[at'[b].name][k] = Nil
  <2>1. CASE b = a
    BY <1>1, <1>2, <1>4, <1>8, <2>1
  <2>2. CASE b # a
    <3>1. at'[b] = at[b] /\ at[b].name \in Name  BY <1>1, <1>8, <2>2 DEF HandTypes
    <3>2. acked[at[b].name][k] = "none" /\ setter[at[b].name][k] = Nil
      BY <1>3, <1>8, <3>1 DEF Inv, PauseInv
    <3>3. topicMap[at[b].name] = at[b].topic /\ topics[at[b].topic].exiting
      BY <1>3, <1>8, <3>1 DEF Inv, MapInv, Deleting
    <3> QED  BY <1>4, <3>1, <3>2, <3>3
  <2> QED  BY <2>1, <2>2
<1>9. ASSUME NEW b \in Req, NEW n \in Name \ Ephemeral, NEW k \in Key \ Ephemeral,
             at'[b].pc \in {"persist", "persisting"}, at'[b].name = n, at'[b].key = k,
             setter'[n][k] = b
      PROVE  /\ Current(n, k, at[b].val)'
             /\ job[b].on /\ n \notin job[b].todo => job[b].snap[n][k] = at'[b].val
  <2>1. CASE b = a
    <3>1. /\ r.pc = "persist" /\ topicMap[n] = at[a].topic /\ v.status[k] = at[a].val
          /\ at'[b].val = at[a].val
      BY <1>1, <1>2, <1>4, <1>9, <2>1, Constants
    <3>2. ~job[b].on
      BY <1>2, <1>9, <2>1, Constants DEF Inv, LockInv
    <3> QED  BY <1>1, <3>1, <3>2 DEF Current
  <2>2. CASE b # a
    <3>1. at'[b] = at[b] /\ b \in Actor  BY <1>1, <2>2, Constants
    <3>2. setter[n][k] = b  BY <1>4, <1>9, <2>2, Constants
    <3>3. /\ Current(n, k, at[b].val)
          /\ job[b].on /\ n \notin job[b].todo => job[b].snap[n][k] = at[b].val
      BY <1>3, <1>9, <3>1, <3>2 DEF Inv, PauseInv
    <3>4. at[b].val \in {"run", "paused"} /\ b # Nil  BY <1>1, <3>1, CallFacts, Constants
    <3>5. PICK s : s = at[b].val  OBVIOUS
    <3>6. Current(n, k, s)'  BY <1>6, <1>9, <2>2, <3>3, <3>4, <3>5
    <3> QED  BY <3>1, <3>3, <3>5, <3>6 DEF Current
  <2> QED  BY <2>1, <2>2
<1> QED  BY <1>2, <1>7, <1>8, <1>9 DEF PauseInv

LEMMA WorksMeta ==
    ASSUME Inv, NEW a \in Actor, NEW v, NEW r, Works(a, v, r), WorksHistory(a, v, r)
    PROVE  MetaInv'
<1>1. /\ Len(topics') = Len(topics) /\ topicMap' = topicMap
      /\ at[a].topic \in 1..Len(topics) /\ topics'[at[a].topic] = v
      /\ \A u \in 1..Len(topics) : u # at[a].topic => topics'[u] = topics[u]
      /\ \A b \in Actor : at'[b] = IF b = a THEN r ELSE at[b]
      /\ TopicTypes /\ OtherTypes /\ HandTypes
  BY WorksFacts DEF Inv, Types
<1>2. /\ notify' \in Nat /\ notify' >= notify
      /\ v.status = topics[at[a].topic].status \/ notify' > notify \/ r.pc = "persist"
      /\ UNCHANGED <<phase, todo, job, lock, file, Ephemeral, failed>>
  BY DEF Works
<1>3. SUFFICES ASSUME ~Pending'  PROVE MetaInv'
  BY DEF MetaInv
<1>4. at[a].pc # "persist" /\ (r.pc = "persist" => at[a].pc = "pause")
  BY DEF Works, WorksHistory
<1>5. r.pc = "persist" => a \in Req
  BY <1>1, <1>4 DEF HandTypes
<1>6. ~Pending /\ r.pc # "persist" /\ notify' = 0 /\ notify = 0
  BY <1>1, <1>2, <1>3, <1>4, <1>5, Constants DEF Pending, OtherTypes
<1>7. v.status = topics[at[a].topic].status
  BY <1>2, <1>6
<1>8. \A u \in 1..Len(topics) : topics'[u].status = topics[u].status
  BY <1>1, <1>7
<1>9. \A n \in Name : topicMap[n] # 0 =>
        Listed(topics[topicMap[n]])' = Listed(topics[topicMap[n]])
  BY <1>1, <1>2, <1>8 DEF Listed, TopicTypes
<1> QED  BY <1>1, <1>2, <1>6, <1>9 DEF Inv, MetaInv

LEMMA WorksInv ==
    ASSUME Inv, NEW a \in Actor, \E v, r : Works(a, v, r) /\ WorksHistory(a, v, r)
    PROVE  Inv'
<1>1. PICK v, r : Works(a, v, r) /\ WorksHistory(a, v, r)  OBVIOUS
<1> QED  BY <1>1, WorksFacts, WorksLock, WorksMap, WorksPause, WorksMeta DEF Inv

-----------------------------------------------------------------------------
(* A call begins (a request, or the deleter of an ephemeral topic), or      *)
(* GetTopic finds that another has made the topic.                          *)

Alike(t) ==
    /\ topics'[t].name = topics[t].name /\ topics'[t].status = topics[t].status
    /\ topics'[t].exiting = topics[t].exiting

Asked(a, r) ==
    /\ a \in Req \cup {"deleter"}
    /\ phase \notin {"load", "down"} /\ at[a].pc \in {"idle", "create"}
    /\ r \in CallRecord /\ at' = [at EXCEPT ![a] = r]
    /\ r.pc \in {"idle", "create", "getChannel", "delChannel", "pause", "delTopic"}
    /\ r.pc \notin {"idle", "delTopic"} => a \in Req
    /\ r.pc # "idle" => r.name \in Name
    /\ r.pc \notin {"idle", "create"} => topicMap[r.name] # 0 /\ r.topic = topicMap[r.name]
    /\ r.pc \in {"getChannel", "delChannel"} => r.key \in Chan
    /\ r.pc = "pause" => r.key \in Key
    /\ doubled' \in BOOLEAN
    /\ ~doubled' => ~doubled /\ (r.pc = "delTopic" => \A b \in Actor : ~Deleting(b, r.name))
    /\ TopicTypes' /\ Len(topics') = Len(topics)
    /\ \A t \in 1..Len(topics) : Alike(t)
    /\ UNCHANGED <<phase, topicMap, todo, job, notify, lock, file, Ephemeral,
                   acked, setter, failed>>

LEMMA FindAsks ==
    ASSUME Inv, NEW a \in Req, NEW n \in Name, NEW k \in Key, NEW val \in {"run", "paused"},
           NEW pc \in {"getChannel", "delChannel", "pause", "delTopic"}, Find(a, n, pc, k, val),
           pc \in {"getChannel", "delChannel"} => k \in Chan,
           doubled' \in BOOLEAN,
           ~doubled' => ~doubled /\ (pc = "delTopic" => \A b \in Actor : ~Deleting(b, n)),
           UNCHANGED <<acked, setter, failed>>
    PROVE  \E r : Asked(a, r)
<1> DEFINE r == [pc |-> pc, name |-> n, topic |-> topicMap[n], key |-> k, val |-> val]
<1>1. topicMap[n] \in Nat  BY TopicFacts DEF Inv, Types
<1>2. /\ r \in CallRecord /\ r.pc = pc /\ r.name = n /\ r.topic = topicMap[n] /\ r.key = k
  BY <1>1 DEF CallRecord, PC
<1>3. /\ at' = [at EXCEPT ![a] = r] /\ topicMap[n] # 0
      /\ phase \notin {"load", "down"} /\ at[a].pc = "idle"
      /\ UNCHANGED <<phase, topics, topicMap, todo, job, notify, lock, file, Ephemeral>>
  BY DEF Find, Begin, GetExistingTopic, Serving
<1> HIDE DEF r
<1>4. TopicTypes' /\ \A t \in 1..Len(topics) : Alike(t)
  BY <1>3 DEF Inv, Types, TopicTypes, Alike
<1>5. Asked(a, r)  BY <1>2, <1>3, <1>4 DEF Asked
<1> QED  BY <1>5

LEMMA RequestAsks ==
    ASSUME Inv, NEW a \in Req, Request(a)
    PROVE  \E r : Asked(a, r)
<1>0. doubled \in BOOLEAN  BY DEF Inv, Types, OtherTypes
<1>1. ASSUME NEW n \in Name, GetTopic(a, n)  PROVE \E r : Asked(a, r)
  <2> DEFINE r == [Idle EXCEPT !.pc = "create", !.name = n]
  <2>1. r \in CallRecord /\ r.pc = "create" /\ r.name = n
    BY DEF Idle, CallRecord, PC
  <2>2. /\ at' = [at EXCEPT ![a] = r]
        /\ phase \notin {"load", "down"} /\ at[a].pc = "idle"
        /\ UNCHANGED <<phase, topics, topicMap, todo, job, notify, lock, file, Ephemeral,
                       acked, setter, failed, doubled>>
    BY <1>1 DEF GetTopic, Begin, Serving
  <2> HIDE DEF r
  <2>3. TopicTypes' /\ \A t \in 1..Len(topics) : Alike(t)
    BY <2>2 DEF Inv, Types, TopicTypes, Alike
  <2>4. Asked(a, r)  BY <1>0, <2>1, <2>2, <2>3 DEF Asked
  <2> QED  BY <2>4
<1>2. ASSUME NEW n \in Name, doDeleteTopic(a, n)  PROVE \E r : Asked(a, r)
  <2>1. /\ Find(a, n, "delTopic", Self, "run") /\ UNCHANGED <<acked, setter, failed>>
        /\ doubled' \in BOOLEAN
        /\ ~doubled' => ~doubled /\ \A b \in Actor : ~Deleting(b, n)
    BY <1>0, <1>2, Zenon DEF doDeleteTopic
  <2> QED  BY <2>1, FindAsks, Constants
<1>3. ASSUME NEW n \in Name, NEW c \in Chan, doCreateChannel(a, n, c)  PROVE \E r : Asked(a, r)
  BY <1>0, <1>3, FindAsks, Constants DEF doCreateChannel
<1>4. ASSUME NEW n \in Name, NEW c \in Chan, doDeleteChannel(a, n, c)  PROVE \E r : Asked(a, r)
  BY <1>0, <1>4, FindAsks, Constants DEF doDeleteChannel
<1>5. ASSUME NEW n \in Name, NEW k \in Key, NEW v \in {"run", "paused"}, doPause(a, n, k, v)
      PROVE  \E r : Asked(a, r)
  BY <1>0, <1>5, FindAsks DEF doPause
<1> QED  BY <1>1, <1>2, <1>3, <1>4, <1>5 DEF Request

\* The deleter of an ephemeral topic marks it, whether or not it finds it in the map.
LEMMA DeleteCallbackAsks ==
    ASSUME Inv, NEW t \in DOMAIN topics, DeleteCallback(t)
    PROVE  \E r : Asked("deleter", r)
<1> DEFINE n == topics[t].name
           v == [topics[t] EXCEPT !.deleter = "done"]
           r == IF topicMap[n] = 0 THEN at["deleter"]
                ELSE [pc |-> "delTopic", name |-> n, topic |-> topicMap[n],
                      key |-> Self, val |-> "run"]
<1>1. TopicTypes /\ OtherTypes /\ doubled \in BOOLEAN  BY DEF Inv, Types, OtherTypes
<1>2. /\ t \in 1..Len(topics) /\ topics[t] \in TopicRecord /\ n \in Name /\ topicMap[n] \in Nat
  BY <1>1, TopicFacts
<1>3. /\ v \in TopicRecord /\ v.name = topics[t].name /\ v.status = topics[t].status
      /\ v.exiting = topics[t].exiting
  BY <1>2 DEF TopicRecord
<1>4. Edit(t, v)  BY DEF DeleteCallback, Edit
<1> HIDE DEF v
<1>5. /\ TopicTypes' /\ Len(topics') = Len(topics) /\ \A u \in 1..Len(topics) : Alike(u)
  BY <1>1, <1>2, <1>3, <1>4, EditTopic DEF Alike
<1>6. /\ at["deleter"] \in CallRecord /\ at["deleter"].pc = "idle"
      /\ [at EXCEPT !["deleter"] = at["deleter"]] = at
  BY <1>1, Constants DEF OtherTypes, DeleteCallback
<1>7. at' = [at EXCEPT !["deleter"] = r]
  BY <1>6 DEF DeleteCallback
<1>8. /\ r \in CallRecord /\ r.pc \in {"idle", "delTopic"}
      /\ r.pc = "delTopic" => r.name = n /\ topicMap[n] # 0 /\ r.topic = topicMap[n]
  <2>1. CASE topicMap[n] = 0
    BY <1>6, <2>1
  <2>2. CASE topicMap[n] # 0
    BY <1>2, <2>2, Constants DEF CallRecord, PC
  <2> QED  BY <2>1, <2>2
<1>9. /\ doubled' \in BOOLEAN
      /\ ~doubled' => ~doubled /\ \A b \in Actor : ~Deleting(b, n)
  BY <1>1, Zenon DEF DeleteCallback
<1>10. /\ UNCHANGED <<phase, topicMap, todo, job, notify, lock, file, Ephemeral,
                      acked, setter, failed>>
       /\ phase \notin {"load", "down"}
  BY DEF DeleteCallback, Serving
<1> HIDE DEF r, n
<1>11. Asked("deleter", r)
  BY <1>2, <1>5, <1>6, <1>7, <1>8, <1>9, <1>10 DEF Asked
<1> QED  BY <1>11

LEMMA AskedInv ==
    ASSUME Inv, NEW a, NEW r, Asked(a, r)
    PROVE  Inv'
<1>1. /\ a \in Actor /\ a \in Req \cup {"deleter"}
      /\ phase \notin {"load", "down"} /\ at[a].pc \in {"idle", "create"}
      /\ r \in CallRecord /\ at' = [at EXCEPT ![a] = r]
      /\ r.pc \in {"idle", "create", "getChannel", "delChannel", "pause", "delTopic"}
      /\ r.pc \notin {"idle", "delTopic"} => a \in Req
      /\ r.pc # "idle" => r.name \in Name
      /\ r.pc \notin {"idle", "create"} => topicMap[r.name] # 0 /\ r.topic = topicMap[r.name]
      /\ r.pc \in {"getChannel", "delChannel"} => r.key \in Chan
      /\ r.pc = "pause" => r.key \in Key
      /\ ~doubled' => ~doubled /\ (r.pc = "delTopic" => \A b \in Actor : ~Deleting(b, r.name))
      /\ UNCHANGED <<phase, topicMap, todo, job, notify, lock, file, Ephemeral,
                     acked, setter, failed>>
  BY Constants DEF Asked
<1>2. TopicTypes /\ OtherTypes /\ HandTypes /\ LockInv  BY DEF Inv, Types
<1>3. /\ TopicTypes' /\ Len(topics') = Len(topics) /\ Len(topics) \in Nat
      /\ \A t \in 1..Len(topics) :
            /\ topics'[t].name = topics[t].name /\ topics'[t].status = topics[t].status
            /\ topics'[t].exiting = topics[t].exiting
  BY <1>2, TopicFacts DEF Asked, Alike
<1>4. HandTypes' /\ at' \in [Actor -> CallRecord]
  <2>1. /\ r.pc \notin {"idle", "close", "create"} =>
             r.topic \in 1..Len(topics') /\ topics'[r.topic].name = r.name
        /\ r.pc \notin {"close", "wait", "unmap", "persist", "persisting"}
        /\ Len(topics) <= Len(topics')
    BY <1>1, <1>2, <1>3 DEF TopicTypes
  <2> HIDE DEF CallRecord
  <2> QED  BY <1>1, <1>2, <1>3, <2>1, CallTypesNext
<1>5. Types'
  BY <1>1, <1>2, <1>3, <1>4 DEF Asked, Types, OtherTypes
<1>6. \A b \in Actor : at'[b] = IF b = a THEN r ELSE at[b]
  BY <1>1, <1>2 DEF OtherTypes
<1>7. LockInv'
  BY <1>1, <1>2, <1>6, Constants DEF LockInv
<1>8. FileInv'
  BY <1>1, <1>3 DEF Inv, FileInv
<1>9. MapInv'
  <2>1. SUFFICES ASSUME ~doubled'  PROVE MapInv'
    BY DEF MapInv
  <2>2. MapInv /\ ~doubled  BY <1>1, <2>1 DEF Inv
  <2>3. \A b \in Actor, n \in Name : b # a => (Deleting(b, n)' <=> Deleting(b, n))
    BY <1>6 DEF Deleting
  <2>4. \A n \in Name : Deleting(a, n)' =>
          n = r.name /\ r.topic = topicMap[n] /\ \A b \in Actor : ~Deleting(b, n)
    BY <1>1, <1>6, <2>1 DEF Deleting
  <2>5. \A b, c \in Actor, n \in Name : Deleting(b, n)' /\ Deleting(c, n)' => b = c
    BY <2>2, <2>3, <2>4 DEF MapInv
  <2>6. \A b \in Actor, n \in Name : Deleting(b, n)' => topicMap[n] = at'[b].topic
    BY <1>1, <1>6, <2>2, <2>3, <2>4 DEF MapInv
  <2>7. \A b \in Actor : at'[b].pc \in {"wait", "unmap"} => topics'[at'[b].topic].exiting
    BY <1>1, <1>2, <1>3, <1>6, <2>2 DEF MapInv, HandTypes
  <2>8. \A t \in 1..Len(topics') : ~topics'[t].exiting => topicMap[topics'[t].name] = t
    BY <1>3, <2>2 DEF MapInv
  <2> QED  BY <1>1, <2>5, <2>6, <2>7, <2>8 DEF MapInv
<1>10. PauseInv'
  <2>1. SUFFICES ASSUME ~doubled'  PROVE PauseInv'
    BY DEF PauseInv
  <2>2. PauseInv /\ ~doubled  BY <1>1, <2>1 DEF Inv
  <2>3. \A n \in Name, k \in Key : \A s : Current(n, k, s)' <=> Current(n, k, s)
    BY <1>1, <1>2, <1>3 DEF Current, TopicTypes
  <2>4. /\ \A n \in Name, k \in Key : Current(n, k, acked[n][k])' <=> Current(n, k, acked[n][k])
        /\ \A b \in Actor \ {a}, n \in Name, k \in Key :
              Current(n, k, at[b].val)' <=> Current(n, k, at[b].val)
    BY <1>1, <1>6, <2>3 DEF Current
  <2> QED  BY <1>1, <1>6, <2>2, <2>4, Constants DEF PauseInv
<1>11. MetaInv'
  <2>1. Pending' <=> Pending
    BY <1>1, <1>6, Constants DEF Pending
  <2>2. \A n \in Name : topicMap[n] # 0 =>
          Listed(topics[topicMap[n]])' = Listed(topics[topicMap[n]])
    BY <1>1, <1>2, <1>3 DEF Listed, TopicTypes
  <2> QED  BY <1>1, <2>1, <2>2 DEF Inv, MetaInv
<1> QED  BY <1>5, <1>7, <1>8, <1>9, <1>10, <1>11 DEF Inv

-----------------------------------------------------------------------------
(* Topics come and go.                                                      *)

LEMMA NewTopicFacts ==
    ASSUME NEW n \in Name, NEW status \in [Key -> Status], NEW started \in BOOLEAN
    PROVE  /\ NewTopic(n, status, started) \in TopicRecord
           /\ NewTopic(n, status, started).name = n
           /\ NewTopic(n, status, started).status = status
           /\ ~NewTopic(n, status, started).exiting
BY DEF NewTopic, TopicRecord

LEMMA CreateTopicInv ==
    ASSUME Inv, NEW a \in Actor, CreateTopic(a)
    PROVE  Inv'
<1>1. TopicTypes /\ OtherTypes /\ HandTypes /\ LockInv /\ FileInv  BY DEF Inv, Types
<1>2. /\ at[a].pc = "create" /\ a \in Req /\ at[a].name \in Name
      /\ phase \notin {"load", "down"} /\ todo = {}
      /\ UNCHANGED <<phase, todo, job, lock, file, Ephemeral, acked, setter, failed, doubled>>
  BY <1>1, CallFacts DEF CreateTopic, LockInv, FileInv
<1>3. CASE ~MustCreate(at[a].name)
  <2>1. at' = [at EXCEPT ![a] = Idle] /\ UNCHANGED <<topics, topicMap, notify>>
    BY <1>3 DEF CreateTopic, Return
  <2>2. TopicTypes' /\ \A t \in 1..Len(topics) : Alike(t)
    BY <1>1, <2>1 DEF TopicTypes, Alike
  <2>3. Asked(a, Idle)
    BY <1>1, <1>2, <2>1, <2>2, IdleFacts DEF Asked, OtherTypes
  <2> QED  BY <2>3, AskedInv
<1>4. CASE MustCreate(at[a].name)
  <2> DEFINE n == at[a].name
             status == [k \in Key |-> IF k = Self THEN "run" ELSE "none"]
             v == NewTopic(n, status, FALSE)
             r == [at[a] EXCEPT !.pc = "query", !.topic = Len(topics) + 1]
  <2>1. status \in [Key -> Status] /\ status[Self] = "run"  BY Constants DEF Status
  <2>2. /\ Add(n, v) /\ topicMap[n] = 0 /\ notify' = notify + 1
        /\ at' = [at EXCEPT ![a].pc = "query", ![a].topic = Len(topics) + 1]
    BY <1>4 DEF CreateTopic, Add, MustCreate, Notify
  <2>3. Len(topics) \in Nat  BY <1>1, TopicFacts
  <2>4. at[a] \in CallRecord  BY <1>1 DEF OtherTypes
  <2>5. /\ r \in CallRecord /\ r.pc = "query" /\ r.name = n /\ r.topic = Len(topics) + 1
    <3> DEFINE l == Len(topics) + 1
    <3>1. l \in Nat  BY <2>3
    <3> HIDE DEF l
    <3>2. [at[a] EXCEPT !.pc = "query", !.topic = l] \in CallRecord
      BY <2>4, <3>1 DEF CallRecord, PC
    <3>3. /\ [at[a] EXCEPT !.pc = "query", !.topic = l].pc = "query"
          /\ [at[a] EXCEPT !.pc = "query", !.topic = l].name = n
          /\ [at[a] EXCEPT !.pc = "query", !.topic = l].topic = l
      BY <2>4 DEF CallRecord
    <3> QED  BY <3>2, <3>3 DEF l
  <2>6. at' = [at EXCEPT ![a] = r]  BY <1>1, <2>2, <2>4 DEF OtherTypes, CallRecord
  <2> HIDE DEF status
  <2>7. v \in TopicRecord /\ v.name = n /\ v.status = status /\ ~v.exiting
    BY <1>2, <2>1, NewTopicFacts
  <2> HIDE DEF v, r
  <2>8. /\ TopicTypes' /\ Len(topics') = Len(topics) + 1
        /\ \A u \in 1..Len(topics) : topics'[u] = topics[u]
        /\ topics'[Len(topics')] = v
        /\ topicMap \in [Name -> Nat] /\ topicMap' = [topicMap EXCEPT ![n] = Len(topics')]
    BY <1>1, <1>2, <2>2, <2>7, AddTopic
  <2>9. HandTypes' /\ at' \in [Actor -> CallRecord]
    <3>1. /\ r.topic \in 1..Len(topics') /\ topics'[r.topic].name = r.name /\ r.name \in Name
          /\ \A u \in 1..Len(topics) : topics'[u].name = topics[u].name
          /\ Len(topics') \in Nat /\ Len(topics) <= Len(topics')
      BY <1>2, <2>3, <2>5, <2>7, <2>8
    <3>2. /\ r.pc \notin {"getChannel", "delChannel", "pause", "persist", "persisting"}
          /\ r.pc \notin {"delTopic", "wait", "unmap", "close"}
      BY <2>5
    <3> HIDE DEF CallRecord
    <3> QED  BY <1>1, <1>2, <2>3, <2>5, <2>6, <3>1, <3>2, CallTypesNext
  <2>10. Types'
    BY <1>1, <1>2, <2>2, <2>8, <2>9 DEF Types, OtherTypes
  <2>11. /\ \A b \in Actor : at'[b] = IF b = a THEN r ELSE at[b]
         /\ \A m \in Name : topicMap'[m] = IF m = n THEN Len(topics) + 1 ELSE topicMap[m]
    BY <1>1, <1>2, <2>6, <2>8 DEF OtherTypes
  <2>12. LockInv'
    BY <1>1, <1>2, <2>5, <2>11, Constants DEF LockInv
  <2>13. FileInv'
    BY <1>1, <1>2, <2>1, <2>3, <2>7, <2>8 DEF FileInv
  <2>14. MapInv'
    <3>1. SUFFICES ASSUME ~doubled  PROVE MapInv'
      BY <1>2 DEF MapInv
    <3>2. MapInv  BY DEF Inv
    <3>3. \A b \in Actor, m \in Name :
            Deleting(b, m)' => Deleting(b, m) /\ at'[b] = at[b] /\ m # n
      <4>1. \A b \in Actor, m \in Name : Deleting(b, m)' => Deleting(b, m) /\ at'[b] = at[b]
        BY <2>5, <2>11 DEF Deleting
      <4>2. \A b \in Actor, m \in Name : Deleting(b, m) => at[b].topic # 0
        BY <1>1, <2>3 DEF Deleting, HandTypes
      <4>3. \A b \in Actor, m \in Name : Deleting(b, m) => topicMap[m] = at[b].topic
        BY <3>1, <3>2 DEF MapInv
      <4>4. \A b \in Actor, m \in Name : Deleting(b, m) => m # n
        BY <2>2, <4>2, <4>3
      <4> QED  BY <4>1, <4>4
    <3>4. \A t \in 1..Len(topics') : ~topics'[t].exiting => topicMap'[topics'[t].name] = t
      <4>1. \A t \in 1..Len(topics) : ~topics[t].exiting => topicMap[topics[t].name] = t
        BY <3>1, <3>2 DEF MapInv
      <4>2. \A t \in 1..Len(topics) : topics[t].name \in Name  BY <1>1, TopicFacts
      <4> QED  BY <1>2, <2>2, <2>3, <2>7, <2>8, <2>11, <4>1, <4>2
    <3>5. \A b \in Actor, m \in Name : Deleting(b, m)' => topicMap'[m] = at'[b].topic
      BY <2>11, <3>1, <3>2, <3>3 DEF MapInv
    <3>6. \A b \in Actor : at'[b].pc \in {"wait", "unmap"} => topics'[at'[b].topic].exiting
      BY <1>1, <2>5, <2>8, <2>11, <3>1, <3>2 DEF MapInv, HandTypes
    <3>7. \A b, c \in Actor, m \in Name : Deleting(b, m)' /\ Deleting(c, m)' => b = c
      BY <3>1, <3>2, <3>3 DEF MapInv
    <3> QED  BY <3>4, <3>5, <3>6, <3>7 DEF MapInv
  <2>15. PauseInv'
    <3>1. SUFFICES ASSUME ~doubled  PROVE PauseInv'
      BY <1>2 DEF PauseInv
    <3>2. PauseInv  BY DEF Inv
    <3>3. \A m \in Name, k \in Key : \A s : Current(m, k, s) => Current(m, k, s)' /\ m # n
      BY <1>1, <2>2, <2>8, <2>11 DEF Current, TopicTypes
    <3>4. \A m \in Name, k \in Key : Current(m, k, acked[m][k]) => Current(m, k, acked[m][k])'
      BY <1>2, <3>3 DEF Current
    <3>5. \A b \in Actor \ {a}, m \in Name, k \in Key :
            Current(m, k, at[b].val) => Current(m, k, at[b].val)'
      BY <2>11, <3>3 DEF Current
    <3> QED  BY <1>2, <2>5, <2>11, <3>1, <3>2, <3>4, <3>5, Constants DEF PauseInv
  <2>16. MetaInv'
    BY <1>1, <2>2 DEF MetaInv, Pending, OtherTypes
  <2> QED  BY <2>10, <2>12, <2>13, <2>14, <2>15, <2>16 DEF Inv
<1> QED  BY <1>3, <1>4

LEMMA LoadTopicInv ==
    ASSUME Inv, NEW n \in Name, LoadTopic(n)
    PROVE  Inv'
<1>1. TopicTypes /\ OtherTypes /\ HandTypes /\ LockInv /\ FileInv  BY DEF Inv, Types
<1> DEFINE v == NewTopic(n, file[n], TRUE)
<1>2. /\ phase = "load" /\ n \in todo /\ Add(n, v) /\ todo' = todo \ {n}
      /\ UNCHANGED <<phase, at, job, notify, lock, file, Ephemeral, acked, setter, failed, doubled>>
  BY DEF LoadTopic, Add
<1>3. /\ topicMap[n] = 0 /\ file[n][Self] # "none" /\ file[n] \in [Key -> Status]
  BY <1>1, <1>2 DEF FileInv, OtherTypes, Entries
<1>4. v \in TopicRecord /\ v.name = n /\ v.status = file[n] /\ ~v.exiting
  BY <1>3, NewTopicFacts
<1> HIDE DEF v
<1>5. /\ TopicTypes' /\ Len(topics') = Len(topics) + 1 /\ Len(topics) \in Nat
      /\ \A u \in 1..Len(topics) : topics'[u] = topics[u]
      /\ topics'[Len(topics')] = v
      /\ topicMap \in [Name -> Nat] /\ topicMap' = [topicMap EXCEPT ![n] = Len(topics')]
  BY <1>1, <1>2, <1>4, AddTopic
<1>6. \A m \in Name : topicMap'[m] = IF m = n THEN Len(topics) + 1 ELSE topicMap[m]
  BY <1>5
<1>7. /\ \A a \in Actor : at[a].pc = "idle" /\ ~job[a].on
  BY <1>1, <1>2, Constants DEF LockInv
<1>8. Types'
  BY <1>1, <1>2, <1>5, <1>7 DEF Types, OtherTypes, HandTypes
<1>9. LockInv'
  BY <1>1, <1>2, <1>7, Constants DEF LockInv
<1>10. FileInv'
  <2>1. \A t \in 1..Len(topics') : topics'[t].status[Self] # "none"
    BY <1>1, <1>3, <1>4, <1>5 DEF FileInv
  <2>2. \A m \in todo' : phase' = "load" /\ file'[m][Self] # "none" /\ topicMap'[m] = 0
    BY <1>1, <1>2, <1>6 DEF FileInv, OtherTypes
  <2> QED  BY <1>1, <1>2, <2>1, <2>2 DEF FileInv
<1>11. MapInv'
  <2>1. SUFFICES ASSUME ~doubled  PROVE MapInv'
    BY <1>2 DEF MapInv
  <2>2. \A t \in 1..Len(topics) : ~topics[t].exiting => topicMap[topics[t].name] = t
    BY <2>1 DEF Inv, MapInv
  <2>3. \A t \in 1..Len(topics) : topics[t].name \in Name  BY <1>1, TopicFacts
  <2>4. \A t \in 1..Len(topics') : ~topics'[t].exiting => topicMap'[topics'[t].name] = t
    BY <1>3, <1>4, <1>5, <1>6, <2>2, <2>3
  <2> QED  BY <1>2, <1>7, <2>4 DEF MapInv, Deleting
<1>12. PauseInv'
  <2>1. SUFFICES ASSUME ~doubled  PROVE PauseInv'
    BY <1>2 DEF PauseInv
  <2>2. PauseInv  BY DEF Inv
  <2>3. \A m \in Name, k \in Key : \A s : Current(m, k, s) => Current(m, k, s)'
    BY <1>1, <1>3, <1>5, <1>6 DEF Current, TopicTypes
  <2>4. \A k \in Key : \A s : s = file[n][k] => Current(n, k, s)'
    BY <1>4, <1>5, <1>6 DEF Current
  <2>5. \A m \in Name \ Ephemeral, k \in Key \ Ephemeral : acked[m][k] # "none" =>
          /\ file[m][k] = acked[m][k]
          /\ m \in todo \/ Current(m, k, acked[m][k])
    BY <1>2, <2>1, <2>2 DEF PauseInv
  <2>6. \A m \in Name \ Ephemeral, k \in Key \ Ephemeral : acked[m][k] # "none" =>
          m \in todo' \/ Current(m, k, acked[m][k])'
    BY <1>2, <2>3, <2>4, <2>5 DEF Current
  <2> QED  BY <1>2, <1>7, <2>5, <2>6, Constants DEF PauseInv
<1>13. MetaInv'
  BY <1>2, <1>7 DEF MetaInv
<1> QED  BY <1>8, <1>9, <1>10, <1>11, <1>12, <1>13 DEF Inv

LEMMA UnmapInv ==
    ASSUME Inv, NEW a \in Actor, Unmap(a)
    PROVE  Inv'
<1>1. TopicTypes /\ OtherTypes /\ HandTypes /\ LockInv /\ FileInv  BY DEF Inv, Types
<1> DEFINE n == at[a].name
<1>2. /\ at[a].pc = "unmap" /\ lock = Nil /\ topicMap' = [topicMap EXCEPT ![n] = 0]
      /\ at' = [at EXCEPT ![a] = Idle]
      /\ UNCHANGED <<phase, topics, todo, job, notify, lock, file, Ephemeral,
                     acked, setter, failed, doubled>>
  BY DEF Unmap, Return
<1>3. n \in Name /\ topicMap \in [Name -> Nat] /\ a \in Req \cup {"deleter"}
  BY <1>1, <1>2 DEF HandTypes, TopicTypes
<1>4. /\ \A b \in Actor : at'[b] = IF b = a THEN Idle ELSE at[b]
      /\ \A m \in Name : topicMap'[m] = IF m = n THEN 0 ELSE topicMap[m]
  BY <1>1, <1>2, <1>3 DEF OtherTypes
<1>5. Types'
  <2>1. TopicTypes'  BY <1>1, <1>2, <1>4, <1>3 DEF TopicTypes
  <2>2. at' \in [Actor -> CallRecord]  BY <1>1, <1>2, IdleFacts DEF OtherTypes
  <2>3. OtherTypes'  BY <1>1, <1>2, <2>2 DEF OtherTypes
  <2>4. HandTypes'  BY <1>1, <1>2, <1>4, IdleFacts DEF HandTypes
  <2> QED  BY <2>1, <2>3, <2>4 DEF Types
<1>6. LockInv'
  BY <1>1, <1>2, <1>3, <1>4, IdleFacts, Constants DEF LockInv
<1>7. FileInv'
  BY <1>1, <1>2, <1>4 DEF FileInv, OtherTypes
<1>8. MapInv'
  <2>1. SUFFICES ASSUME ~doubled  PROVE MapInv'
    BY <1>2 DEF MapInv
  <2>2. MapInv  BY DEF Inv
  <2>3. \A b \in Actor, m \in Name :
          Deleting(b, m)' => Deleting(b, m) /\ at'[b] = at[b] /\ b # a
    BY <1>4, IdleFacts DEF Deleting
  <2>4. Deleting(a, n) /\ topics[topicMap[n]].exiting
    BY <1>2, <1>3, <2>1, <2>2 DEF Deleting, MapInv
  <2>5. \A b \in Actor, m \in Name : Deleting(b, m)' => m # n
    BY <1>3, <2>1, <2>2, <2>3, <2>4 DEF MapInv
  <2>6. \A t \in 1..Len(topics) : ~topics[t].exiting => topicMap'[topics[t].name] = t
    <3>1. \A t \in 1..Len(topics) : topics[t].name \in Name  BY <1>1, TopicFacts
    <3> QED  BY <1>4, <2>1, <2>2, <2>4, <3>1 DEF MapInv
  <2>7. \A b \in Actor : at'[b].pc \in {"wait", "unmap"} => topics[at'[b].topic].exiting
    BY <1>4, <2>1, <2>2, IdleFacts DEF MapInv
  <2>8. \A b, c \in Actor, m \in Name : Deleting(b, m)' /\ Deleting(c, m)' => b = c
    BY <2>1, <2>2, <2>3 DEF MapInv
  <2>9. \A b \in Actor, m \in Name : Deleting(b, m)' => topicMap'[m] = at'[b].topic
    BY <1>4, <2>1, <2>2, <2>3, <2>5 DEF MapInv
  <2> QED  BY <1>2, <2>6, <2>7, <2>8, <2>9 DEF MapInv
<1>9. PauseInv'
  <2>1. SUFFICES ASSUME ~doubled  PROVE PauseInv'
    BY <1>2 DEF PauseInv
  <2>2. PauseInv  BY DEF Inv
  <2>3. \A k \in Key : acked[n][k] = "none" /\ setter[n][k] = Nil
    BY <1>2, <2>1, <2>2 DEF PauseInv
  <2>4. \A m \in Name, k \in Key : \A s : m # n /\ Current(m, k, s) => Current(m, k, s)'
    BY <1>2, <1>4 DEF Current
  <2>5. \A m \in Name, k \in Key :
          m # n /\ Current(m, k, acked[m][k]) => Current(m, k, acked[m][k])'
    BY <1>2, <2>4 DEF Current
  <2>6. \A b \in Actor \ {a}, m \in Name, k \in Key :
          m # n /\ Current(m, k, at[b].val) => Current(m, k, at[b].val)'
    BY <1>4, <2>4 DEF Current
  <2>7. \A m \in Name \ Ephemeral, k \in Key \ Ephemeral : acked[m][k] # "none" =>
          /\ file[m][k] = acked[m][k]
          /\ phase # "down" => m \in todo \/ Current(m, k, acked[m][k])'
          /\ \A b \in Actor : job[b].on /\ m \notin job[b].todo => job[b].snap[m][k] = acked[m][k]
    BY <2>1, <2>2, <2>3, <2>5 DEF PauseInv
  <2>8. \A b \in Actor : at'[b].pc \in {"wait", "unmap"} =>
          \A k \in Key : acked[at'[b].name][k] = "none" /\ setter[at'[b].name][k] = Nil
    BY <1>4, <2>1, <2>2, IdleFacts DEF PauseInv
  <2>9. ASSUME NEW b \in Req, NEW m \in Name \ Ephemeral, NEW k \in Key \ Ephemeral,
               at'[b].pc \in {"persist", "persisting"}, at'[b].name = m, at'[b].key = k,
               setter[m][k] = b
        PROVE  /\ Current(m, k, at[b].val)'
               /\ job[b].on /\ m \notin job[b].todo => job[b].snap[m][k] = at'[b].val
    <3>1. b \in Actor \ {a} /\ at'[b] = at[b] /\ m # n
      BY <1>4, <2>3, <2>9, IdleFacts, Constants
    <3> QED  BY <2>1, <2>2, <2>6, <2>9, <3>1 DEF PauseInv
  <2> QED  BY <1>2, <2>7, <2>8, <2>9 DEF PauseInv
<1>10. MetaInv'
  <2>1. Pending' <=> Pending
    BY <1>2, <1>4, IdleFacts, Constants DEF Pending
  <2>2. \A m \in Name : m # n =>
          Listed(topics[topicMap[m]])' = Listed(topics[topicMap[m]])
    BY <1>2, <1>4 DEF Listed
  <2> QED  BY <1>2, <1>4, <2>1, <2>2 DEF Inv, MetaInv
<1> QED  BY <1>5, <1>6, <1>7, <1>8, <1>9, <1>10 DEF Inv

LEMMA CloseTopicsInv ==
    ASSUME Inv, CloseTopics
    PROVE  Inv'
<1>1. TopicTypes /\ OtherTypes /\ HandTypes /\ LockInv /\ FileInv  BY DEF Inv, Types
<1>2. /\ at["exit"].pc = "close" /\ lock' = Nil /\ phase' = "stopping"
      /\ at' = [at EXCEPT !["exit"] = Idle]
      /\ UNCHANGED <<topicMap, todo, job, notify, file, Ephemeral, acked, setter, failed, doubled>>
  BY DEF CloseTopics, Return
<1>3. /\ lock = "exit" /\ phase \notin {"load", "down"} /\ \A a \in Actor : ~job[a].on
      /\ todo = {}
  BY <1>1, <1>2, Constants DEF LockInv, FileInv
<1>4. /\ Len(topics) \in Nat /\ DOMAIN topics = 1..Len(topics)
      /\ \A u \in 1..Len(topics) : topics[u] \in TopicRecord
  BY <1>1, TopicFacts
<1> DEFINE new(t) == IF topicMap[topics[t].name] = t
                     THEN [topics[t] EXCEPT !.exiting = TRUE] ELSE topics[t]
<1>5. topics' = [t \in 1..Len(topics) |-> new(t)]
  BY <1>4 DEF CloseTopics
<1>6. \A t \in 1..Len(topics) :
        /\ new(t) \in TopicRecord /\ new(t).name = topics[t].name
        /\ new(t).status = topics[t].status
        /\ topics[t].exiting => new(t).exiting
  BY <1>4 DEF TopicRecord
<1> HIDE DEF new
<1>7. topics' \in Seq(TopicRecord) /\ Len(topics') = Len(topics)
  <2> HIDE DEF TopicRecord
  <2> QED  BY <1>4, <1>5, <1>6
<1>8. \A t \in 1..Len(topics) :
        /\ topics'[t].name = topics[t].name /\ topics'[t].status = topics[t].status
        /\ topics[t].exiting => topics'[t].exiting
  BY <1>5, <1>6
<1>9. TopicTypes'
  BY <1>1, <1>2, <1>7, <1>8 DEF TopicTypes
<1>10. \A b \in Actor : at'[b] = IF b = "exit" THEN Idle ELSE at[b]
  BY <1>1, <1>2 DEF OtherTypes
<1>11. at' \in [Actor -> CallRecord]
  BY <1>1, <1>2, IdleFacts DEF OtherTypes
<1>12. OtherTypes'
  BY <1>1, <1>2, <1>11 DEF OtherTypes
<1>13. HandTypes'
  BY <1>1, <1>7, <1>8, <1>10, IdleFacts DEF HandTypes
<1>14. LockInv'
  BY <1>1, <1>2, <1>3, <1>10, IdleFacts, Constants DEF LockInv
<1>15. FileInv'
  BY <1>1, <1>2, <1>3, <1>7, <1>8 DEF FileInv
<1>16. MapInv'
  <2>1. SUFFICES ASSUME ~doubled  PROVE MapInv'
    BY <1>2 DEF MapInv
  <2>2. MapInv  BY DEF Inv
  <2>3. \A b \in Actor, m \in Name : Deleting(b, m)' => Deleting(b, m) /\ at'[b] = at[b]
    BY <1>10, IdleFacts DEF Deleting
  <2>4. \A t \in 1..Len(topics') : ~topics'[t].exiting => topicMap'[topics'[t].name] = t
    BY <1>2, <1>7, <1>8, <2>1, <2>2 DEF MapInv
  <2>5. \A b \in Actor : at'[b].pc \in {"wait", "unmap"} => topics'[at'[b].topic].exiting
    BY <1>1, <1>8, <1>10, <2>1, <2>2, IdleFacts DEF MapInv, HandTypes
  <2>6. \A b, c \in Actor, m \in Name : Deleting(b, m)' /\ Deleting(c, m)' => b = c
    BY <2>1, <2>2, <2>3 DEF MapInv
  <2>7. \A b \in Actor, m \in Name : Deleting(b, m)' => topicMap'[m] = at'[b].topic
    BY <1>2, <2>1, <2>2, <2>3 DEF MapInv
  <2> QED  BY <2>4, <2>5, <2>6, <2>7 DEF MapInv
<1>17. PauseInv'
  <2>1. SUFFICES ASSUME ~doubled  PROVE PauseInv'
    BY <1>2 DEF PauseInv
  <2>2. PauseInv  BY DEF Inv
  <2>3. \A m \in Name, k \in Key : \A s : Current(m, k, s) => Current(m, k, s)'
    BY <1>1, <1>2, <1>8 DEF Current, TopicTypes
  <2>4. \A m \in Name, k \in Key : Current(m, k, acked[m][k]) => Current(m, k, acked[m][k])'
    BY <1>2, <2>3 DEF Current
  <2>5. \A b \in Req, m \in Name, k \in Key :
          Current(m, k, at[b].val) => Current(m, k, at[b].val)'
    BY <1>10, <2>3, Constants DEF Current
  <2> QED  BY <1>2, <1>3, <1>10, <2>1, <2>2, <2>4, <2>5, IdleFacts, Constants DEF PauseInv
<1>18. MetaInv'
  BY <1>2 DEF MetaInv
<1> QED  BY <1>9, <1>12, <1>13, <1>14, <1>15, <1>16, <1>17, <1>18 DEF Inv, Types

\* A process that has just ended, or just begun: whatever the history keeps.
LEMMA FreshInv ==
    ASSUME Inv, Fresh, phase' \in {"down", "load"}, UNCHANGED <<file, Ephemeral>>,
           todo' \subseteq Name, acked' \in Entries, doubled' \in BOOLEAN, failed' \in BOOLEAN,
           setter' \in [Name -> [Key -> Req \cup {Nil}]],
           \A n \in todo' : phase' = "load" /\ file[n][Self] # "none",
           ~doubled' => \A n \in Name \ Ephemeral, k \in Key \ Ephemeral :
              acked'[n][k] # "none" =>
                 file[n][k] = acked'[n][k] /\ (phase' = "load" => n \in todo')
    PROVE  Inv'
<1>1. TopicTypes /\ OtherTypes /\ FileInv  BY DEF Inv, Types
<1>2. /\ topics' = << >> /\ topicMap' = [n \in Name |-> 0] /\ notify' = 0 /\ lock' = Nil
      /\ at' = [a \in Actor |-> Idle] /\ job' = [a \in Actor |-> NoJob]
  BY DEF Fresh
<1>3. /\ \A a \in Actor : at'[a].pc = "idle" /\ ~job'[a].on
      /\ \A a \in Actor : job'[a].snap = NoFile
      /\ at' \in [Actor -> CallRecord] /\ job' \in [Actor -> JobRecord]
  BY <1>2, IdleFacts
<1>4. topics' \in Seq(TopicRecord) /\ Len(topics') = 0
  <2> HIDE DEF TopicRecord
  <2> QED  BY <1>2
<1>5. TopicTypes'  BY <1>2, <1>4 DEF TopicTypes
<1>6. OtherTypes'  BY <1>1, <1>2, <1>3, Constants DEF OtherTypes
<1>7. HandTypes'  BY <1>3 DEF HandTypes
<1>8. LockInv'  BY <1>2, <1>3, Constants DEF LockInv
<1>9. FileInv'
  <2>1. \A n \in Name, k \in Key : NoFile[n][k] = "none"  BY DEF NoFile
  <2> QED  BY <1>1, <1>2, <1>3, <1>4, <2>1 DEF FileInv
<1>10. MapInv'  BY <1>3, <1>4 DEF MapInv, Deleting
<1>11. PauseInv'
  <2>1. \A a \in Req : at'[a].pc = "idle"  BY <1>3, Constants
  <2> QED  BY <1>3, <2>1 DEF PauseInv
<1>12. MetaInv'  BY <1>2 DEF MetaInv
<1> QED  BY <1>5, <1>6, <1>7, <1>8, <1>9, <1>10, <1>11, <1>12 DEF Inv, Types

LEMMA DieInv ==
    ASSUME Inv, Die
    PROVE  Inv'
<1>1. /\ Fresh /\ phase' = "down" /\ todo' = {}
      /\ UNCHANGED <<file, Ephemeral, acked, failed, doubled>>
      /\ setter' = [n \in Name |-> [k \in Key |-> Nil]]
  BY DEF Die
<1>2. /\ acked' \in Entries /\ doubled' \in BOOLEAN /\ failed' \in BOOLEAN
      /\ setter' \in [Name -> [Key -> Req \cup {Nil}]]
  BY <1>1 DEF Inv, Types, OtherTypes
<1>3. ~doubled' => \A n \in Name \ Ephemeral, k \in Key \ Ephemeral :
        acked'[n][k] # "none" => file[n][k] = acked'[n][k]
  BY <1>1 DEF Inv, PauseInv
<1> QED  BY <1>1, <1>2, <1>3, FreshInv

LEMMA RestartInv ==
    ASSUME Inv, Restart
    PROVE  Inv'
<1>1. /\ Fresh /\ phase' = "load" /\ todo' = {n \in Name : file[n][Self] # "none"}
      /\ doubled' = FALSE /\ UNCHANGED <<file, Ephemeral, setter, failed>>
      /\ acked' = IF doubled THEN [n \in Name |-> [k \in Key |-> "none"]] ELSE acked
  BY DEF Restart
<1>2. /\ acked' \in Entries /\ doubled' \in BOOLEAN /\ failed' \in BOOLEAN
      /\ setter' \in [Name -> [Key -> Req \cup {Nil}]]
  BY <1>1 DEF Inv, Types, OtherTypes, Entries, Status
<1>3. \A n \in Name \ Ephemeral, k \in Key \ Ephemeral : acked'[n][k] # "none" =>
        file[n][k] = acked'[n][k] /\ n \in todo'
  BY <1>1 DEF Inv, PauseInv, FileInv
<1> QED  BY <1>1, <1>2, <1>3, FreshInv

-----------------------------------------------------------------------------
(* PersistMetadata.                                                         *)

LEMMA OneJob ==
    ASSUME Inv, NEW a \in Actor, NEW b \in Actor, job[a].on, job[b].on
    PROVE  a = b
BY Constants DEF Inv, LockInv

LEMMA VisitInv ==
    ASSUME Inv, NEW a \in Actor, NEW n \in Name, Visit(a, n)
    PROVE  Inv'
<1>1. TopicTypes /\ OtherTypes /\ HandTypes /\ LockInv /\ FileInv  BY DEF Inv, Types
<1>2. Types'  BY VisitTypes DEF Inv
<1>3. PICK e \in [Key -> Status] :
        /\ topicMap[n] = 0 => e = job[a].snap[n]
        /\ topicMap[n] # 0 => e = Listed(topics[topicMap[n]])
        /\ job' = [job EXCEPT ![a] = [job[a] EXCEPT !.todo = @ \ {n},
                      !.snap = [@ EXCEPT ![n] = e]]]
  BY VisitTypes DEF Inv
<1>4. /\ UNCHANGED <<phase, topics, topicMap, todo, at, notify, lock, file, Ephemeral,
                     acked, setter, failed, doubled>>
      /\ n \in job[a].todo
  BY DEF Visit
<1>5. /\ job'[a].on = job[a].on /\ job'[a].todo = job[a].todo \ {n}
      /\ \A m \in Name : job'[a].snap[m] = IF m = n THEN e ELSE job[a].snap[m]
      /\ \A b \in Actor : b # a => job'[b] = job[b]
  BY <1>1, <1>3 DEF OtherTypes, JobRecord, Entries
<1>6. \A b \in Actor : job'[b].on <=> job[b].on
  BY <1>5
<1>7. LockInv'
  BY <1>1, <1>4, <1>6, Constants DEF LockInv
<1>8. FileInv'
  <2>1. topicMap[n] # 0 => e[Self] # "none"
    <3>1. SUFFICES ASSUME topicMap[n] # 0  PROVE e[Self] # "none"
      OBVIOUS
    <3>2. topicMap[n] \in 1..Len(topics) /\ topics[topicMap[n]].status[Self] # "none"
      BY <1>1, <3>1 DEF TopicTypes, FileInv
    <3>3. Self \notin Ephemeral  BY <1>1, Constants DEF OtherTypes
    <3> QED  BY <1>1, <1>3, <3>1, <3>2, <3>3, ListedFacts, Constants
  <2>2. \A k \in Key : e[k] # "none" => e[Self] # "none"
    BY <1>1, <1>3, <2>1 DEF FileInv
  <2>3. \A b \in Actor, m \in Name, k \in Key :
          job'[b].snap[m][k] # "none" => job'[b].snap[m][Self] # "none"
    BY <1>1, <1>5, <2>2 DEF FileInv
  <2> QED  BY <1>1, <1>4, <2>3 DEF FileInv
<1>9. MapInv'
  BY <1>4 DEF Inv, MapInv, Deleting
<1>10. PauseInv'
  <2>1. SUFFICES ASSUME ~doubled  PROVE PauseInv'
    BY <1>4 DEF PauseInv
  <2>2. PauseInv  BY DEF Inv
  <2>3. \A m \in Name, k \in Key : \A s : Current(m, k, s)' <=> Current(m, k, s)
    BY <1>4 DEF Current
  <2>4. \A m \in Name, k \in Key :
          /\ Current(m, k, acked[m][k])' <=> Current(m, k, acked[m][k])
          /\ \A b \in Req : Current(m, k, at[b].val)' <=> Current(m, k, at[b].val)
    BY <1>4 DEF Current
  <2>5. \A k \in Key \ Ephemeral : \A s : Current(n, k, s) => e[k] = s
    BY <1>1, <1>3, ListedFacts DEF Current, TopicTypes
  <2>6. ASSUME NEW m \in Name \ Ephemeral, NEW k \in Key \ Ephemeral, acked[m][k] # "none",
               NEW b \in Actor, job'[b].on, m \notin job'[b].todo
        PROVE  job'[b].snap[m][k] = acked[m][k]
    <3>1. CASE b = a /\ m = n
      <4>1. phase # "down" /\ n \notin todo
        BY <1>1, <1>6, <2>6, <3>1, Constants DEF LockInv, FileInv
      <4>2. Current(n, k, acked[n][k])
        BY <2>1, <2>2, <2>6, <3>1, <4>1 DEF PauseInv
      <4> QED  BY <1>5, <2>5, <3>1, <4>2
    <3>2. CASE ~(b = a /\ m = n)
      <4>1. job[b].on /\ m \notin job[b].todo /\ job'[b].snap[m] = job[b].snap[m]
        BY <1>5, <1>6, <2>6, <3>2
      <4> QED  BY <2>1, <2>2, <2>6, <4>1 DEF PauseInv
    <3> QED  BY <3>1, <3>2
  <2>7. ASSUME NEW b \in Req, NEW m \in Name \ Ephemeral, NEW k \in Key \ Ephemeral,
               at[b].pc \in {"persist", "persisting"}, at[b].name = m, at[b].key = k,
               setter[m][k] = b, job'[b].on, m \notin job'[b].todo
        PROVE  job'[b].snap[m][k] = at[b].val
    <3>1. /\ Current(m, k, at[b].val) /\ b \in Actor
          /\ job[b].on /\ m \notin job[b].todo => job[b].snap[m][k] = at[b].val
      BY <2>1, <2>2, <2>7, Constants DEF PauseInv
    <3>2. CASE b = a /\ m = n
      BY <1>5, <2>5, <3>1, <3>2
    <3>3. CASE ~(b = a /\ m = n)
      BY <1>5, <1>6, <2>7, <3>1, <3>3
    <3> QED  BY <3>2, <3>3
  <2>8. \A m \in Name \ Ephemeral, k \in Key \ Ephemeral : acked[m][k] # "none" =>
          /\ file[m][k] = acked[m][k]
          /\ phase # "down" => m \in todo \/ Current(m, k, acked[m][k])'
    BY <2>1, <2>2, <2>4 DEF PauseInv
  <2>9. \A b \in Req, m \in Name \ Ephemeral, k \in Key \ Ephemeral :
          /\ at[b].pc \in {"persist", "persisting"} /\ at[b].name = m /\ at[b].key = k
          /\ setter[m][k] = b
          => Current(m, k, at[b].val)'
    BY <2>1, <2>2, <2>4 DEF PauseInv
  <2>10. \A b \in Actor : at[b].pc \in {"wait", "unmap"} =>
           \A k \in Key : acked[at[b].name][k] = "none" /\ setter[at[b].name][k] = Nil
    BY <2>1, <2>2 DEF PauseInv
  <2> QED  BY <1>4, <2>6, <2>7, <2>8, <2>9, <2>10 DEF PauseInv
<1>11. MetaInv'
  <2>1. Pending' <=> Pending  BY <1>4 DEF Pending
  <2>2. \A m \in Name : Listed(topics[topicMap[m]])' = Listed(topics[topicMap[m]])
    BY <1>4 DEF Listed
  <2>3. ASSUME ~Pending, NEW m \in Name \ Ephemeral, topicMap[m] # 0, NEW b \in Actor,
               phase \in {"load", "up"}, job'[b].on, m \notin job'[b].todo
        PROVE  job'[b].snap[m] = Listed(topics[topicMap[m]])
    BY <1>3, <1>5, <1>6, <2>3 DEF Inv, MetaInv
  <2> QED  BY <1>4, <1>6, <2>1, <2>2, <2>3 DEF Inv, MetaInv
<1> QED  BY <1>2, <1>7, <1>8, <1>9, <1>10, <1>11 DEF Inv

\* A new job, for whoever has just taken the lock, or main: every topic of the map is
\* still to be visited.
LEMMA NewJobInv ==
    ASSUME Inv, NEW a \in Actor, job' = [job EXCEPT ![a] = NewJob],
           Types', LockInv', \A b \in Actor : ~job[b].on,
           phase # "down", phase' # "down", phase' # "up" \/ phase = "up",
           \A b \in Actor : \/ at'[b] = at[b]
                            \/ /\ at[b].pc = "persist" /\ at'[b].pc = "persisting"
                               /\ at'[b].name = at[b].name /\ at'[b].key = at[b].key
                               /\ at'[b].val = at[b].val,
           todo = {} \/ (phase = "load" /\ phase' = "load"),
           UNCHANGED <<topics, topicMap, todo, file, Ephemeral, acked, setter, failed, doubled>>
    PROVE  FileInv' /\ MapInv' /\ PauseInv' /\ MetaInv'
<1>1. TopicTypes /\ OtherTypes /\ HandTypes /\ LockInv /\ FileInv  BY DEF Inv, Types
<1>2. /\ NewJob.snap = NoFile /\ NewJob.on
      /\ NewJob.todo = {n \in Name \ Ephemeral : topicMap[n] # 0}
  BY NewJobFacts
<1> HIDE DEF NewJob
<1>3. \A b \in Actor : job'[b] = IF b = a THEN NewJob ELSE job[b]
  BY <1>1 DEF OtherTypes
<1>4. FileInv'
  <2>1. \A n \in Name, k \in Key : NoFile[n][k] = "none"  BY DEF NoFile
  <2> QED  BY <1>1, <1>2, <1>3, <2>1 DEF FileInv
<1>5. MapInv'
  <2>1. SUFFICES ASSUME ~doubled  PROVE MapInv'
    BY DEF MapInv
  <2>2. \A b \in Actor, n \in Name : Deleting(b, n)' => Deleting(b, n) /\ at'[b] = at[b]
    BY DEF Deleting
  <2>3. \A b \in Actor : at'[b].pc \in {"wait", "unmap"} => at'[b] = at[b]
    OBVIOUS
  <2>4. MapInv  BY DEF Inv
  <2>5. \A b, c \in Actor, n \in Name : Deleting(b, n)' /\ Deleting(c, n)' => b = c
    BY <2>1, <2>2, <2>4 DEF MapInv
  <2>6. \A b \in Actor, n \in Name : Deleting(b, n)' => topicMap'[n] = at'[b].topic
    BY <2>1, <2>2, <2>4 DEF MapInv
  <2>7. \A b \in Actor : at'[b].pc \in {"wait", "unmap"} => topics'[at'[b].topic].exiting
    BY <2>1, <2>3, <2>4 DEF MapInv
  <2>8. \A t \in 1..Len(topics') : ~topics'[t].exiting => topicMap'[topics'[t].name] = t
    BY <2>1, <2>4 DEF MapInv
  <2> QED  BY <2>5, <2>6, <2>7, <2>8 DEF MapInv
<1>6. PauseInv'
  <2>1. SUFFICES ASSUME ~doubled  PROVE PauseInv'
    BY DEF PauseInv
  <2>2. PauseInv  BY DEF Inv
  <2>3. \A m \in Name, k \in Key : \A s : Current(m, k, s)' <=> Current(m, k, s)
    BY DEF Current
  <2>4. \A m \in Name, k \in Key : Current(m, k, acked[m][k])' <=> Current(m, k, acked[m][k])
    BY DEF Current
  <2>5. \A b \in Req, m \in Name, k \in Key : Current(m, k, at[b].val) => Current(m, k, at[b].val)'
    BY Constants DEF Current
  <2>6. \A b \in Actor, n \in Name \ Ephemeral :
          job'[b].on /\ n \notin job'[b].todo => topicMap[n] = 0
    BY <1>2, <1>3
  <2>7. \A m \in Name \ Ephemeral, k \in Key \ Ephemeral : acked[m][k] # "none" =>
          /\ file[m][k] = acked[m][k]
          /\ m \in todo \/ Current(m, k, acked[m][k])
    BY <2>1, <2>2 DEF PauseInv
  <2>8. \A m \in Name \ Ephemeral, k \in Key \ Ephemeral : acked[m][k] # "none" =>
          \A b \in Actor : job'[b].on /\ m \notin job'[b].todo => job'[b].snap[m][k] = acked[m][k]
    <3>1. \A b \in Actor : job'[b].on => todo = {}
      BY <1>1, <1>3, Constants DEF LockInv
    <3> QED  BY <2>6, <2>7, <3>1 DEF Current
  <2>9. \A b \in Req, m \in Name \ Ephemeral, k \in Key \ Ephemeral :
          /\ at'[b].pc \in {"persist", "persisting"} /\ at'[b].name = m /\ at'[b].key = k
          /\ setter[m][k] = b
          => /\ Current(m, k, at[b].val)'
             /\ job'[b].on /\ m \notin job'[b].todo => job'[b].snap[m][k] = at'[b].val
    <3>1. \A b \in Req, m \in Name \ Ephemeral, k \in Key \ Ephemeral :
            /\ at[b].pc \in {"persist", "persisting"} /\ at[b].name = m /\ at[b].key = k
            /\ setter[m][k] = b
            => Current(m, k, at[b].val)
      BY <2>1, <2>2 DEF PauseInv
    <3>2. \A b \in Req : at'[b].pc \in {"persist", "persisting"} =>
            /\ at[b].pc \in {"persist", "persisting"}
            /\ at'[b].name = at[b].name /\ at'[b].key = at[b].key /\ b \in Actor
      BY Constants
    <3> QED  BY <2>5, <2>6, <3>1, <3>2 DEF Current
  <2>10. \A b \in Actor : at'[b].pc \in {"wait", "unmap"} =>
           \A k \in Key : acked[at'[b].name][k] = "none" /\ setter[at'[b].name][k] = Nil
    BY <2>1, <2>2 DEF PauseInv
  <2> QED  BY <2>4, <2>7, <2>8, <2>9, <2>10 DEF PauseInv
<1>7. MetaInv'
  <2>1. job'[a].on /\ \A b \in Actor : job'[b].on => b = a
    BY <1>2, <1>3
  <2>2. \A n \in Name \ Ephemeral : n \notin job'[a].todo => topicMap[n] = 0
    BY <1>2, <1>3
  <2> QED  BY <2>1, <2>2 DEF MetaInv
<1> QED  BY <1>4, <1>5, <1>6, <1>7

LEMMA MainInv ==
    ASSUME Inv, Main
    PROVE  Inv'
<1>1. /\ phase = "load" /\ todo = {} /\ job' = [job EXCEPT !["main"] = NewJob]
      /\ UNCHANGED <<phase, topics, topicMap, todo, at, notify, lock, file, Ephemeral,
                     acked, setter, failed, doubled>>
      /\ ~job["main"].on
  BY DEF Main
<1>2. Types' /\ LockInv /\ OtherTypes  BY MainTypes DEF Inv, Types
<1>3. \A b \in Actor : ~job[b].on
  BY <1>1, <1>2, Constants DEF LockInv
<1>4. \A b \in Actor : b # "main" => job'[b] = job[b]
  BY <1>1, <1>2 DEF OtherTypes
<1>5. LockInv'
  BY <1>1, <1>2, <1>4, Constants DEF LockInv
<1>6. FileInv' /\ MapInv' /\ PauseInv' /\ MetaInv'
  <2>1. /\ phase # "down" /\ phase' # "down" /\ (phase' # "up" \/ phase = "up")
        /\ "main" \in Actor /\ \A b \in Actor : at'[b] = at[b]
    BY <1>1, Constants
  <2> QED  BY <1>1, <1>2, <1>3, <1>5, <2>1, NewJobInv
<1> QED  BY <1>2, <1>5, <1>6 DEF Inv

\* The lock of n is free: nobody persists, and all topics have been loaded.
LEMMA Unlocked ==
    ASSUME Inv, lock = Nil, phase \notin {"load", "down"}
    PROVE  todo = {} /\ \A b \in Actor : ~job[b].on
BY Constants DEF Inv, LockInv, FileInv

LEMMA NotifyPersistInv ==
    ASSUME Inv, NotifyPersist
    PROVE  Inv'
<1>1. /\ phase \notin {"load", "down"} /\ lock = Nil /\ lock' = "notify"
      /\ job' = [job EXCEPT !["notify"] = NewJob]
      /\ UNCHANGED <<phase, topics, topicMap, todo, at, file, Ephemeral,
                     acked, setter, failed, doubled>>
  BY DEF NotifyPersist, Locked, Serving
<1>2. Types' /\ LockInv /\ OtherTypes  BY NotifyPersistTypes DEF Inv, Types
<1>3. todo = {} /\ \A b \in Actor : ~job[b].on  BY <1>1, Unlocked
<1>4. \A b \in Actor : b # "notify" => job'[b] = job[b]
  BY <1>1, <1>2 DEF OtherTypes
<1>5. LockInv'
  BY <1>1, <1>2, <1>3, <1>4, Constants DEF LockInv
<1>6. FileInv' /\ MapInv' /\ PauseInv' /\ MetaInv'
  <2>1. /\ phase # "down" /\ phase' # "down" /\ (phase' # "up" \/ phase = "up")
        /\ "notify" \in Actor /\ \A b \in Actor : at'[b] = at[b]
    BY <1>1, Constants
  <2> QED  BY <1>1, <1>2, <1>3, <1>5, <2>1, NewJobInv
<1> QED  BY <1>2, <1>5, <1>6 DEF Inv

LEMMA ExitInv ==
    ASSUME Inv, Exit
    PROVE  Inv'
<1>1. /\ phase = "up" /\ phase' = "closing" /\ lock = Nil /\ lock' = "exit"
      /\ job' = [job EXCEPT !["exit"] = NewJob]
      /\ UNCHANGED <<topics, topicMap, todo, at, notify, file, Ephemeral,
                     acked, setter, failed, doubled>>
  BY DEF Exit, Locked
<1>2. Types' /\ LockInv /\ OtherTypes  BY ExitTypes DEF Inv, Types
<1>3. todo = {} /\ \A b \in Actor : ~job[b].on  BY <1>1, Unlocked
<1>4. \A b \in Actor : b # "exit" => job'[b] = job[b]
  BY <1>1, <1>2 DEF OtherTypes
<1>5. LockInv'
  BY <1>1, <1>2, <1>3, <1>4, Constants DEF LockInv
<1>6. FileInv' /\ MapInv' /\ PauseInv' /\ MetaInv'
  <2>1. /\ phase # "down" /\ phase' # "down" /\ (phase' # "up" \/ phase = "up")
        /\ "exit" \in Actor /\ \A b \in Actor : at'[b] = at[b]
    BY <1>1, Constants
  <2> QED  BY <1>1, <1>2, <1>3, <1>5, <2>1, NewJobInv
<1> QED  BY <1>2, <1>5, <1>6 DEF Inv

LEMMA PersistPausedInv ==
    ASSUME Inv, NEW a \in Actor, PersistPaused(a)
    PROVE  Inv'
<1>1. /\ at[a].pc = "persist" /\ lock = Nil /\ lock' = a /\ Goto(a, "persisting")
      /\ job' = [job EXCEPT ![a] = NewJob]
      /\ UNCHANGED <<phase, topics, topicMap, todo, notify, file, Ephemeral,
                     acked, setter, failed, doubled>>
  BY DEF PersistPaused, Locked
<1>2. Types' /\ LockInv /\ OtherTypes /\ HandTypes  BY PersistPausedTypes DEF Inv, Types
<1>3. PICK r \in CallRecord :
        /\ at' = [at EXCEPT ![a] = r] /\ r.pc = "persisting" /\ r.name = at[a].name
        /\ r.topic = at[a].topic /\ r.key = at[a].key /\ r.val = at[a].val
  BY <1>1, <1>2, GotoFacts DEF PC
<1>4. \A b \in Actor : /\ b # a => job'[b] = job[b] /\ at'[b] = at[b]
                       /\ b = a => at'[b] = r /\ job'[b].on
  BY <1>1, <1>2, <1>3, NewJobFacts DEF OtherTypes
<1>5. phase \notin {"load", "down"} /\ a \in Req
  BY <1>1, <1>2 DEF LockInv, HandTypes
<1>6. todo = {} /\ \A b \in Actor : ~job[b].on  BY <1>1, <1>5, Unlocked
<1>7. LockInv'
  BY <1>1, <1>2, <1>3, <1>4, <1>5, <1>6, Constants DEF LockInv
<1>8. \A b \in Actor : \/ at'[b] = at[b]
                       \/ /\ at[b].pc = "persist" /\ at'[b].pc = "persisting"
                          /\ at'[b].name = at[b].name /\ at'[b].key = at[b].key
                          /\ at'[b].val = at[b].val
  BY <1>1, <1>3, <1>4
<1>9. FileInv' /\ MapInv' /\ PauseInv' /\ MetaInv'
  <2>1. phase # "down" /\ phase' # "down" /\ (phase' # "up" \/ phase = "up")
    BY <1>1, <1>5
  <2> QED  BY <1>1, <1>2, <1>6, <1>7, <1>8, <2>1, NewJobInv
<1> QED  BY <1>2, <1>7, <1>9 DEF Inv

LEMMA NotifyExitInv ==
    ASSUME Inv, NotifyExit
    PROVE  Inv'
<1>1. /\ phase = "stopping"
      /\ UNCHANGED <<phase, topics, topicMap, todo, at, job, lock, file, Ephemeral,
                     acked, setter, failed, doubled>>
  BY DEF NotifyExit
<1>2. Types'  BY NotifyExitTypes DEF Inv
<1>3. LockInv' /\ FileInv'
  BY <1>1 DEF Inv, LockInv, FileInv
<1>4. MapInv'  BY <1>1 DEF Inv, MapInv, Deleting
<1>5. PauseInv'  BY <1>1 DEF Inv, PauseInv, Current
<1>6. MetaInv'  BY <1>1 DEF MetaInv
<1> QED  BY <1>2, <1>3, <1>4, <1>5, <1>6 DEF Inv

\* PersistMetadata ends: the file is the snapshot, and what the request had set is
\* answered, or the file is as it was and nothing is.
LEMMA EndedInv ==
    ASSUME Inv, NEW a \in Actor, NEW ok \in BOOLEAN, Ended(a), After(a, ok), Types',
           ok => file' = job[a].snap, ~ok => file' = file /\ failed'
    PROVE  Inv'
<1>1. TopicTypes /\ OtherTypes /\ HandTypes /\ LockInv /\ FileInv  BY DEF Inv, Types
<1>2. /\ job[a].on /\ job[a].todo = {} /\ job' = [job EXCEPT ![a] = NoJob]
      /\ UNCHANGED <<topics, topicMap, todo, notify, Ephemeral, setter, doubled>>
  BY DEF Ended
<1>3. /\ lock' = IF lock = a /\ a # "exit" THEN Nil ELSE lock
      /\ phase' = IF a # "main" THEN phase ELSE IF ok THEN "up" ELSE "down"
  BY DEF After
<1>4. /\ a \in Req => at[a].pc = "persisting" /\ at[a].name \in Name /\ at[a].key \in Key
      /\ a # "deleter"
  BY <1>1, <1>2, CallFacts DEF LockInv
<1> DEFINE r == IF a = "exit" THEN [Idle EXCEPT !.pc = "close"] ELSE Idle
<1>5. r.pc = IF a = "exit" THEN "close" ELSE "idle"
  BY IdleFacts
<1>6. \A b \in Actor : at'[b] = IF b = a THEN r ELSE at[b]
  BY <1>1 DEF After, OtherTypes
<1> HIDE DEF r
<1>7. /\ \A b \in Actor : ~job'[b].on
      /\ \A b \in Actor : b # a => job'[b] = job[b]
      /\ job'[a] = NoJob
  BY <1>1, <1>2, OneJob, IdleFacts DEF OtherTypes
<1>8. a # "main" => lock = a /\ phase \notin {"load", "down"}
  BY <1>1, <1>2, Constants DEF LockInv
<1>9. a = "main" => /\ lock = Nil /\ phase = "load" /\ todo = {} /\ notify = 0
                    /\ \A b \in Actor : at[b].pc = "idle"
  BY <1>1, <1>2 DEF LockInv
<1>10. todo = {}  BY <1>1, <1>8, <1>9 DEF FileInv
<1>11. LockInv'
  <2>1. \A b \in Req : at'[b].pc # "persisting"
    BY <1>1, <1>5, <1>6, <1>7, <1>2, OneJob, Constants DEF LockInv
  <2>2. at'["exit"].pc = "close" => lock' = "exit"
    BY <1>1, <1>3, <1>5, <1>6, <1>8, <1>9, Constants DEF LockInv
  <2>3. phase' \in {"load", "down"} =>
          lock' = Nil /\ notify' = 0 /\ \A b \in Actor : at'[b].pc = "idle"
    BY <1>2, <1>3, <1>5, <1>6, <1>8, <1>9, Constants
  <2> QED  BY <1>7, <2>1, <2>2, <2>3, Constants DEF LockInv
<1>12. FileInv'
  <2>1. \A n \in Name, k \in Key : file'[n][k] # "none" => file'[n][Self] # "none"
    BY <1>1 DEF FileInv
  <2>2. \A n \in Name, k \in Key : NoJob.snap[n][k] = "none"
    BY DEF NoJob
  <2>3. \A b \in Actor, n \in Name, k \in Key :
          job'[b].snap[n][k] # "none" => job'[b].snap[n][Self] # "none"
    BY <1>1, <1>7, <2>2 DEF FileInv
  <2> QED  BY <1>1, <1>2, <1>10, <2>1, <2>3 DEF FileInv
<1>13. MapInv'
  <2>1. SUFFICES ASSUME ~doubled  PROVE MapInv'
    BY <1>2 DEF MapInv
  <2>2. MapInv  BY DEF Inv
  <2>3. \A b \in Actor, n \in Name : Deleting(b, n)' => Deleting(b, n) /\ at'[b] = at[b]
    BY <1>5, <1>6 DEF Deleting
  <2>4. \A b \in Actor : at'[b].pc \in {"wait", "unmap"} => at'[b] = at[b]
    BY <1>5, <1>6
  <2>5. \A b, c \in Actor, n \in Name : Deleting(b, n)' /\ Deleting(c, n)' => b = c
    BY <2>1, <2>2, <2>3 DEF MapInv
  <2>6. \A b \in Actor, n \in Name : Deleting(b, n)' => topicMap'[n] = at'[b].topic
    BY <1>2, <2>1, <2>2, <2>3 DEF MapInv
  <2>7. \A b \in Actor : at'[b].pc \in {"wait", "unmap"} => topics'[at'[b].topic].exiting
    BY <1>2, <2>1, <2>2, <2>4 DEF MapInv
  <2>8. \A t \in 1..Len(topics') : ~topics'[t].exiting => topicMap'[topics'[t].name] = t
    BY <1>2, <2>1, <2>2 DEF MapInv
  <2> QED  BY <2>5, <2>6, <2>7, <2>8 DEF MapInv
<1>14. PauseInv'
  <2>1. SUFFICES ASSUME ~doubled  PROVE PauseInv'
    BY <1>2 DEF PauseInv
  <2>2. PauseInv  BY DEF Inv
  <2>3. \A m \in Name, k \in Key : \A s : Current(m, k, s)' <=> Current(m, k, s)
    BY <1>2 DEF Current
  \* What is answered now, or was before.
  <2>4. \A n \in Name, k \in Key :
          \/ acked'[n][k] = acked[n][k]
          \/ /\ ok /\ a \in Req /\ n = at[a].name /\ k = at[a].key
             /\ setter[n][k] = a /\ acked'[n][k] = at[a].val
    <3>1. CASE a \in Req /\ ok /\ setter[at[a].name][at[a].key] = a
      <4>1. acked' = [acked EXCEPT ![at[a].name][at[a].key] = at[a].val]
        BY <3>1 DEF After
      <4> QED  BY <1>1, <1>4, <3>1, <4>1 DEF OtherTypes, Entries
    <3>2. CASE ~(a \in Req /\ ok /\ setter[at[a].name][at[a].key] = a)
      BY <3>2 DEF After
    <3> QED  BY <3>1, <3>2
  <2>5. ASSUME NEW n \in Name \ Ephemeral, NEW k \in Key \ Ephemeral, acked'[n][k] # "none"
        PROVE  /\ file'[n][k] = acked'[n][k]
               /\ Current(n, k, acked[n][k])'
    <3>1. CASE acked'[n][k] = acked[n][k]
      <4>1. /\ file[n][k] = acked[n][k] /\ job[a].snap[n][k] = acked[n][k]
            /\ Current(n, k, acked[n][k])
        BY <1>2, <1>8, <1>9, <1>10, <2>1, <2>2, <2>5, <3>1 DEF PauseInv
      <4>2. Current(n, k, acked[n][k])'
        BY <1>2, <3>1, <4>1 DEF Current
      <4> QED  BY <3>1, <4>1, <4>2
    <3>2. CASE acked'[n][k] # acked[n][k]
      <4>1. /\ ok /\ a \in Req /\ n = at[a].name /\ k = at[a].key
            /\ setter[n][k] = a /\ acked'[n][k] = at[a].val
        BY <2>4, <3>2
      <4>2. Current(n, k, at[a].val) /\ job[a].snap[n][k] = at[a].val
        BY <1>2, <1>4, <2>1, <2>2, <4>1 DEF PauseInv
      <4>3. Current(n, k, acked[n][k])'
        BY <1>2, <4>1, <4>2 DEF Current
      <4> QED  BY <4>1, <4>2, <4>3
    <3> QED  BY <3>1, <3>2
  <2>6. ASSUME NEW b \in Actor, at'[b].pc \in {"wait", "unmap"}, NEW k \in Key
        PROVE  acked'[at'[b].name][k] = "none" /\ setter'[at'[b].name][k] = Nil
    <3>1. at'[b] = at[b] /\ at[b].name \in Name
      BY <1>1, <1>5, <1>6, <2>6 DEF HandTypes
    <3>2. acked[at[b].name][k] = "none" /\ setter[at[b].name][k] = Nil
      BY <2>1, <2>2, <2>6, <3>1 DEF PauseInv
    <3> QED  BY <1>2, <2>4, <3>1, <3>2, Constants
  <2>7. ASSUME NEW b \in Req, NEW n \in Name \ Ephemeral, NEW k \in Key \ Ephemeral,
               at'[b].pc \in {"persist", "persisting"}, at'[b].name = n, at'[b].key = k,
               setter'[n][k] = b
        PROVE  Current(n, k, at[b].val)'
    <3>1. at'[b] = at[b]  BY <1>5, <1>6, <2>7, Constants
    <3>2. Current(n, k, at[b].val)
      BY <1>2, <2>1, <2>2, <2>7, <3>1 DEF PauseInv
    <3> QED  BY <1>2, <3>1, <3>2 DEF Current
  <2>8. \A b \in Req : ~job'[b].on  BY <1>7, Constants
  <2> QED  BY <1>2, <1>7, <2>5, <2>6, <2>7, <2>8 DEF PauseInv
<1>15. MetaInv'
  <2>1. SUFFICES ASSUME ~Pending', NEW n \in Name \ Ephemeral, topicMap[n] # 0,
                        phase' = "up", ~failed'
                 PROVE  file'[n] = Listed(topics[topicMap[n]])'
    BY <1>2, <1>7 DEF MetaInv
  <2>2. ok /\ file' = job[a].snap  BY <2>1
  <2>3. ~Pending
    BY <1>2, <1>4, <1>5, <1>6, <2>1, Constants DEF Pending
  <2>4. phase \in {"load", "up"}  BY <1>3, <1>9, <2>1
  <2>5. job[a].snap[n] = Listed(topics[topicMap[n]])
    BY <1>2, <2>1, <2>3, <2>4 DEF Inv, MetaInv
  <2>6. Listed(topics[topicMap[n]])' = Listed(topics[topicMap[n]])
    BY <1>2 DEF Listed
  <2> QED  BY <2>2, <2>5, <2>6
<1> QED  BY <1>11, <1>12, <1>13, <1>14, <1>15 DEF Inv

-----------------------------------------------------------------------------
(* The theorems.                                                            *)

LEMMA InitInv ==
    ASSUME Init
    PROVE  Inv
<1>1. /\ Ephemeral \in Ephemerals /\ phase = "load" /\ topics = << >>
      /\ topicMap = [n \in Name |-> 0] /\ todo = {} /\ notify = 0 /\ lock = Nil
      /\ at = [a \in Actor |-> Idle] /\ job = [a \in Actor |-> NoJob] /\ file = NoFile
      /\ acked = [n \in Name |-> [k \in Key |-> "none"]]
      /\ setter = [n \in Name |-> [k \in Key |-> Nil]]
      /\ failed = FALSE /\ doubled = FALSE
  BY DEF Init
<1>2. /\ \A a \in Actor : at[a].pc = "idle" /\ ~job[a].on /\ job[a].snap = NoFile
      /\ at \in [Actor -> CallRecord] /\ job \in [Actor -> JobRecord] /\ file \in Entries
  BY <1>1, IdleFacts
<1>3. topics \in Seq(TopicRecord) /\ Len(topics) = 0
  <2> HIDE DEF TopicRecord
  <2> QED  BY <1>1
<1>4. TopicTypes  BY <1>1, <1>3 DEF TopicTypes
<1>5. /\ Ephemeral \subseteq Name \cup Chan /\ acked \in Entries
      /\ setter \in [Name -> [Key -> Req \cup {Nil}]]
  BY <1>1, NSQDAssumption DEF Entries, Status
<1>6. OtherTypes  BY <1>1, <1>2, <1>5 DEF OtherTypes
<1>7. HandTypes  BY <1>2 DEF HandTypes
<1>8. LockInv  BY <1>1, <1>2, Constants DEF LockInv
<1>9. \A n \in Name, k \in Key : NoFile[n][k] = "none" /\ acked[n][k] = "none"
  BY <1>1 DEF NoFile
<1>10. FileInv  BY <1>1, <1>2, <1>3, <1>9 DEF FileInv
<1>11. MapInv  BY <1>2, <1>3 DEF MapInv, Deleting
<1>12. PauseInv
  <2>1. \A a \in Req : at[a].pc = "idle"  BY <1>2, Constants
  <2> QED  BY <1>2, <1>9, <2>1 DEF PauseInv
<1>13. MetaInv  BY <1>1 DEF MetaInv
<1> QED  BY <1>4, <1>6, <1>7, <1>8, <1>10, <1>11, <1>12, <1>13 DEF Inv, Types

LEMMA StutterInv ==
    ASSUME Inv, UNCHANGED vars
    PROVE  Inv'
<1>1. UNCHANGED <<phase, topics, topicMap, todo, at, job, notify, lock, file, Ephemeral,
                  acked, setter, failed, doubled>>
  BY DEF vars
<1>2. Types'  BY <1>1 DEF Inv, Types, TopicTypes, OtherTypes, HandTypes
<1>3. LockInv' /\ FileInv'  BY <1>1 DEF Inv, LockInv, FileInv
<1>4. MapInv'  BY <1>1 DEF Inv, MapInv, Deleting
<1>5. PauseInv'  BY <1>1 DEF Inv, PauseInv, Current
<1>6. MetaInv'  BY <1>1 DEF Inv, MetaInv, Pending, Listed
<1> QED  BY <1>2, <1>3, <1>4, <1>5, <1>6 DEF Inv

LEMMA NextInv ==
    ASSUME Inv, [Next]_vars
    PROVE  Inv'
<1>0. Types /\ LockInv  BY DEF Inv
<1>1. CASE Main  BY <1>1, MainInv
<1>2. CASE NotifyPersist  BY <1>2, NotifyPersistInv
<1>3. ASSUME NEW n \in Name, LoadTopic(n)  PROVE Inv'
  BY <1>3, LoadTopicInv
<1>4. ASSUME NEW a \in Actor, NEW n \in Name, Visit(a, n)  PROVE Inv'
  BY <1>4, VisitInv
<1>5. ASSUME NEW a \in Actor, Rename(a)  PROVE Inv'
  BY <1>0, <1>5, RenameFacts, EndedInv
<1>6. ASSUME NEW a \in Actor, PersistError(a)  PROVE Inv'
  BY <1>0, <1>6, PersistErrorFacts, EndedInv
<1>7. ASSUME NEW a \in Actor, CreateTopic(a)  PROVE Inv'
  BY <1>7, CreateTopicInv
<1>8. ASSUME NEW a \in Actor, PreCreate(a)  PROVE Inv'
  BY <1>8, PreCreateWorks, WorksInv
<1>9. ASSUME NEW a \in Actor, GetChannel(a)  PROVE Inv'
  BY <1>9, GetChannelWorks, WorksInv
<1>10. ASSUME NEW a \in Actor, DeleteExistingChannel(a)  PROVE Inv'
  BY <1>10, DeleteExistingChannelWorks, WorksInv
<1>11. ASSUME NEW a \in Actor, SetPaused(a)  PROVE Inv'
  BY <1>11, SetPausedWorks, WorksInv
<1>12. ASSUME NEW a \in Actor, PersistPaused(a)  PROVE Inv'
  BY <1>12, PersistPausedInv
<1>13. ASSUME NEW a \in Actor, DeleteTopic(a)  PROVE Inv'
  BY <1>13, DeleteTopicWorks, WorksInv
<1>14. ASSUME NEW a \in Actor, Unmap(a)  PROVE Inv'
  BY <1>14, UnmapInv
<1>15. ASSUME NEW a \in Actor, DeleteChannels(a)  PROVE Inv'
  BY <1>15, DeleteChannelsWorks, WorksInv
<1>16. ASSUME NEW a \in Req, Request(a)  PROVE Inv'
  BY <1>16, RequestAsks, AskedInv
<1>17. ASSUME NEW t \in DOMAIN topics, DeleteCallback(t)  PROVE Inv'
  BY <1>17, DeleteCallbackAsks, AskedInv
<1>18. CASE NotifyExit  BY <1>18, NotifyExitInv
<1>19. CASE Exit  BY <1>19, ExitInv
<1>20. CASE CloseTopics  BY <1>20, CloseTopicsInv
<1>21. CASE Bye \/ Crash  BY <1>21, DieInv DEF Bye, Crash
<1>22. CASE Restart  BY <1>22, RestartInv
<1>23. CASE UNCHANGED vars  BY <1>23, StutterInv
<1>24. ASSUME NEW a \in Actor, Persisting(a) \/ Handle(a)  PROVE Inv'
  BY <1>4, <1>5, <1>6, <1>7, <1>8, <1>9, <1>10, <1>11, <1>12, <1>13, <1>14, <1>24
     DEF Persisting, Handle
<1>25. CASE Goroutines
  BY <1>1, <1>2, <1>3, <1>24, <1>25 DEF Goroutines, Loop
<1> QED
  BY <1>15, <1>16, <1>17, <1>18, <1>19, <1>20, <1>21, <1>22, <1>23, <1>25 DEF Next

\* The inductive invariant of nsqd's topic map, lock, metadata file and restarts holds
\* in every reachable state.
THEOREM NSQDInvariant == Spec => []Inv
<1>1. Init => Inv  BY InitInv
<1>2. Inv /\ [Next]_vars => Inv'  BY NextInv
<1> QED  BY <1>1, <1>2, PTL DEF Spec

\* The state of nsqd keeps its types, and PersistMetadata is only ever run by the one
\* that holds the write lock of n, or by main() before anybody else runs.
THEOREM TypeCorrect == Spec => []TypeOK
<1>1. Inv => TypeOK
  <2>1. SUFFICES ASSUME Inv  PROVE TypeOK
    OBVIOUS
  <2>2. TopicTypes /\ OtherTypes /\ LockInv  BY <2>1 DEF Inv, Types
  <2>3. /\ Len(topics) \in Nat /\ DOMAIN topics = 1..Len(topics)
        /\ \A t \in 1..Len(topics) :
              topics[t].name \in Name /\ topics[t].status \in [Key -> Status]
        /\ topicMap \in [Name -> Nat]
        /\ \A n \in Name : topicMap[n] # 0 => topicMap[n] \in 1..Len(topics)
    BY <2>2, TopicFacts
  <2>4. topicMap \in [Name -> 0..Len(topics)]
    BY <2>3
  <2> QED  BY <2>2, <2>3, <2>4 DEF TypeOK, OtherTypes, LockInv
<1> QED  BY <1>1, NSQDInvariant, PTL

\* GetTopic and DeleteExistingTopic keep one topic of each name: a topic that is not
\* being deleted is the one topicMap has, however requests interleave, unless two
\* deletions of one name overlapped.
THEOREM OneTopicPerName == Spec => []NoOrphan
<1>1. Inv => NoOrphan
  <2>1. SUFFICES ASSUME Inv, ~doubled, NEW t \in DOMAIN topics, ~topics[t].exiting
                 PROVE  topicMap[topics[t].name] = t
    BY DEF NoOrphan
  <2>2. t \in 1..Len(topics)  BY <2>1, TopicFacts DEF Inv, Types
  <2> QED  BY <2>1, <2>2 DEF Inv, MapInv
<1> QED  BY <1>1, NSQDInvariant, PTL

\* A pause that was answered after its own write of nsqd.dat succeeded (the handler
\* answers 200 in either case) is in the file from then on, through every crash,
\* restart, concurrent request and later failed write, unless deletions of one name
\* overlapped: the lock orders the snapshots of PersistMetadata.
THEOREM AnsweredPauseSurvives == Spec => []PauseSurvives
<1>1. Inv => PauseSurvives
  BY DEF Inv, PauseInv, PauseSurvives
<1> QED  BY <1>1, NSQDInvariant, PTL

\* Once every request and every notification has been served, nsqd.dat says of each
\* topic what is true of it, even after deletions that overlapped.
THEOREM FileCatchesUp == Spec => []MetaSettled
<1>1. Inv => MetaSettled
  <2>1. SUFFICES ASSUME Inv, Quiet, ~failed, NEW n \in Name \ Ephemeral, topicMap[n] # 0
                 PROVE  file[n] = Listed(topics[topicMap[n]])
    BY DEF MetaSettled
  <2>2. phase = "up" /\ lock = Nil /\ notify = 0 /\ \A a \in Actor : at[a].pc = "idle"
    BY <2>1 DEF Quiet
  <2>3. \A a \in Actor : ~job[a].on  BY <2>1, <2>2, Unlocked
  <2>4. ~Pending  BY <2>2, Constants DEF Pending
  <2> QED  BY <2>1, <2>2, <2>3, <2>4 DEF Inv, MetaInv
<1> QED  BY <1>1, NSQDInvariant, PTL
=============================================================================
