-------------------------------- MODULE NSQD --------------------------------
(***************************************************************************)
(* The nsqd process around its topics (nsqd/nsqd.go, the administrative    *)
(* handlers of nsqd/http.go, apps/nsqd/main.go): topicMap and its lock,    *)
(* the metadata file that PersistMetadata writes and LoadMetadata reads,   *)
(* the goroutines of Notify, the ordered shutdown, and a crash at any      *)
(* moment followed by a restart.                                           *)
(*                                                                         *)
(* A topic is an object: a name that is deleted and created again is a     *)
(* second object.  Its state and that of its channels are one function     *)
(* over Key: the key Self stands for the topic itself.                     *)
(***************************************************************************)
EXTENDS Integers, FiniteSets, Sequences

CONSTANTS
    Name,           \* topic names
    Chan,           \* channel names
    Self,           \* the key of the topic itself
    Ephemerals,     \* which sets of names and channels to take as #ephemeral
    LookupChans,    \* channels some nsqlookupd may know for a new topic
    Req,            \* requests being served at the same time
    Nil,
    MaxTopics,      \* bound: topics created in one life of the process
    MaxReqs,        \* bound: requests, in a run
    MaxFails,       \* bound: failed writes of the metadata file, in a run
    MaxRestarts     \* bound

ASSUME NSQDAssumption ==
    /\ IsFiniteSet(Chan)
    /\ Self \notin Name \cup Chan
    /\ {"notify", "deleter", "main", "exit"} \cap Req = {}
    /\ Nil \notin Req \cup {"notify", "deleter", "main", "exit"}
    /\ Ephemerals \subseteq SUBSET (Name \cup Chan)
    /\ LookupChans \subseteq Chan
    /\ {MaxTopics, MaxReqs, MaxFails, MaxRestarts} \subseteq Nat

Key == Chan \cup {Self}
Status == {"none", "run", "paused"}
Entries == [Name -> [Key -> Status]]

\* Everything that calls PersistMetadata or DeleteExistingTopic: requests, the
\* goroutine of Notify that has the lock, the deleter of an ephemeral topic,
\* Start() in main.go and Exit().
Actor == Req \cup {"notify", "deleter", "main", "exit"}

VARIABLES
    Ephemeral,      \* names and channels that end in #ephemeral
    phase,          \* "down", "load", "up", "closing", "stopping"
    lock,           \* who holds the write lock of n, or Nil
    topics,         \* the topic objects of this life of the process
    topicMap,       \* name -> index of its object, 0 when there is none
    file,           \* nsqd.dat, as the entries it lists
    todo,           \* LoadMetadata: names of the file still to be created
    at,             \* per actor: pc, and what the call has in hand
    job,            \* per actor: names still to visit, and the entries so far
    notify,         \* goroutines of Notify waiting to send on notifyChan
    reqs, fails, restarts,  \* so far, for the bounds
    acked,          \* history: last answered pause or unpause of a key
    setter,         \* history: the request that last set a key
    failed,         \* history: the last write of the file failed
    doubled         \* history: two deletions of one name overlapped

volatile == <<topics, topicMap, todo, at, job, notify, lock>>
history == <<acked, setter, failed, doubled>>
bounds == <<fails, restarts, Ephemeral>>
vars == <<phase, volatile, file, reqs, bounds, history>>

\* A plausible bug, for mutation: persist is captured the wrong way round.
Mut_Notify(k) == UNCHANGED notify

\* k calls of Notify outside LoadMetadata: as many goroutines that will persist.
Notify(k) == notify' = notify + k

Idle == [pc |-> "idle", name |-> Nil, topic |-> 0, key |-> Nil, val |-> "run"]
NoJob == [on |-> FALSE, todo |-> {}, snap |-> [n \in Name |-> [k \in Key |-> "none"]]]
NoFile == [n \in Name |-> [k \in Key |-> "none"]]

\* What a process that has just started has in memory.
Fresh ==
    /\ topics' = << >>
    /\ topicMap' = [n \in Name |-> 0]
    /\ at' = [a \in Actor |-> Idle]
    /\ job' = [a \in Actor |-> NoJob]
    /\ notify' = 0
    /\ lock' = Nil

Init ==
    /\ Ephemeral \in Ephemerals
    /\ phase = "load"
    /\ topics = << >>
    /\ topicMap = [n \in Name |-> 0]
    /\ todo = {}
    /\ at = [a \in Actor |-> Idle]
    /\ job = [a \in Actor |-> NoJob]
    /\ notify = 0
    /\ lock = Nil
    /\ file = NoFile
    /\ reqs = 0 /\ fails = 0 /\ restarts = 0
    /\ acked = [n \in Name |-> [k \in Key |-> "none"]]
    /\ setter = [n \in Name |-> [k \in Key |-> Nil]]
    /\ failed = FALSE /\ doubled = FALSE

Serving == phase \in {"up", "closing", "stopping"}
Goto(a, pc) == at' = [at EXCEPT ![a].pc = pc]
Return(a) == at' = [at EXCEPT ![a] = Idle]

-----------------------------------------------------------------------------
(* PersistMetadata: one visit per topic of topicMap, then the temporary     *)
(* file is written, synced and renamed over nsqd.dat, or nothing changes.   *)

Listed(t) ==
    [k \in Key |-> IF k \in Ephemeral THEN "none" ELSE t.status[k]]

NewJob == [on |-> TRUE, snap |-> NoFile,
           todo |-> {n \in Name \ Ephemeral : topicMap[n] # 0}]

Visit(a, n) ==
    /\ n \in job[a].todo
    /\ job' = [job EXCEPT ![a].todo = @ \ {n},
                          ![a].snap[n] = IF topicMap[n] = 0 THEN @
                                         ELSE Listed(topics[topicMap[n]])]
    /\ UNCHANGED <<phase, topics, topicMap, todo, at, notify, lock, file,
                   reqs, bounds, history>>

\* What follows the call of PersistMetadata.
After(a, ok) ==
    /\ lock' = IF lock = a /\ a # "exit" THEN Nil ELSE lock
    /\ at' = [at EXCEPT ![a] = IF a = "exit" THEN [Idle EXCEPT !.pc = "close"] ELSE Idle]
    /\ acked' = IF a \in Req /\ ok /\ setter[at[a].name][at[a].key] = a
                THEN [acked EXCEPT ![at[a].name][at[a].key] = at[a].val] ELSE acked
    /\ phase' = IF a # "main" THEN phase ELSE IF ok THEN "up" ELSE "down"

Rename(a) ==
    /\ job[a].on /\ job[a].todo = {}
    /\ file' = job[a].snap
    /\ failed' = FALSE
    /\ After(a, TRUE)
    /\ job' = [job EXCEPT ![a] = NoJob]
    /\ UNCHANGED <<topics, topicMap, todo, notify, reqs, bounds, setter, doubled>>

PersistError(a) ==
    /\ fails < MaxFails /\ fails' = fails + 1
    /\ job[a].on /\ job[a].todo = {}
    /\ failed' = TRUE
    /\ After(a, FALSE)
    /\ job' = [job EXCEPT ![a] = NoJob]
    /\ UNCHANGED <<topics, topicMap, todo, notify, file, reqs, restarts,
                   Ephemeral, setter, doubled>>

-----------------------------------------------------------------------------
(* Start() in main.go: LoadMetadata, PersistMetadata, then Main().  The     *)
(* Notify goroutines of this phase do not persist and are left out.         *)

NewTopic(n, status, started) ==
    [name |-> n, status |-> status, exiting |-> FALSE, started |-> started, deleter |-> "no"]

\* LoadMetadata makes a topic of an entry: created, paused, with its channels.
LoadTopic(n) ==
    /\ phase = "load"
    /\ n \in todo
    /\ topics' = Append(topics, NewTopic(n, file[n], TRUE))
    /\ topicMap' = [topicMap EXCEPT ![n] = Len(topics) + 1]
    /\ todo' = todo \ {n}
    /\ UNCHANGED <<phase, at, job, notify, lock, file, reqs, bounds, history>>

Main ==
    /\ phase = "load"
    /\ todo = {} /\ ~job["main"].on
    /\ job' = [job EXCEPT !["main"] = NewJob]
    /\ UNCHANGED <<phase, topics, topicMap, todo, at, notify, lock, file,
                   reqs, bounds, history>>

-----------------------------------------------------------------------------
(* Requests.  A request looks its topic up under the read lock, which it    *)
(* cannot take while another holds the write lock.                          *)

Begin(a, rec) ==
    /\ Serving /\ lock = Nil
    /\ at[a].pc = "idle" /\ reqs < MaxReqs
    /\ reqs' = reqs + 1
    /\ at' = [at EXCEPT ![a] = rec]

\* GetTopic (/topic/create, PUB, SUB): the read lock, when there is no such topic.
GetTopic(a, n) ==
    /\ topicMap[n] = 0
    /\ Begin(a, [Idle EXCEPT !.pc = "create", !.name = n])
    /\ UNCHANGED <<phase, topics, topicMap, todo, job, notify, lock, file,
                   bounds, history>>

\* A plausible bug, for mutation: no second look under the write lock.
Mut_MustCreate(n) == TRUE

\* The second look, under the write lock.
MustCreate(n) == topicMap[n] = 0

CreateTopic(a) ==
    /\ at[a].pc = "create" /\ lock = Nil
    /\ \/ /\ ~MustCreate(at[a].name)
          /\ Return(a)
          /\ UNCHANGED <<topics, topicMap, notify>>
       \/ /\ MustCreate(at[a].name)
          /\ Len(topics) < MaxTopics
          /\ topics' = Append(topics, NewTopic(at[a].name,
                                [k \in Key |-> IF k = Self THEN "run" ELSE "none"], FALSE))
          /\ topicMap' = [topicMap EXCEPT ![at[a].name] = Len(topics) + 1]
          /\ Notify(1)
          /\ at' = [at EXCEPT ![a].pc = "query", ![a].topic = Len(topics) + 1]
    /\ UNCHANGED <<phase, todo, job, lock, file, reqs, bounds, history>>

\* A plausible bug, for mutation: an empty answer ends GetTopic early.
Mut_Started(names) == names # {}

\* Whether GetTopic reaches Start() after the query: always.
Started(names) == TRUE

\* The channels the nsqlookupds name, if they answer, then Start().
PreCreate(a) ==
    /\ at[a].pc = "query"
    /\ \E new \in SUBSET (LookupChans \ Ephemeral) :
          LET t == at[a].topic
              made == {c \in new : topics[t].status[c] = "none"}
          IN /\ topics' = [topics EXCEPT ![t].started = Started(new),
                             ![t].status = [k \in Key |-> IF k \in made THEN "run" ELSE @[k]]]
             /\ Notify(Cardinality(made))
    /\ Return(a)
    /\ UNCHANGED <<phase, topicMap, todo, job, lock, file, reqs, bounds, history>>

GetExistingTopic(n) == topicMap[n]

\* A request on an existing topic, and maybe one of its channels.
Find(a, n, pc, k, val) ==
    /\ GetExistingTopic(n) # 0
    /\ Begin(a, [pc |-> pc, name |-> n, topic |-> GetExistingTopic(n), key |-> k, val |-> val])
    /\ UNCHANGED <<phase, topics, topicMap, todo, job, notify, lock, file,
                   bounds>>

doCreateChannel(a, n, c) == Find(a, n, "getChannel", c, "run") /\ UNCHANGED history

GetChannel(a) ==
    /\ at[a].pc = "getChannel"
    /\ LET t == at[a].topic
           new == topics[t].status[at[a].key] = "none"
       IN /\ topics' = IF new THEN [topics EXCEPT ![t].status[at[a].key] = "run"] ELSE topics
          /\ Notify(IF new THEN 1 ELSE 0)
    /\ Return(a)
    /\ UNCHANGED <<phase, topicMap, todo, job, lock, file, reqs, bounds, history>>

doDeleteChannel(a, n, c) == Find(a, n, "delChannel", c, "run") /\ UNCHANGED history

\* An answered pause is forgotten once its subject is deleted.
Forget(n, ks) ==
    /\ acked' = [acked EXCEPT ![n] = [k \in Key |-> IF k \in ks THEN "none" ELSE @[k]]]
    /\ setter' = [setter EXCEPT ![n] = [k \in Key |-> IF k \in ks THEN Nil ELSE @[k]]]

\* The last channel of an ephemeral topic takes the topic with it.
DeleteExistingChannel(a) ==
    /\ at[a].pc = "delChannel"
    /\ LET t == at[a].topic
           k == at[a].key
           left == {c \in Chan \ {k} : topics[t].status[c] # "none"}
           last == left = {} /\ topics[t].name \in Ephemeral /\ topics[t].deleter = "no"
       IN IF topics[t].status[k] = "none"
          THEN UNCHANGED <<topics, notify, acked, setter>>
          ELSE /\ topics' = [topics EXCEPT ![t].status[k] = "none",
                                           ![t].deleter = IF last THEN "due" ELSE @]
               /\ Notify(1)
               /\ Forget(topics[t].name, {k})
    /\ Return(a)
    /\ UNCHANGED <<phase, topicMap, todo, job, lock, file, reqs, bounds,
                   failed, doubled>>

\* doPauseTopic (key Self) and doPauseChannel: set the flag, then persist.
doPause(a, n, k, val) == Find(a, n, "pause", k, val) /\ UNCHANGED history

SetPaused(a) ==
    /\ at[a].pc = "pause"
    /\ LET t == at[a].topic
           n == at[a].name
       IN IF topics[t].status[at[a].key] = "none"
          THEN Return(a) /\ UNCHANGED <<topics, acked, setter>>
          ELSE /\ topics' = [topics EXCEPT ![t].status[at[a].key] = at[a].val]
               /\ Goto(a, "persist")
               /\ acked' = [acked EXCEPT ![n][at[a].key] = "none"]
               /\ setter' = [setter EXCEPT ![n][at[a].key] =
                               IF topicMap[n] = t /\ ~topics[t].exiting THEN a ELSE Nil]
    /\ UNCHANGED <<phase, topicMap, todo, job, notify, lock, file, reqs,
                   bounds, failed, doubled>>

\* A plausible bug, for mutation: PersistMetadata without the lock.
Mut_Locked(a) == lock' = lock

\* n.Lock(), held until PersistMetadata returns.
Locked(a) == lock = Nil /\ lock' = a

PersistPaused(a) ==
    /\ at[a].pc = "persist"
    /\ Locked(a)
    /\ Goto(a, "persisting")
    /\ job' = [job EXCEPT ![a] = NewJob]
    /\ UNCHANGED <<phase, topics, topicMap, todo, notify, file, reqs,
                   bounds, history>>

-----------------------------------------------------------------------------
(* DeleteExistingTopic: it finds the topic, deletes it with no lock held,   *)
(* then removes whatever has that name from topicMap.                       *)

Deleting(a, n) == at[a].pc \in {"delTopic", "wait", "unmap"} /\ at[a].name = n

doDeleteTopic(a, n) ==
    /\ Find(a, n, "delTopic", Self, "run")
    /\ doubled' = (doubled \/ \E b \in Actor : Deleting(b, n))
    /\ UNCHANGED <<acked, setter, failed>>

\* deleteCallback of an ephemeral topic, in a goroutine of its own.
DeleteCallback(t) ==
    LET n == topics[t].name
    IN /\ Serving /\ lock = Nil
       /\ topics[t].deleter = "due" /\ at["deleter"].pc = "idle"
       /\ topics' = [topics EXCEPT ![t].deleter = "done"]
       /\ at' = IF topicMap[n] = 0 THEN at
                ELSE [at EXCEPT !["deleter"] =
                        [pc |-> "delTopic", name |-> n, topic |-> topicMap[n],
                         key |-> Self, val |-> "run"]]
       /\ doubled' = (doubled \/ \E b \in Actor : Deleting(b, n))
       /\ UNCHANGED <<phase, topicMap, todo, job, notify, lock, file, reqs,
                      bounds, acked, setter, failed>>

\* topic.Delete(): only the first to set exitFlag goes on; the error of the
\* others is ignored.
DeleteTopic(a) ==
    /\ at[a].pc = "delTopic"
    /\ LET t == at[a].topic
       IN IF topics[t].exiting
          THEN Goto(a, "unmap") /\ UNCHANGED <<topics, notify>>
          ELSE /\ topics' = [topics EXCEPT ![t].exiting = TRUE]
               /\ Notify(1)
               /\ Goto(a, "wait")
    /\ Forget(at[a].name, Key)
    /\ UNCHANGED <<phase, topicMap, todo, job, lock, file, reqs, bounds,
                   failed, doubled>>

\* Once the topic's goroutines have stopped, which they may never do (Topic).
DeleteChannels(a) ==
    /\ at[a].pc = "wait"
    /\ LET t == at[a].topic
           cs == {c \in Chan : topics[t].status[c] # "none"}
       IN /\ topics' = [topics EXCEPT ![t].status =
                          [k \in Key |-> IF k = Self THEN @[k] ELSE "none"]]
          /\ Notify(Cardinality(cs))
    /\ Goto(a, "unmap")
    /\ UNCHANGED <<phase, topicMap, todo, job, lock, file, reqs, bounds, history>>

Unmap(a) ==
    /\ at[a].pc = "unmap" /\ lock = Nil
    /\ topicMap' = [topicMap EXCEPT ![at[a].name] = 0]
    /\ Return(a)
    /\ UNCHANGED <<phase, topics, todo, job, notify, lock, file, reqs,
                   bounds, history>>

-----------------------------------------------------------------------------
(* Notify: lookupLoop takes the value, then the goroutine waits for the      *)
(* lock and persists.  Nothing tells the two waits apart but exitChan.       *)

NotifyPersist ==
    /\ Serving
    /\ notify > 0
    /\ Locked("notify")
    /\ notify' = notify - 1
    /\ job' = [job EXCEPT !["notify"] = NewJob]
    /\ UNCHANGED <<phase, topics, topicMap, todo, at, file, reqs, bounds, history>>

NotifyExit ==
    /\ phase = "stopping"
    /\ notify > 0
    /\ notify' = notify - 1
    /\ UNCHANGED <<phase, topics, topicMap, todo, at, job, lock, file, reqs,
                   bounds, history>>

-----------------------------------------------------------------------------
(* Exit: the listeners are closed but open connections are still served.    *)

Exit ==
    /\ phase = "up"
    /\ Locked("exit")
    /\ phase' = "closing"
    /\ job' = [job EXCEPT !["exit"] = NewJob]
    /\ UNCHANGED <<topics, topicMap, todo, at, notify, file, reqs, bounds, history>>

\* Every topic is closed under the lock; a Close() may never return (Topic).
CloseTopics ==
    /\ at["exit"].pc = "close"
    /\ topics' = [t \in DOMAIN topics |->
                    IF topicMap[topics[t].name] = t
                    THEN [topics[t] EXCEPT !.exiting = TRUE] ELSE topics[t]]
    /\ lock' = Nil
    /\ phase' = "stopping"
    /\ Return("exit")
    /\ UNCHANGED <<topicMap, todo, job, notify, file, reqs, bounds, history>>

\* The process ends: when it is done, or at any moment.
Die ==
    /\ phase # "down"
    /\ phase' = "down"
    /\ Fresh
    /\ todo' = {}
    /\ setter' = [n \in Name |-> [k \in Key |-> Nil]]
    /\ UNCHANGED <<file, reqs, bounds, acked, failed, doubled>>

Bye == phase = "stopping" /\ notify = 0 /\ ~job["notify"].on /\ Die

Crash == restarts < MaxRestarts /\ Die

\* A life in which deletions overlapped may have lost a pause (PauseSurvives): the
\* history starts again after it.
Restart ==
    /\ phase = "down" /\ restarts < MaxRestarts
    /\ restarts' = restarts + 1
    /\ phase' = "load"
    /\ todo' = {n \in Name : file[n][Self] # "none"}
    /\ Fresh
    /\ doubled' = FALSE
    /\ acked' = IF doubled THEN [n \in Name |-> [k \in Key |-> "none"]] ELSE acked
    /\ UNCHANGED <<file, reqs, fails, Ephemeral, setter, failed>>

-----------------------------------------------------------------------------
Persisting(a) == (\E n \in Name : Visit(a, n)) \/ Rename(a) \/ PersistError(a)

Request(a) ==
    \/ \E n \in Name : GetTopic(a, n) \/ doDeleteTopic(a, n)
    \/ \E n \in Name, c \in Chan : doCreateChannel(a, n, c) \/ doDeleteChannel(a, n, c)
    \/ \E n \in Name, k \in Key, v \in {"run", "paused"} : doPause(a, n, k, v)

\* The steps of a request that depend on nothing but the lock.
Handle(a) ==
    \/ CreateTopic(a) \/ PreCreate(a) \/ GetChannel(a) \/ DeleteExistingChannel(a)
    \/ SetPaused(a) \/ PersistPaused(a) \/ DeleteTopic(a) \/ Unmap(a)

Loop == Main \/ NotifyPersist \/ \E n \in Name : LoadTopic(n)

Goroutines == Loop \/ \E a \in Actor : Persisting(a) \/ Handle(a)

Next ==
    \/ Goroutines
    \/ \E a \in Actor : DeleteChannels(a)
    \/ \E a \in Req : Request(a)
    \/ \E t \in DOMAIN topics : DeleteCallback(t)
    \/ NotifyExit
    \/ Exit \/ CloseTopics \/ Bye \/ Crash \/ Restart

Spec == Init /\ [][Next]_vars

\* Goroutines that can go on do: each of these steps uses up a part of a finite
\* amount of work, so that one of them always running is enough.  A request comes
\* when it likes, and a topic's exit may hang: DeleteChannels and CloseTopics are
\* not fair.
FairSpec == Spec /\ WF_vars(Goroutines)

-----------------------------------------------------------------------------
\* Types, and who may hold the lock: the lock of n is held exactly by the one
\* that is persisting, or by Exit() while it closes the topics.
TypeOK ==
    /\ phase \in {"down", "load", "up", "closing", "stopping"}
    /\ lock \in Actor \cup {Nil}
    /\ \A t \in DOMAIN topics : topics[t].name \in Name /\ topics[t].status \in [Key -> Status]
    /\ topicMap \in [Name -> 0..Len(topics)]
    /\ file \in Entries
    /\ notify \in Nat
    /\ \A a \in Actor \ {"main"} : job[a].on => lock = a

\* A pause or unpause that was answered, its file written, is what the file says
\* from then on, whatever crashes: "nsqd won't suddenly (un)pause a topic".
\* No older snapshot overtakes it.  (Overlapping deletions of one name can take a
\* new topic out of topicMap, and then the file loses it: see NoOrphan.)
PauseSurvives ==
    doubled \/ \A n \in Name, k \in Key \ Ephemeral :
                  (n \notin Ephemeral /\ acked[n][k] # "none") => file[n][k] = acked[n][k]

\* A topic that is not being deleted is the one topicMap has under its name:
\* GetTopic never makes two, and a deletion does not take away a topic that it
\* did not delete.  Two deletions of one name that overlap do: the second ignores
\* the error of topic.Delete() and clears the name, a new topic takes it, and the
\* first deletion clears it again; hence the condition.
NoOrphan ==
    doubled \/ \A t \in DOMAIN topics : ~topics[t].exiting => topicMap[topics[t].name] = t

Quiet ==
    /\ phase = "up" /\ lock = Nil
    /\ notify = 0
    /\ \A a \in Actor : at[a].pc = "idle"
    /\ \A t \in DOMAIN topics : topics[t].deleter # "due"

\* When every request has been served and every notification handled, the file
\* describes each topic of the map exactly: its channels and what is paused.
\* (It may still list a deleted topic: nothing persists after the map has lost it.)
MetaSettled ==
    (Quiet /\ ~failed) =>
        \A n \in Name \ Ephemeral : topicMap[n] # 0 => file[n] = Listed(topics[topicMap[n]])

\* A topic that was created is started and, if it is not ephemeral, gets into the
\* file, unless it is deleted, the write fails or the process goes down.
CreatedSettles ==
    \A n \in Name :
        (phase = "up" /\ topicMap[n] # 0)
          ~> \/ phase # "up" \/ failed
             \/ topicMap[n] = 0
             \/ topics[topicMap[n]].exiting
             \/ topics[topicMap[n]].started /\ (n \in Ephemeral \/ file[n][Self] # "none")
=============================================================================
