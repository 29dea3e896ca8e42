------------------------------- MODULE Lookup -------------------------------
(***************************************************************************)
(* Service discovery: the lookup loop of every nsqd (nsqd/lookup.go,       *)
(* nsqd/lookup_peer.go) and one nsqlookupd (nsqlookupd/): its registration *)
(* database, its TCP protocol and its HTTP API.                            *)
(*                                                                         *)
(* There is one topic, with channels.  A node's topic and channels are     *)
(* objects: one that is deleted and created again is a second one.  Every  *)
(* method of RegistrationDB locks once, so a command of the TCP protocol   *)
(* or of the HTTP API is a program of such calls, and those of different   *)
(* connections interleave.  Every connection has an id of its own (the     *)
(* remote address).  Names are valid and messages well formed.             *)
(***************************************************************************)
EXTENDS Integers, FiniteSets, Sequences, SequencesExt

CONSTANTS
    Node,           \* the nsqds
    T,              \* the topic
    Chan,           \* its channels
    Ephemeral,      \* which of them end in #ephemeral
    Http,           \* the HTTP requests nsqlookupd may get, see Request
    MaxMade,        \* bound: times a node creates the topic, or one channel
    MaxEvents,      \* bound: operations on topics, HTTP requests and breaks, in a run
    MaxBreaks,      \* bound: lost connections, restarts and reconfigurations
    MaxConns        \* bound: connections, in a run

ASSUME LookupAssumption ==
    /\ IsFiniteSet(Chan)
    /\ T \notin Chan /\ "client" \notin Chan \cup {T}
    /\ Ephemeral \subseteq Chan \cup {T}
    /\ Http \subseteq {"create", "createChannel", "delete", "deleteChannel", "tombstone"}
    /\ {MaxMade, MaxEvents, MaxBreaks, MaxConns} \subseteq Nat

Item == Chan \cup {T}
Key == Item \cup {"client"}         \* the registrations of the database
Conn == 1..MaxConns
HTTP == 0                           \* the HTTP server, as one more connection

VARIABLES
    has,            \* node -> item -> its object in the maps, 0 if none
    made,           \* node -> item -> objects made so far
    exiting,        \* <<node, item, object>> with exitFlag set
    pend,           \* goroutines of Notify: <<node, item, object, "new" or "del">>
    wanted,         \* nodes that have nsqlookupd among their addresses
    opts,           \* nodes with a value in optsNotificationChan
    peers,          \* nodes whose loop has a lookupPeer
    loop,           \* per node: conn (0: disconnected), commands to send, sent
    owner,          \* connection -> its node
    cut,            \* connections closed or lost on the node's side
    srv,            \* per connection, and HTTP: IOLoop's pc, calls still to make
    keys,           \* registrationMap: its keys
    prod,           \* registrationMap: <<key, connection>>
    tomb,           \* those of prod that are tombstoned
    stale,          \* connections without a PING for InactiveProducerTimeout
    events, breaks, conns,  \* so far, for the bounds
    excuse          \* history: how the directory was led astray

nodes == <<has, made, exiting, pend>>
config == <<wanted, opts, peers>>
db == <<keys, prod, tomb>>
bounds == <<events, breaks, conns>>
vars == <<nodes, config, loop, owner, cut, srv, db, stale, bounds, excuse>>

Off == [conn |-> 0, cmds |-> << >>, sent |-> FALSE]
Closed == [pc |-> "closed", todo |-> << >>]

Init ==
    /\ has = [n \in Node |-> [x \in Item |-> 0]]
    /\ made = [n \in Node |-> [x \in Item |-> 0]]
    /\ exiting = {} /\ pend = {}
    /\ wanted = Node /\ opts = {} /\ peers = {}
    /\ loop = [n \in Node |-> Off]
    /\ owner = [i \in Conn |-> CHOOSE n \in Node : TRUE]
    /\ cut = {}
    /\ srv = [i \in Conn \cup {HTTP} |-> Closed]
    /\ keys = {} /\ prod = {} /\ tomb = {}
    /\ stale = {}
    /\ events = 0 /\ breaks = 0 /\ conns = 0
    /\ excuse = {}

-----------------------------------------------------------------------------
(* What the rest of nsqd does to its topic and channels (NSQD, Topic).      *)

Exiting(n, x, o) == <<n, x, o>> \in exiting
Gone(n, x) == has[n][x] = 0 \/ Exiting(n, x, has[n][x])

Event == events < MaxEvents /\ events' = events + 1
BreakEvent == Event /\ breaks < MaxBreaks /\ breaks' = breaks + 1

Op ==
    /\ Event
    /\ UNCHANGED <<config, loop, owner, cut, srv, db, stale, breaks, conns, excuse>>

Create(n, x) ==
    /\ Op
    /\ has[n][x] = 0 /\ made[n][x] < MaxMade
    /\ x # T => has[n][T] # 0
    /\ made' = [made EXCEPT ![n][x] = @ + 1]
    /\ has' = [has EXCEPT ![n][x] = made[n][x] + 1]
    /\ pend' = pend \cup {<<n, x, made[n][x] + 1, "new">>}
    /\ UNCHANGED exiting

\* DeleteExistingChannel: out of the map first, then exitFlag and Notify.
DeleteChannel(n, c) ==
    /\ Op
    /\ has[n][c] # 0
    /\ has' = [has EXCEPT ![n][c] = 0]
    /\ exiting' = exiting \cup {<<n, c, has[n][c]>>}
    /\ pend' = pend \cup {<<n, c, has[n][c], "del">>}
    /\ UNCHANGED made

\* DeleteExistingTopic: exitFlag and Notify first, the map last.
DeleteTopic(n) ==
    /\ Op
    /\ ~Gone(n, T)
    /\ exiting' = exiting \cup {<<n, T, has[n][T]>>}
    /\ pend' = pend \cup {<<n, T, has[n][T], "del">>}
    /\ UNCHANGED <<has, made>>

\* The end of it, when it does not hang: the channels, then the topic.
UnmapTopic(n) ==
    /\ has[n][T] # 0 /\ Gone(n, T)
    /\ LET old == {<<n, c, has[n][c]>> : c \in {c \in Chan : has[n][c] # 0}}
       IN /\ exiting' = exiting \cup old
          /\ pend' = pend \cup {<<d[1], d[2], d[3], "del">> : d \in old}
    /\ has' = [has EXCEPT ![n] = [x \in Item |-> 0]]
    /\ UNCHANGED <<made, config, loop, owner, cut, srv, db, stale, bounds, excuse>>

\* PUT /config/nsqlookupd_tcp_addresses: the address is taken out or put back.
doConfig(n) ==
    /\ BreakEvent
    /\ wanted' = IF n \in wanted THEN wanted \ {n} ELSE wanted \cup {n}
    /\ opts' = opts \cup {n}
    /\ UNCHANGED <<nodes, peers, loop, owner, cut, srv, db, stale, conns, excuse>>

-----------------------------------------------------------------------------
(* lookupPeer.Command: a round trip, on a new connection if there is none.  *)
(* A connection is first used by connectCallback.                           *)

Selecting(n) == loop[n].cmds = << >>

\* The loop starts on cs, a command or none; it connects when disconnected.
Command(n, cs) ==
    IF loop[n].conn # 0
    THEN /\ loop' = [loop EXCEPT ![n].cmds = cs]
         /\ UNCHANGED <<owner, srv, conns>>
    ELSE /\ conns < MaxConns
         /\ conns' = conns + 1
         /\ owner' = [owner EXCEPT ![conns + 1] = n]
         /\ srv' = [srv EXCEPT ![conns + 1].pc = "open"]
         /\ loop' = [loop EXCEPT ![n] = [conn |-> conns + 1, sent |-> FALSE,
                                         cmds |-> <<<<"IDENTIFY", "client">>>> \o cs]]

\* connectCallback: one REGISTER per channel, or one for a topic without any.
Snapshot(n) ==
    LET cs == {c \in Chan : has[n][c] # 0}
    IN IF has[n][T] = 0 THEN << >>
       ELSE IF cs = {} THEN <<<<"REGISTER", T>>>>
       ELSE SetToSeq({<<"REGISTER", c>> : c \in cs})

\* LookupRegistrations and FindRegistrations of RegistrationDB.
LookupRegistrations(i) == {k \in Key : <<k, i>> \in prod}
FindRegistrations(ks) == keys \cap ks

\* A plausible bug, for mutation: the "client" registration is forgotten.
Mut_Leftover(i) == LookupRegistrations(i) \cap Item

\* The registrations IOLoop removes when the connection has ended.
Leftover(i) == LookupRegistrations(i)

\* A plausible bug, for mutation: REGISTER of a channel leaves the topic out.
Mut_Registering(x) == <<<<"add", x>>>>

Registering(x) == IF x = T THEN <<<<"add", T>>>> ELSE <<<<"add", x>>, <<"add", T>>>>

Unregistering(x) ==
    IF x # T THEN <<<<"removeLast", x>>>>
    ELSE SetToSeq({<<"remove", c>> : c \in FindRegistrations(Chan)}) \o <<<<"removeLast", T>>>>

Identifying == <<<<"add", "client">>>>

\* Exec: what each command of the TCP protocol does to the database.
Program(cmd) ==
    CASE cmd[1] = "PING" -> << >>
      [] cmd[1] = "IDENTIFY" -> Identifying
      [] cmd[1] = "REGISTER" -> Registering(cmd[2])
      [] cmd[1] = "UNREGISTER" -> Unregistering(cmd[2])

\* The command is written, and IOLoop reads it.
Send(n) ==
    LET i == loop[n].conn
    IN /\ loop[n].cmds # << >> /\ ~loop[n].sent
       /\ i \notin cut /\ srv[i].todo = << >>
       /\ loop' = [loop EXCEPT ![n].sent = TRUE]
       /\ srv' = [srv EXCEPT ![i].todo = Program(Head(loop[n].cmds))]
       /\ stale' = IF Head(loop[n].cmds)[1] = "PING" THEN stale \ {i} ELSE stale
       /\ UNCHANGED <<nodes, config, owner, cut, db, bounds, excuse>>

\* The answer; after the one to IDENTIFY, the snapshot is taken.
Receive(n) ==
    LET i == loop[n].conn
    IN /\ loop[n].sent
       /\ i \notin cut /\ srv[i].todo = << >>
       /\ loop' = [loop EXCEPT ![n] = [conn |-> i, sent |-> FALSE,
                     cmds |-> (IF Head(@.cmds)[1] = "IDENTIFY" THEN Snapshot(n) ELSE << >>)
                                \o Tail(@.cmds)]]
       /\ excuse' = IF Head(loop[n].cmds)[1] = "IDENTIFY" /\ has[n][T] # 0 /\ Gone(n, T)
                    THEN excuse \cup {"snapshot of an exiting topic"} ELSE excuse
       /\ UNCHANGED <<nodes, config, owner, cut, srv, db, stale, bounds>>

\* A write or read that failed closes the connection: the next Command connects.
Fail(n) ==
    /\ loop[n].cmds # << >> /\ loop[n].conn \in cut
    /\ loop' = [loop EXCEPT ![n] = Off]
    /\ UNCHANGED <<nodes, config, owner, cut, srv, db, stale, bounds, excuse>>

\* The node gives up on an answer (its deadline) or the connection is lost;
\* nsqlookupd does not know yet.
Break(i) ==
    /\ BreakEvent
    /\ srv[i].pc = "open" /\ i \notin cut
    /\ cut' = cut \cup {i}
    /\ UNCHANGED <<nodes, config, loop, owner, srv, db, stale, conns, excuse>>

-----------------------------------------------------------------------------
(* lookupLoop's select.                                                     *)

StartPeer(n) ==
    /\ n \in wanted \ peers /\ n \notin opts /\ Selecting(n)
    /\ peers' = peers \cup {n}
    /\ Command(n, << >>)
    /\ UNCHANGED <<nodes, wanted, opts, cut, db, stale, events, breaks, excuse>>

Tick(n) ==
    /\ n \in peers /\ Selecting(n)
    /\ Command(n, <<<<"PING", "client">>>>)
    /\ UNCHANGED <<nodes, config, cut, db, stale, events, breaks, excuse>>

\* A plausible bug, for mutation: the command is fixed when Notify is called.
Mut_Verb(n, x, o, kind) == IF kind = "del" THEN "UNREGISTER" ELSE "REGISTER"

\* Which command a notification becomes: what the object is when it is received.
Verb(n, x, o, kind) == IF Exiting(n, x, o) THEN "UNREGISTER" ELSE "REGISTER"

\* Ways in which the order of the notifications misleads the directory.
Astray(n, x, o, verb) ==
    (IF verb = "UNREGISTER" /\ ~Gone(n, x) THEN {"old object after the new one"} ELSE {})
      \cup (IF verb = "REGISTER" /\ x # T /\ Gone(n, T) THEN {"channel after its topic"} ELSE {})

Notified(n, x, o, kind) ==
    /\ <<n, x, o, kind>> \in pend
    /\ n \in peers \/ n \notin wanted \/ n \in opts
    /\ Selecting(n)
    /\ pend' = pend \ {<<n, x, o, kind>>}
    /\ LET verb == Verb(n, x, o, kind)
       IN IF n \in peers
          THEN /\ Command(n, <<<<verb, x>>>>)
               /\ excuse' = excuse \cup Astray(n, x, o, verb)
          ELSE UNCHANGED <<loop, owner, srv, conns, excuse>>
    /\ UNCHANGED <<has, made, exiting, config, cut, db, stale, events, breaks>>

\* optsNotificationChan: a peer that is not wanted any more is closed.
Reconfigure(n) ==
    /\ n \in opts /\ Selecting(n)
    /\ opts' = opts \ {n}
    /\ peers' = peers \cap (wanted \cup (Node \ {n}))
    /\ IF n \in wanted THEN UNCHANGED <<loop, cut>>
       ELSE /\ loop' = [loop EXCEPT ![n] = Off]
            /\ cut' = IF loop[n].conn = 0 THEN cut ELSE cut \cup {loop[n].conn}
    /\ UNCHANGED <<nodes, wanted, owner, srv, db, stale, bounds, excuse>>

-----------------------------------------------------------------------------
(* nsqlookupd: the methods of RegistrationDB, one critical section each.    *)

AddProducer(k, i) ==
    /\ keys' = keys \cup {k}
    /\ prod' = prod \cup {<<k, i>>}
    /\ UNCHANGED tomb

AddRegistration(k) == keys' = keys \cup {k} /\ UNCHANGED <<prod, tomb>>

RemoveProducer(k, i) ==
    /\ prod' = prod \ {<<k, i>>}
    /\ tomb' = tomb \ {<<k, i>>}
    /\ UNCHANGED keys

RemoveRegistration(k) ==
    /\ keys' = keys \ {k}
    /\ prod' = {p \in prod : p[1] # k}
    /\ tomb' = {p \in tomb : p[1] # k}

\* One call of the program of i.  After removeLast the key of an ephemeral
\* item goes as well if it has no producer left: a second call.
Call(i) ==
    /\ srv[i].todo # << >>
    /\ LET op == Head(srv[i].todo)[1]
           k == Head(srv[i].todo)[2]
           others == {p \in prod : p[1] = k /\ p[2] # i}
       IN /\ CASE op = "add" -> AddProducer(k, i)
               [] op = "addKey" -> AddRegistration(k)
               [] op = "drop" -> RemoveRegistration(k)
               [] OTHER -> RemoveProducer(k, i)
          /\ srv' = [srv EXCEPT ![i].todo =
                       (IF op = "removeLast" /\ others = {} /\ k \in Ephemeral
                        THEN <<<<"drop", k>>>> ELSE << >>) \o Tail(@)]
          /\ excuse' = IF op = "drop" /\ others # {}
                       THEN excuse \cup {IF i = HTTP THEN "deleted by an administrator"
                                         ELSE "dropped under another producer"}
                       ELSE excuse
    /\ UNCHANGED <<nodes, config, loop, owner, cut, stale, bounds>>

\* IOLoop's end: it looks up the registrations of the connection, and removes them.
EndOfLoop(i) ==
    /\ srv[i].pc = "open" /\ srv[i].todo = << >> /\ i \in cut
    /\ srv' = [srv EXCEPT ![i] = [pc |-> "closed",
                 todo |-> SetToSeq({<<"remove", k>> : k \in Leftover(i)})]]
    /\ UNCHANGED <<nodes, config, loop, owner, cut, db, stale, bounds, excuse>>

\* Time passes over a connection that nobody pings.
Inactive(i) ==
    /\ srv[i].pc = "open" /\ i \in cut \ stale
    /\ stale' = stale \cup {i}
    /\ UNCHANGED <<nodes, config, loop, owner, cut, srv, db, bounds, excuse>>

\* The HTTP API: the calls of each request that changes the database.
Request(r, c) ==
    CASE r = "create" -> <<<<"addKey", T>>>>
      [] r = "createChannel" -> <<<<"addKey", c>>, <<"addKey", T>>>>
      [] r = "deleteChannel" -> SetToSeq({<<"drop", d>> : d \in FindRegistrations({c})})
      [] r = "delete" -> SetToSeq({<<"drop", d>> : d \in FindRegistrations(Chan)})
                           \o <<<<"drop", T>>>>

Serve(r, c) ==
    /\ Event
    /\ srv[HTTP].todo = << >>
    /\ srv' = [srv EXCEPT ![HTTP].todo = Request(r, c)]
    /\ UNCHANGED <<nodes, config, loop, owner, cut, db, stale, breaks, conns, excuse>>

\* doTombstoneTopicProducer: every producer of the topic that is node n.
Tombstone(n) ==
    /\ Event
    /\ tomb' = tomb \cup {p \in prod : p[1] = T /\ owner[p[2]] = n}
    /\ UNCHANGED <<nodes, config, loop, owner, cut, srv, keys, prod, stale, breaks,
                   conns, excuse>>

TombstoneLifetime ==
    /\ tomb # {} /\ tomb' = {}
    /\ UNCHANGED <<nodes, config, loop, owner, cut, srv, keys, prod, stale, bounds, excuse>>

\* nsqlookupd is started again, with an empty database.
Restart ==
    /\ BreakEvent
    /\ keys' = {} /\ prod' = {} /\ tomb' = {}
    /\ srv' = [i \in Conn \cup {HTTP} |-> Closed]
    /\ cut' = {i \in Conn : srv[i].pc = "open" \/ i \in cut}
    /\ UNCHANGED <<nodes, config, loop, owner, stale, conns, excuse>>

FindProducers(k) == {p \in prod : p[1] = k}

\* Without the inactive connections and the tombstoned.
FilterByActive(ps) == {p \in ps \ tomb : p[2] \notin stale}

\* GET /lookup, and the same question for a channel.
doLookup(k) == {owner[p[2]] : p \in FilterByActive(FindProducers(k))}

-----------------------------------------------------------------------------
Client(n) == Send(n) \/ Receive(n) \/ Fail(n)

AnyNotified(n) == \E p \in pend : p[1] = n /\ Notified(n, p[2], p[3], p[4])

Next ==
    \/ \E i \in Conn \cup {HTTP} : Call(i)
    \/ \E n \in Node :
          \/ Client(n) \/ StartPeer(n) \/ Tick(n) \/ AnyNotified(n) \/ Reconfigure(n)
          \/ DeleteTopic(n) \/ UnmapTopic(n) \/ doConfig(n)
          \/ "tombstone" \in Http /\ Tombstone(n)
          \/ \E x \in Item : Create(n, x)
          \/ \E c \in Chan : DeleteChannel(n, c)
    \/ \E r \in Http \ {"tombstone"}, c \in Chan : Serve(r, c)
    \/ \E i \in Conn : Break(i) \/ EndOfLoop(i) \/ Inactive(i)
    \/ TombstoneLifetime \/ Restart

Spec == Init /\ [][Next]_vars

\* The database calls and the round trips go on; the ticker ticks, and Go's select
\* takes every ready case in the end; time passes for tombstones and for those
\* that do not ping.  A deletion may hang, and nsqlookupd may never learn that a
\* connection is lost: UnmapTopic and EndOfLoop are not fair.
FairSpec ==
    /\ Spec
    /\ WF_vars(\E i \in Conn \cup {HTTP} : Call(i))
    /\ WF_vars(TombstoneLifetime \/ \E i \in Conn : Inactive(i))
    /\ \A n \in Node : /\ WF_vars(Client(n) \/ StartPeer(n))
                       /\ SF_vars(Tick(n)) /\ SF_vars(AnyNotified(n)) /\ SF_vars(Reconfigure(n))

-----------------------------------------------------------------------------
\* Types; registrations have keys, tombstones have producers.
TypeOK ==
    /\ has \in [Node -> [Item -> 0..MaxMade]]
    /\ loop \in [Node -> [conn : 0..MaxConns, sent : BOOLEAN,
                          cmds : Seq({"PING", "IDENTIFY", "REGISTER", "UNREGISTER"} \X Key)]]
    /\ keys \subseteq Key
    /\ prod \subseteq keys \X Conn
    /\ tomb \subseteq prod
    /\ peers \subseteq Node /\ wanted \subseteq Node

\* When IOLoop has cleaned up after a connection, no registration of it is left,
\* so that /lookup and /nodes never name a producer that is gone for good.
NoGhosts == \A p \in prod : srv[p[2]].pc = "open" \/ srv[p[2]].todo # << >>

\* Between commands, a producer of a channel is a producer of the topic, so that
\* whoever asks for the topic finds it, unless an HTTP request or another
\* connection has just deleted the topic's key.
ChannelHasTopic ==
    excuse \cap {"deleted by an administrator", "dropped under another producer"} # {} \/
    \A p \in prod : (p[1] \in Chan /\ srv[p[2]].pc = "open" /\ srv[p[2]].todo = << >>)
                       => <<T, p[2]>> \in prod

\* What the directory should say of node n.
Exact(n) ==
    \A x \in Item : /\ n \in doLookup(x) <=> (n \in wanted /\ ~Gone(n, x))
                    /\ (n \in wanted /\ ~Gone(n, x)) => x \in keys

\* Once topics and connections stop changing, the directory comes to say exactly
\* what every node has, through lost connections, a restarted nsqlookupd, changed
\* addresses and any order of the notifications but those that excuse names.
Converges == <>[](excuse # {} \/ \A n \in Node : (has[n][T] # 0 /\ Gone(n, T)) \/ Exact(n))

=============================================================================
