------------------------------- MODULE Client -------------------------------
(***************************************************************************)
(* One client connection of nsqd (nsqd/protocol_v2.go, nsqd/client_v2.go): *)
(* the goroutine IOLoop reads and executes commands, the goroutine         *)
(* messagePump decides whether the client is ready, waits in its select,   *)
(* buffers and flushes; the channel, the queue scan and the administrator  *)
(* change the counters and the pause flag from outside and wake the pump   *)
(* through ReadyStateChan, which has room for one.                         *)
(*                                                                         *)
(* Messages are counted, not told apart (Channel does that): those in the  *)
(* in-flight map, and InFlightCount, which follows the map in steps of its *)
(* own and is not always its size.  A setting of                           *)
(* IDENTIFY is what matters of it: heartbeats and the flush ticker on or   *)
(* off, a write buffer or none, and which IDENTIFY it came from.           *)
(***************************************************************************)
EXTENDS Integers, Sequences, FiniteSets

CONSTANTS
    Identify,       \* the IDENTIFYs a client may send
    Policies,       \* the configurations: is authorization on, is TLS required?
    MaxRdyCount,
    BufferSize,     \* messages that fit into the write buffer
    MaxMsgs,        \* bound: messages put into the channel, in a run
    MaxIdentify,    \* bound: IDENTIFYs
    MaxPokes        \* bound: other goroutines that will wake the pump

\* What an IDENTIFY can negotiate: TLS comes first, and the two compressions exclude
\* each other.
Upgrades == {<< >>, <<"tls">>, <<"snappy">>, <<"deflate">>,
             <<"tls", "snappy">>, <<"tls", "deflate">>}

ASSUME IdentifyAssumption ==
    \A r \in Identify : /\ r.hb \in {"default", "on", "off"}
                        /\ r.flush \in {"default", "on", "off"}
                        /\ r.size \in {"default", "some", "none"}
                        /\ r.up \in Upgrades
                        /\ r.valid \in BOOLEAN

ASSUME PolicyAssumption == Policies \subseteq [auth : BOOLEAN, tls : BOOLEAN]

ASSUME BoundAssumption ==
    /\ MaxRdyCount \in Nat \ {0} /\ BufferSize \in Nat \ {0}
    /\ MaxMsgs \in Nat /\ MaxIdentify \in Nat /\ MaxPokes \in Nat

VARIABLES
    state,          \* stateInit, stateSubscribed, stateClosing
    io,             \* IOLoop: pc, and the layers IDENTIFY has still to add
    hb, ticker, buffered, version,      \* the client's settings
    layers,         \* negotiated: tls, snappy, deflate
    writer,         \* the layers client.Writer goes through
    identifyChan,   \* IdentifyEventChan: the event in it, if any
    subChan,        \* SubEventChan is full
    readyChan,      \* ReadyStateChan is full
    pokes,          \* goroutines between a change and tryUpdateReadyState
    ReadyCount, InFlightCount,
    paused,         \* of the channel
    mem,            \* messages waiting in the channel
    inflight,       \* messages of this client in the in-flight map
    halfway,        \* "timeout": the scan has popped a message and not yet told the client;
                    \* "empty": Empty has cleared the map and not yet told the client
    pump,           \* messagePump: pc, subChannel set, its select, its settings
    buf,            \* messages in the write buffer
    authOn, tlsRequired,
    auth,           \* AuthState: "none", "ok", "expired"
    puts, identifies,   \* so far, for the bounds
    made            \* history: this client had a topic created

settings == <<hb, ticker, buffered, version>>
link == <<layers, writer>>
wakes == <<readyChan, pokes>>
policy == <<authOn, tlsRequired>>
flight == <<mem, inflight, halfway>>
counts == <<ReadyCount, InFlightCount, paused, flight>>
history == <<puts, identifies, made>>
vars == <<state, io, settings, link, identifyChan, subChan, wakes, counts, pump,
          buf, policy, auth, history>>

NoEvent == [on |-> FALSE, hb |-> FALSE, ticker |-> FALSE, version |-> 0]

Init ==
    /\ state = "init"
    /\ io = [pc |-> "read", up |-> << >>]
    /\ hb = TRUE /\ ticker = TRUE /\ buffered = TRUE /\ version = 0
    /\ layers = {} /\ writer = {}
    /\ identifyChan = NoEvent
    /\ subChan = FALSE /\ readyChan = FALSE /\ pokes = 0
    /\ ReadyCount = 0 /\ InFlightCount = 0 /\ paused = FALSE
    /\ mem = 0 /\ inflight = 0 /\ halfway = {}
    /\ pump = [pc |-> "top", sub |-> FALSE, sel |-> "off", flushed |-> TRUE,
               subOpen |-> TRUE, idOpen |-> TRUE, hb |-> TRUE, ticker |-> TRUE,
               version |-> 0]
    /\ buf = 0
    /\ \E p \in Policies : authOn = p.auth /\ tlsRequired = p.tls
    /\ auth = "none"
    /\ puts = 0 /\ identifies = 0
    /\ made = FALSE

-----------------------------------------------------------------------------
(* IOLoop: a command is executed when the last one is done.  A fatal error  *)
(* is answered, and the connection closed.                                  *)

Open == io.pc # "closed"
Reading == io.pc = "read"
Done == io' = [pc |-> "read", up |-> << >>]
Fatal == io' = [pc |-> "close", up |-> << >>]

\* Send of anything but a message flushes what is buffered, too.
Respond == buf' = 0
NoResponse == UNCHANGED buf

\* enforceTLSPolicy: the commands other than IDENTIFY.
Secure == ~tlsRequired \/ "tls" \in layers

\* The setters of clientV2.  A sample rate or a message timeout is told by the
\* IDENTIFY it came with.
SetHeartbeatInterval(desired) ==
    hb' = CASE desired = "on" -> TRUE [] desired = "off" -> FALSE [] OTHER -> hb

\* A size puts a new Writer on the connection, and no buffer needs no ticker.
SetOutputBuffer(size, flush) ==
    /\ ticker' = CASE size = "none" \/ flush = "off" -> FALSE
                   [] flush = "on" -> TRUE
                   [] OTHER -> ticker
    /\ buffered' = CASE size = "none" -> FALSE [] size = "some" -> TRUE [] OTHER -> buffered
    /\ writer' = IF size = "default" THEN writer ELSE {}

SetSampleRateAndTimeout == version' = identifies + 1

\* Identify: the settings, then an event for the pump, if there is room for it.
UpdateSettings(r) ==
    /\ SetHeartbeatInterval(r.hb)
    /\ SetOutputBuffer(r.size, r.flush)
    /\ SetSampleRateAndTimeout
    /\ identifyChan' = IF identifyChan.on THEN identifyChan
                       ELSE [on |-> TRUE, hb |-> hb', ticker |-> ticker',
                             version |-> version']

\* One of the setters refuses its argument, after the others before it have taken
\* theirs over, or both compressions are asked for, which is noticed last.
Refused(r) ==
    \/ UNCHANGED <<settings, writer, identifyChan>>
    \/ /\ SetHeartbeatInterval(r.hb)
       /\ SetOutputBuffer(r.size, r.flush) \/ UNCHANGED <<ticker, buffered, writer>>
       /\ UNCHANGED <<version, identifyChan>>
    \/ UpdateSettings(r)

IDENTIFY(r) ==
    /\ Reading /\ identifies < MaxIdentify
    /\ identifies' = identifies + 1
    /\ CASE state # "init" -> Fatal /\ UNCHANGED <<settings, writer, identifyChan>>
         [] state = "init" /\ ~r.valid -> Fatal /\ Refused(r)
         [] OTHER ->
              /\ UpdateSettings(r)
              /\ io' = [pc |-> IF r.up = << >> THEN "read" ELSE "upgrade", up |-> r.up]
    /\ Respond
    /\ UNCHANGED <<state, layers, subChan, wakes, counts, pump, policy, auth,
                   puts, made>>

\* A plausible bug, for mutation: the compressed stream goes round TLS.
Mut_Through(l) == {l}

\* The layers the new Writer goes through: compression is put over TLS.
Through(l) == IF l = "tls" THEN {l} ELSE {l} \cup (layers \cap {"tls"})

\* UpgradeTLS, UpgradeSnappy, UpgradeDeflate, each followed by an answer; the TLS
\* handshake may fail.
Upgrade ==
    /\ io.pc = "upgrade"
    /\ LET l == Head(io.up)
       IN \/ /\ layers' = layers \cup {l}
             /\ writer' = Through(l)
             /\ io' = [pc |-> IF Tail(io.up) = << >> THEN "read" ELSE "upgrade",
                       up |-> Tail(io.up)]
             /\ Respond
          \/ /\ l = "tls"
             /\ Fatal /\ Respond /\ UNCHANGED link
    /\ UNCHANGED <<state, settings, identifyChan, subChan, wakes, counts, pump,
                   policy, auth, history>>

\* What an authd answers: authorizations, or an error, or none at all.
QueryAuthd == {"ok", "none"}

HasAuthorizations == auth # "none"

AUTH ==
    /\ Reading
    /\ IF state # "init" \/ ~Secure \/ HasAuthorizations \/ ~authOn
       THEN Fatal /\ UNCHANGED auth
       ELSE \E a \in QueryAuthd : auth' = a /\ (IF a = "ok" THEN Done ELSE Fatal)
    /\ Respond
    /\ UNCHANGED <<state, settings, link, identifyChan, subChan, wakes, counts, pump,
                   policy, history>>

\* The authorizations have a time to live.
AuthExpires ==
    /\ auth = "ok" /\ Open
    /\ auth' = "expired"
    /\ UNCHANGED <<state, io, settings, link, identifyChan, subChan, wakes, counts, pump,
                   buf, policy, history>>

\* IsAuthorized: an expired state is queried again.  (What a refusal leaves in it
\* no longer matters: it is fatal.)
IsAuthorized(pass) ==
    /\ pass => HasAuthorizations
    /\ auth' = IF auth = "expired" /\ pass THEN "ok" ELSE auth

\* A plausible bug, for mutation: expired authorizations are not asked for again.
Mut_CheckAuth(pass) ==
    IF authOn THEN (pass => HasAuthorizations) /\ UNCHANGED auth ELSE pass /\ UNCHANGED auth

\* CheckAuth: whether the command passes.
CheckAuth(pass) == IF authOn THEN IsAuthorized(pass) ELSE pass /\ UNCHANGED auth

\* The message is read and checked, then the authorization, and only then is the
\* topic looked up or created; it may be exiting.
Publish ==
    /\ Reading
    /\ \/ Fatal /\ UNCHANGED <<auth, made>>       \* malformed, or no TLS
       \/ /\ Secure
          /\ \/ CheckAuth(FALSE) /\ Fatal /\ UNCHANGED made
             \/ CheckAuth(TRUE) /\ made' = TRUE /\ (Done \/ Fatal)
    /\ Respond
    /\ UNCHANGED <<state, settings, link, identifyChan, subChan, wakes, counts, pump,
                   policy, puts, identifies>>

PUB == Publish
DPUB == Publish         \* which is also malformed when its delay is out of range

\* The messages are well formed and the topic takes them, or the error is fatal.
readMPUB == Done \/ Fatal

\* MPUB: the topic is there before the body is read.
MPUB ==
    /\ Reading
    /\ \/ Fatal /\ UNCHANGED <<auth, made>>
       \/ Secure /\ CheckAuth(FALSE) /\ Fatal /\ UNCHANGED made
       \/ Secure /\ CheckAuth(TRUE) /\ made' = TRUE /\ readMPUB
    /\ Respond
    /\ UNCHANGED <<state, settings, link, identifyChan, subChan, wakes, counts, pump,
                   policy, puts, identifies>>

\* SUB: the topic, the channel and AddClient, then the state, then the pump.
SUB ==
    /\ Reading
    /\ IF state # "init" \/ ~Secure \/ ~hb
       THEN Fatal /\ UNCHANGED <<state, subChan, auth, made>>
       ELSE \/ CheckAuth(FALSE) /\ Fatal /\ UNCHANGED <<state, subChan, made>>
            \/ /\ CheckAuth(TRUE)
               /\ made' = TRUE
               /\ \/ /\ state' = "subscribed"
                     /\ subChan' = TRUE
                     /\ Done
                  \/ Fatal /\ UNCHANGED <<state, subChan>>      \* too many consumers
    /\ Respond
    /\ UNCHANGED <<settings, link, identifyChan, wakes, counts, pump, policy,
                   puts, identifies>>

\* A plausible bug, for mutation: the pump is not woken.
Mut_SetReadyCount(n) ==
    /\ ReadyCount' = n
    /\ UNCHANGED readyChan
    /\ Done

\* SetReadyCount stores the count; then the pump is woken (Wake).
SetReadyCount(n) ==
    /\ ReadyCount' = n
    /\ UNCHANGED readyChan
    /\ io' = [pc |-> "wake", up |-> << >>]

\* The count RDY refuses.
OutOfRange(n) == n < 0 \/ n > MaxRdyCount

RDY(n) ==
    /\ Reading
    /\ IF state = "init" \/ ~Secure \/ (state = "subscribed" /\ OutOfRange(n))
       THEN Fatal /\ Respond /\ UNCHANGED <<ReadyCount, readyChan>>
       ELSE /\ NoResponse
            /\ IF state = "subscribed" THEN SetReadyCount(n)
               ELSE Done /\ UNCHANGED <<ReadyCount, readyChan>>
    /\ UNCHANGED <<state, settings, link, identifyChan, subChan, pokes, InFlightCount,
                   paused, flight, pump, policy, auth, history>>

CLS ==
    /\ Reading
    /\ IF state # "subscribed" \/ ~Secure
       THEN Fatal /\ UNCHANGED <<state, ReadyCount, readyChan>>
       ELSE SetReadyCount(0) /\ state' = "closing"
    /\ Respond
    /\ UNCHANGED <<settings, link, identifyChan, subChan, pokes, InFlightCount, paused,
                   flight, pump, policy, auth, history>>

\* FIN and REQ of a message in flight: it is popped, and put back if it is requeued;
\* then the count follows (Answered), then the pump is woken.  One that is not in
\* flight is answered with an error that is not fatal.
Answer(back) ==
    /\ Reading /\ Secure /\ state # "init"
    /\ \/ /\ inflight > 0
          /\ inflight' = inflight - 1
          /\ mem' = mem + back
          /\ io' = [pc |-> "answered", up |-> << >>]
          /\ NoResponse
       \/ Done /\ Respond /\ UNCHANGED <<inflight, mem>>
    /\ UNCHANGED <<state, settings, link, identifyChan, subChan, wakes, ReadyCount,
                   InFlightCount, paused, halfway, pump, policy, auth, history>>

\* FinishedMessage, RequeuedMessage.
Answered ==
    /\ io.pc = "answered"
    /\ InFlightCount' = InFlightCount - 1
    /\ io' = [pc |-> "wake", up |-> << >>]
    /\ UNCHANGED <<state, settings, link, identifyChan, subChan, wakes, ReadyCount, paused,
                   flight, pump, buf, policy, auth, history>>

\* tryUpdateReadyState: by IOLoop, and by another goroutine.
Wake ==
    /\ io.pc = "wake"
    /\ readyChan' = TRUE
    /\ Done
    /\ UNCHANGED <<state, settings, link, identifyChan, subChan, pokes, counts, pump,
                   buf, policy, auth, history>>

Poke ==
    /\ pokes > 0
    /\ pokes' = pokes - 1
    /\ readyChan' = TRUE
    /\ UNCHANGED <<state, io, settings, link, identifyChan, subChan, counts, pump,
                   buf, policy, auth, history>>

\* The read deadline, the end of the stream, an answer that cannot be written, or a
\* fatal error: ExitChan is closed, and the client leaves its channel.
Close ==
    /\ io.pc \in {"read", "upgrade", "close"}
    /\ io' = [pc |-> "closed", up |-> << >>]
    /\ UNCHANGED <<state, settings, link, identifyChan, subChan, wakes, counts, pump, buf,
                   policy, auth, history>>

-----------------------------------------------------------------------------
(* The rest of nsqd, as long as the connection is there.                    *)

Put ==
    /\ Open /\ puts < MaxMsgs
    /\ puts' = puts + 1
    /\ mem' = mem + 1
    /\ UNCHANGED <<state, io, settings, link, identifyChan, subChan, wakes, ReadyCount,
                   InFlightCount, paused, inflight, halfway, pump, buf, policy, auth,
                   identifies, made>>

\* Another goroutine may come to change what the pump looks at.
RoomForAnother == Open /\ pokes + Cardinality(halfway) < MaxPokes

\* The queue scan pops a message that timed out; then the count follows, and the
\* message is requeued.
processInFlightQueue ==
    /\ RoomForAnother /\ inflight > 0 /\ "timeout" \notin halfway
    /\ inflight' = inflight - 1
    /\ halfway' = halfway \cup {"timeout"}
    /\ UNCHANGED <<state, io, settings, link, identifyChan, subChan, wakes, ReadyCount,
                   InFlightCount, paused, mem, pump, buf, policy, auth, history>>

TimedOutMessage ==
    /\ Open /\ "timeout" \in halfway
    /\ InFlightCount' = InFlightCount - 1
    /\ pokes' = pokes + 1
    /\ mem' = mem + 1
    /\ halfway' = halfway \ {"timeout"}
    /\ UNCHANGED <<state, io, settings, link, identifyChan, subChan, readyChan, ReadyCount,
                   paused, inflight, pump, buf, policy, auth, history>>

\* Channel.Empty clears the map; then it stores 0 as the count of each client, whatever
\* the pump and the answers have done since, or have yet to do to it, and takes what is
\* waiting.
initPQ ==
    /\ RoomForAnother /\ state # "init" /\ "empty" \notin halfway
    /\ inflight' = 0
    /\ halfway' = halfway \cup {"empty"}
    /\ UNCHANGED <<state, io, settings, link, identifyChan, subChan, wakes, ReadyCount,
                   InFlightCount, paused, mem, pump, buf, policy, auth, history>>

Empty ==
    /\ Open /\ "empty" \in halfway
    /\ InFlightCount' = 0
    /\ pokes' = pokes + 1
    /\ mem' = 0
    /\ halfway' = halfway \ {"empty"}
    /\ UNCHANGED <<state, io, settings, link, identifyChan, subChan, readyChan, ReadyCount,
                   paused, inflight, pump, buf, policy, auth, history>>

\* Channel.doPause: the flag, then every client of the channel is told.
doPause(p) ==
    /\ RoomForAnother
    /\ paused' = p
    /\ pokes' = IF state = "init" THEN pokes ELSE pokes + 1
    /\ UNCHANGED <<state, io, settings, link, identifyChan, subChan, readyChan, ReadyCount,
                   InFlightCount, flight, pump, buf, policy, auth, history>>

-----------------------------------------------------------------------------
(* messagePump.                                                             *)

IsReadyForMessages == ~paused /\ ReadyCount > 0 /\ InFlightCount < ReadyCount

PumpQuit == pump' = [pump EXCEPT !.pc = "exit"] /\ UNCHANGED buf
Loop(p) == pump' = [p EXCEPT !.pc = "top"]

\* Flush, or a Send that flushes: what is buffered is written, or the write fails
\* and the pump is no more, while IOLoop goes on until its read fails.
Flush(p) ==
    \/ Open /\ buf' = 0 /\ pump' = p
    \/ PumpQuit

\* The top of the loop decides what the select will wait for.
PumpTop ==
    /\ pump.pc = "top"
    /\ IF ~pump.sub \/ ~IsReadyForMessages
       THEN Flush([pump EXCEPT !.pc = "select", !.sel = "off", !.flushed = TRUE])
       ELSE /\ pump' = [pump EXCEPT !.pc = "select",
                                    !.sel = IF pump.flushed THEN "on" ELSE "flush"]
            /\ UNCHANGED buf
    /\ UNCHANGED <<state, io, settings, link, identifyChan, subChan, wakes, counts,
                   policy, auth, history>>

Selecting == pump.pc = "select"

PumpFlush ==
    /\ Selecting /\ pump.sel = "flush" /\ pump.ticker
    /\ Flush([pump EXCEPT !.pc = "top", !.flushed = TRUE])
    /\ UNCHANGED <<state, io, settings, link, identifyChan, subChan, wakes, counts,
                   policy, auth, history>>

PumpReady ==
    /\ Selecting /\ readyChan
    /\ readyChan' = FALSE
    /\ Loop(pump)
    /\ UNCHANGED <<state, io, settings, link, identifyChan, subChan, pokes, counts, buf,
                   policy, auth, history>>

PumpSub ==
    /\ Selecting /\ subChan /\ pump.subOpen
    /\ subChan' = FALSE
    /\ Loop([pump EXCEPT !.sub = TRUE, !.subOpen = FALSE])
    /\ UNCHANGED <<state, io, settings, link, identifyChan, wakes, counts, buf,
                   policy, auth, history>>

\* A plausible bug, for mutation: a buffer timeout of -1 also stops the heartbeats.
Mut_Adopted(e) == [pump EXCEPT !.idOpen = FALSE, !.ticker = e.ticker, !.hb = e.hb /\ e.ticker,
                               !.version = e.version]

\* The pump takes the settings over, once: it does not listen again.
Adopted(e) == [pump EXCEPT !.idOpen = FALSE, !.ticker = e.ticker, !.hb = e.hb,
                           !.version = e.version]

PumpIdentify ==
    /\ Selecting /\ identifyChan.on /\ pump.idOpen
    /\ identifyChan' = NoEvent
    /\ Loop(Adopted(identifyChan))
    /\ UNCHANGED <<state, io, settings, link, subChan, wakes, counts, buf,
                   policy, auth, history>>

\* A heartbeat is sent, which flushes; the pump does not note that it did.
PumpHeartbeat ==
    /\ Selecting /\ pump.hb
    /\ Flush([pump EXCEPT !.pc = "top"])
    /\ UNCHANGED <<state, io, settings, link, identifyChan, subChan, wakes, counts,
                   policy, auth, history>>

\* A message is taken and in flight (StartInFlightTimeout), from when on it can be
\* answered, time out or be emptied; then it is counted; then it is written.
PumpMessage ==
    /\ Selecting /\ pump.sel # "off" /\ mem > 0
    /\ mem' = mem - 1
    /\ inflight' = inflight + 1
    /\ pump' = [pump EXCEPT !.pc = "sending"]
    /\ UNCHANGED <<state, io, settings, link, identifyChan, subChan, wakes, ReadyCount,
                   InFlightCount, paused, halfway, buf, policy, auth, history>>

SendingMessage ==
    /\ pump.pc = "sending"
    /\ InFlightCount' = InFlightCount + 1
    /\ pump' = [pump EXCEPT !.pc = "write"]
    /\ UNCHANGED <<state, io, settings, link, identifyChan, subChan, wakes, ReadyCount,
                   paused, flight, buf, policy, auth, history>>

\* What the buffer holds after a message: all of it if it has room; otherwise it is
\* written out, and of a message that does not fit a tail may stay.  Without a buffer
\* nothing stays in it; but the deflate writer below keeps what it likes.
Written ==
    IF buffered /\ buf < BufferSize THEN {buf + 1}
    ELSE IF "deflate" \in writer THEN {0, 1, buf}
    ELSE IF buffered THEN {0, 1} ELSE {0}

SendMessage ==
    /\ pump.pc = "write"
    /\ \/ /\ Open
          /\ buf' \in Written
          /\ Loop([pump EXCEPT !.flushed = FALSE])
       \/ PumpQuit
    /\ UNCHANGED <<state, io, settings, link, identifyChan, subChan, wakes, counts,
                   policy, auth, history>>

\* A sampled-out message is dropped.
PumpSkip ==
    /\ Selecting /\ pump.sel # "off" /\ mem > 0 /\ pump.version > 0
    /\ mem' = mem - 1
    /\ Loop(pump)
    /\ UNCHANGED <<state, io, settings, link, identifyChan, subChan, wakes, ReadyCount,
                   InFlightCount, paused, inflight, halfway, buf, policy, auth, history>>

PumpExit ==
    /\ Selecting /\ io.pc = "closed"
    /\ PumpQuit
    /\ UNCHANGED <<state, io, settings, link, identifyChan, subChan, wakes, counts,
                   policy, auth, history>>

-----------------------------------------------------------------------------
Commands ==
    \/ \E r \in Identify : IDENTIFY(r)
    \/ AUTH \/ PUB \/ DPUB \/ MPUB \/ SUB \/ CLS
    \/ \E n \in 0..(MaxRdyCount + 1) : RDY(n)
    \/ Answer(0) \/ Answer(1)

Outside ==
    \/ Put \/ processInFlightQueue \/ TimedOutMessage \/ initPQ \/ Empty
    \/ doPause(TRUE) \/ doPause(FALSE)
    \/ AuthExpires

Next ==
    \/ Commands \/ Upgrade \/ Answered \/ Wake \/ Poke \/ Close
    \/ Outside
    \/ PumpTop \/ PumpFlush \/ PumpReady \/ PumpSub \/ PumpIdentify \/ PumpHeartbeat
    \/ PumpMessage \/ SendingMessage \/ SendMessage \/ PumpSkip \/ PumpExit

Spec == Init /\ [][Next]_vars

\* The pump runs on, and its tickers tick: Go's select takes a case that is ready
\* again and again.  No command need ever come.
FairSpec ==
    /\ Spec
    /\ WF_vars(PumpTop \/ SendingMessage \/ SendMessage)
    /\ SF_vars(PumpFlush) /\ SF_vars(PumpHeartbeat)

-----------------------------------------------------------------------------
\* Types; the counters stay within their bounds.  InFlightCount is not the size of the
\* in-flight map: an answer before SendingMessage makes it negative, and the 0 that Empty
\* stores may hide messages that have come into the map since, or be followed by the
\* count of one that has already left it.
TypeOK ==
    /\ state \in {"init", "subscribed", "closing"}
    /\ ReadyCount \in 0..MaxRdyCount
    /\ InFlightCount \in (-(MaxMsgs + 2))..(MaxMsgs + 1)
    /\ mem \in 0..MaxMsgs /\ inflight \in 0..MaxMsgs /\ halfway \subseteq {"timeout", "empty"}
    /\ buf \in 0..BufferSize
    /\ pump.pc \in {"top", "select", "sending", "write", "exit"}
    /\ pump.sel \in {"off", "on", "flush"}
    /\ pump.sub => state # "init"

\* "you can always *try* to write to ReadyStateChan because in the cases where you
\* cannot the message pump loop would have iterated anyway": when the pump waits
\* without listening for messages although the client is ready, something that will
\* wake it is already there.
Awake ==
    (Selecting /\ pump.sel = "off" /\ IsReadyForMessages /\ state = "subscribed")
      => readyChan \/ (subChan /\ pump.subOpen) \/ pokes > 0 \/ io.pc = "wake"

\* After at most one IDENTIFY, the pump works with the settings of the client once
\* it has read the event, and client.Writer goes through all the negotiated layers.
\* A second IDENTIFY, which stateInit allows, is never read by the pump, and its
\* buffer size puts a Writer on the bare connection; hence the condition.
SettingsAgree ==
    (identifies <= 1 /\ Open) =>
        /\ writer = layers
        /\ (~identifyChan.on /\ io.pc = "read") =>
              pump.version = version /\ pump.hb = hb /\ pump.ticker = ticker

\* No topic comes into being through a client that the policies keep out: when it
\* does, TLS has been negotiated and the authorizations are not stale.
PolicyFirst == [][made' # made => Secure /\ (authOn => auth' = "ok")]_vars

\* What has been written to the buffer goes out in the end, also with the flush
\* ticker off, and however ready the client is: a heartbeat flushes it.  (After two
\* IDENTIFYs the pump may have neither.)
Flushed == (buf > 0) ~> (buf = 0 \/ pump.pc = "exit" \/ identifies > 1)
=============================================================================
