---------------------------- MODULE ClientProofs ----------------------------
(***************************************************************************)
(* Client for every set of IDENTIFYs, every policy and every bound: its    *)
(* types, the wake-up of messagePump (Awake), the settings of the two      *)
(* goroutines (SettingsAgree), and the policies (PolicyFirst).             *)
(***************************************************************************)
EXTENDS Client, TLAPS

USE DEF settings, link, wakes, policy, flight, counts, history

Layer == {"tls", "snappy", "deflate"}

IoPC == {"read", "upgrade", "answered", "wake", "close", "closed"}

Event == [on : BOOLEAN, hb : BOOLEAN, ticker : BOOLEAN, version : Nat]

Pump == [pc : {"top", "select", "sending", "write", "exit"}, sub : BOOLEAN,
         sel : {"off", "on", "flush"},
         flushed : BOOLEAN, subOpen : BOOLEAN, idOpen : BOOLEAN, hb : BOOLEAN,
         ticker : BOOLEAN, version : Nat]

\* The types of the variables that are not counters.
IoType ==
    /\ io \in [pc : IoPC, up : Upgrades]
    /\ io.pc = "upgrade" => io.up # << >>

SettingsType ==
    /\ hb \in BOOLEAN /\ ticker \in BOOLEAN /\ buffered \in BOOLEAN /\ version \in Nat
    /\ identifyChan \in Event
    /\ identifies \in Nat

PumpType ==
    /\ pump \in Pump
    /\ subChan \in BOOLEAN /\ readyChan \in BOOLEAN /\ paused \in BOOLEAN
    /\ pokes \in Nat

PolicyType ==
    /\ authOn \in BOOLEAN /\ tlsRequired \in BOOLEAN
    /\ auth \in {"none", "ok", "expired"}

\* What a goroutine between two steps still owes InFlightCount: the pump a message it
\* has put in flight, IOLoop and the scan one they have taken out.
Sending == IF pump.pc = "sending" THEN 1 ELSE 0
Answering == IF io.pc = "answered" THEN 1 ELSE 0
TimingOut == IF "timeout" \in halfway THEN 1 ELSE 0

\* A message is in one place: waiting, in flight, or with the scan.  InFlightCount
\* follows the map, but for what is owed to it and for what an Empty stored over:
\* that hides at most what was in flight or owed then, and adds at most a message that
\* was put.
CountType ==
    /\ state \in {"init", "subscribed", "closing"}
    /\ ReadyCount \in 0..MaxRdyCount
    /\ mem \in Nat /\ inflight \in Nat /\ puts \in Nat
    /\ halfway \subseteq {"timeout", "empty"}
    /\ inflight + mem + TimingOut <= puts /\ puts <= MaxMsgs
    /\ InFlightCount \in Int
    /\ InFlightCount + Sending + mem - Answering <= puts
    /\ InFlightCount + Sending - inflight - Answering - TimingOut >= -(MaxMsgs + 1)
    /\ pump.pc = "sending" => puts >= 1
    /\ buf \in 0..BufferSize

\* SubEventChan is written once, by the SUB that leaves stateInit, and read once,
\* after which the pump has its channel and no longer listens.
SubOnce ==
    /\ state # "init" <=> subChan \/ pump.sub
    /\ pump.subOpen <=> ~pump.sub
    /\ subChan => ~pump.sub

Types == IoType /\ SettingsType /\ PumpType /\ PolicyType /\ CountType /\ SubOnce

\* Whether a goroutine's settings, or those in an event, are the client's.
Same(r) == r.hb = hb /\ r.ticker = ticker /\ r.version = version

\* Up to the end of the first IDENTIFY: before it, nothing has been negotiated and
\* the pump works with the defaults; after it, the client's settings are in the
\* event as long as the pump, still listening, has not read it, and in the pump from
\* then on (an IDENTIFY that is refused leaves the two apart, but is fatal); TLS
\* is the first layer to be added, and one compression the last.
Agree ==
    /\ layers \subseteq Layer /\ writer \subseteq Layer
    /\ identifies = 0 => /\ layers = {} /\ writer = {}
                         /\ ~identifyChan.on /\ pump.idOpen /\ Same(pump)
                         /\ io.pc # "upgrade"
    /\ identifies <= 1 =>
          /\ writer = layers
          /\ io.pc \notin {"close", "closed"} =>
                /\ identifyChan.on => Same(identifyChan) /\ pump.idOpen
                /\ ~identifyChan.on => Same(pump)
          /\ io.pc = "upgrade" => IF Head(io.up) = "tls" THEN layers = {}
                                  ELSE layers \subseteq {"tls"}

LEMMA UpgradesFacts ==
    /\ << >> \in Upgrades
    /\ \A u \in Upgrades : u # << >> => /\ Tail(u) \in Upgrades
                                        /\ Head(u) \in Layer
                                        /\ Head(u) = "tls" \/ Tail(u) = << >>
                                        /\ Head(Tail(u)) # "tls" \/ Tail(u) = << >>
BY DEF Upgrades, Layer

LEMMA InitTypes == Init => Types
<1> SUFFICES ASSUME Init PROVE Types
  OBVIOUS
<1> USE DEF Init
<1>1. IoType
  BY UpgradesFacts DEF IoType, IoPC
<1>2. SettingsType
  BY DEF SettingsType, Event, NoEvent
<1>3. PumpType
  BY DEF PumpType, Pump
<1>4. PolicyType
  BY PolicyAssumption DEF PolicyType
<1>5. CountType
  BY BoundAssumption DEF CountType, Sending, Answering, TimingOut
<1>6. SubOnce
  BY DEF SubOnce
<1> QED  BY <1>1, <1>2, <1>3, <1>4, <1>5, <1>6 DEF Types

-----------------------------------------------------------------------------
(* Types: every step preserves them.                                       *)

\* A step that moves no message and counts none.
LEMMA CountStays ==
    ASSUME CountType,
           UNCHANGED <<mem, inflight, halfway, puts, InFlightCount>>,
           state' \in {"init", "subscribed", "closing"},
           ReadyCount' \in 0..MaxRdyCount,
           buf' \in 0..BufferSize,
           pump'.pc = "sending" <=> pump.pc = "sending",
           io'.pc = "answered" <=> io.pc = "answered"
    PROVE  CountType'
BY DEF CountType, Sending, Answering, TimingOut

LEMMA IdentifyTypes ==
    ASSUME Types, NEW r \in Identify, IDENTIFY(r)
    PROVE  Types'
<1> USE DEF Types, IDENTIFY
<1>1. io' \in {[pc |-> "close", up |-> << >>], [pc |-> "read", up |-> << >>],
              [pc |-> "upgrade", up |-> r.up]} /\ (io'.pc = "upgrade" => r.up # << >>)
  BY DEF Fatal
<1>2. IoType'
  BY <1>1, UpgradesFacts, IdentifyAssumption DEF IoType, IoPC
<1>3. hb' \in BOOLEAN /\ ticker' \in BOOLEAN /\ buffered' \in BOOLEAN
  BY DEF SettingsType, Refused, UpdateSettings, SetHeartbeatInterval, SetOutputBuffer
<1>4. version' \in Nat /\ identifies' \in Nat
  BY DEF SettingsType, Refused, UpdateSettings, SetSampleRateAndTimeout
<1>5. identifyChan' \in Event
  <2>1. CASE UNCHANGED identifyChan
    BY <2>1 DEF SettingsType
  <2>2. CASE UpdateSettings(r)
    BY <1>3, <1>4, <2>2 DEF SettingsType, UpdateSettings, Event
  <2> QED  BY <2>1, <2>2 DEF Refused
<1>6. SettingsType'
  BY <1>3, <1>4, <1>5 DEF SettingsType
<1>7. CountType'
  BY <1>1, BoundAssumption, CountStays DEF CountType, Reading, Respond
<1>8. PumpType' /\ PolicyType' /\ SubOnce'
  BY DEF PumpType, PolicyType, SubOnce
<1> QED  BY <1>2, <1>6, <1>7, <1>8

LEMMA UpgradeTypes ==
    ASSUME Types, Upgrade
    PROVE  Types'
<1> USE DEF Types, Upgrade
<1>1. io.up \in Upgrades /\ io.up # << >>
  BY DEF IoType
<1>2. Tail(io.up) \in Upgrades
  BY <1>1, UpgradesFacts
<1>3. \/ io' = [pc |-> "close", up |-> << >>]
      \/ io' = [pc |-> IF Tail(io.up) = << >> THEN "read" ELSE "upgrade", up |-> Tail(io.up)]
  BY DEF Fatal
<1>4. IoType'
  <2>1. CASE io' = [pc |-> "close", up |-> << >>]
    BY <2>1, UpgradesFacts DEF IoType, IoPC
  <2>2. CASE io' = [pc |-> IF Tail(io.up) = << >> THEN "read" ELSE "upgrade",
                    up |-> Tail(io.up)]
    BY <1>2, <2>2 DEF IoType, IoPC
  <2> QED  BY <1>3, <2>1, <2>2
<1>5. CountType'
  BY <1>3, BoundAssumption, CountStays DEF CountType, Reading, Respond
<1>6. SettingsType' /\ PumpType' /\ PolicyType' /\ SubOnce'
  BY DEF SettingsType, PumpType, PolicyType, SubOnce
<1> QED  BY <1>4, <1>5, <1>6

LEMMA PumpTopTypes ==
    ASSUME Types, PumpTop
    PROVE  Types'
<1> USE DEF Types, PumpTop
<1>1. \/ pump' = [pump EXCEPT !.pc = "select", !.sel = "off", !.flushed = TRUE]
      \/ pump' = [pump EXCEPT !.pc = "exit"]
      \/ pump' = [pump EXCEPT !.pc = "select", !.sel = "on"]
      \/ pump' = [pump EXCEPT !.pc = "select", !.sel = "flush"]
  BY DEF Flush, PumpQuit
<1>2. PumpType'
  BY <1>1 DEF PumpType, Pump
<1>3. CountType'
  <2>1. pump.pc # "sending" /\ pump'.pc # "sending"
    BY DEF PumpType, Pump, Selecting, Flush, PumpQuit
  <2> QED  BY <2>1, BoundAssumption, CountStays DEF CountType, Flush, PumpQuit
<1>4. SubOnce'
  BY <1>1 DEF SubOnce, PumpType, Pump
<1>5. IoType' /\ SettingsType' /\ PolicyType'
  BY DEF IoType, SettingsType, PolicyType
<1> QED  BY <1>2, <1>3, <1>4, <1>5

LEMMA AUTHTypes ==
    ASSUME Types, AUTH
    PROVE  Types'
<1> USE DEF Types, AUTH, QueryAuthd, Reading, Done, Fatal, Respond
<1>1. IoType'
  BY UpgradesFacts DEF IoType, IoPC
<1>2. PolicyType'
  BY DEF PolicyType
<1>3. CountType'
  BY BoundAssumption, CountStays DEF CountType, Reading, Respond
<1>4. SettingsType' /\ PumpType' /\ SubOnce'
  BY DEF SettingsType, PumpType, SubOnce
<1> QED  BY <1>1, <1>2, <1>3, <1>4

LEMMA PublishTypes ==
    ASSUME Types, Publish
    PROVE  Types'
<1> USE DEF Types, Publish, CheckAuth, IsAuthorized, HasAuthorizations,
        Reading, Done, Fatal, Respond
<1>1. IoType'
  BY UpgradesFacts DEF IoType, IoPC
<1>2. PolicyType'
  BY DEF PolicyType
<1>3. CountType'
  BY BoundAssumption, CountStays DEF CountType, Reading, Respond
<1>4. SettingsType' /\ PumpType' /\ SubOnce'
  BY DEF SettingsType, PumpType, SubOnce
<1> QED  BY <1>1, <1>2, <1>3, <1>4

LEMMA MPUBTypes ==
    ASSUME Types, MPUB
    PROVE  Types'
<1> USE DEF Types, MPUB, readMPUB, CheckAuth, IsAuthorized, HasAuthorizations,
        Reading, Done, Fatal, Respond
<1>1. IoType'
  BY UpgradesFacts DEF IoType, IoPC
<1>2. PolicyType'
  BY DEF PolicyType
<1>3. CountType'
  BY BoundAssumption, CountStays DEF CountType, Reading, Respond
<1>4. SettingsType' /\ PumpType' /\ SubOnce'
  BY DEF SettingsType, PumpType, SubOnce
<1> QED  BY <1>1, <1>2, <1>3, <1>4

LEMMA SUBTypes ==
    ASSUME Types, SUB
    PROVE  Types'
<1> USE DEF Types, SUB, CheckAuth, IsAuthorized, HasAuthorizations, Reading,
        Done, Fatal, Respond
<1>1. IoType'
  BY UpgradesFacts DEF IoType, IoPC
<1>2. PumpType'
  BY DEF PumpType
<1>3. PolicyType'
  BY DEF PolicyType
<1>4. CountType'
  BY BoundAssumption, CountStays DEF CountType, Reading, Respond
<1>5. SubOnce'
  BY DEF SubOnce
<1>6. SettingsType'
  BY DEF SettingsType
<1> QED  BY <1>1, <1>2, <1>3, <1>4, <1>5, <1>6

LEMMA RDYTypes ==
    ASSUME Types, NEW n \in 0..(MaxRdyCount + 1), RDY(n)
    PROVE  Types'
<1> USE DEF Types, RDY, OutOfRange, SetReadyCount, NoResponse, Reading, Done,
        Fatal, Respond
<1>1. IoType'
  BY UpgradesFacts DEF IoType, IoPC
<1>2. CountType'
  BY BoundAssumption, CountStays DEF CountType, Reading, Respond
<1>3. SettingsType' /\ PumpType' /\ PolicyType' /\ SubOnce'
  BY DEF SettingsType, PumpType, PolicyType, SubOnce
<1> QED  BY <1>1, <1>2, <1>3

LEMMA CLSTypes ==
    ASSUME Types, CLS
    PROVE  Types'
<1> USE DEF Types, CLS, SetReadyCount, Reading, Done, Fatal, Respond
<1>1. IoType'
  BY UpgradesFacts DEF IoType, IoPC
<1>2. CountType'
  BY BoundAssumption, CountStays DEF CountType, Reading, Respond
<1>3. SubOnce'
  BY DEF SubOnce
<1>4. SettingsType' /\ PumpType' /\ PolicyType'
  BY DEF SettingsType, PumpType, PolicyType
<1> QED  BY <1>1, <1>2, <1>3, <1>4

LEMMA AnswerTypes ==
    ASSUME Types, NEW back \in {0, 1}, Answer(back)
    PROVE  Types'
<1> USE DEF Types, Answer, NoResponse, Reading, Done, Respond
<1>1. IoType'
  BY UpgradesFacts DEF IoType, IoPC
<1>2. CountType'
  <2>1. CASE UNCHANGED <<inflight, mem>> /\ Done /\ Respond
    BY <2>1, BoundAssumption, CountStays DEF CountType
  <2>2. CASE /\ inflight > 0 /\ inflight' = inflight - 1 /\ mem' = mem + back
             /\ io' = [pc |-> "answered", up |-> << >>] /\ NoResponse
    BY <2>2 DEF CountType, Sending, Answering, TimingOut
  <2> QED  BY <2>1, <2>2
<1>3. SettingsType' /\ PumpType' /\ PolicyType' /\ SubOnce'
  BY DEF SettingsType, PumpType, PolicyType, SubOnce
<1> QED  BY <1>1, <1>2, <1>3

LEMMA AnsweredTypes ==
    ASSUME Types, Answered
    PROVE  Types'
<1> USE DEF Types, Answered
<1>1. IoType'
  BY UpgradesFacts DEF IoType, IoPC
<1>2. CountType'
  BY DEF CountType, Sending, Answering, TimingOut
<1>3. SettingsType' /\ PumpType' /\ PolicyType' /\ SubOnce'
  BY DEF SettingsType, PumpType, PolicyType, SubOnce
<1> QED  BY <1>1, <1>2, <1>3

LEMMA WakeTypes ==
    ASSUME Types, Wake
    PROVE  Types'
<1> USE DEF Types, Wake, Done
<1>1. IoType'
  BY UpgradesFacts DEF IoType, IoPC
<1>2. PumpType'
  BY DEF PumpType
<1>3. SettingsType' /\ PolicyType' /\ SubOnce'
  BY DEF SettingsType, PolicyType, SubOnce
<1>4. CountType'
  BY BoundAssumption, CountStays DEF CountType, Reading, Respond
<1> QED  BY <1>1, <1>2, <1>3, <1>4

LEMMA PokeTypes ==
    ASSUME Types, Poke
    PROVE  Types'
<1> USE DEF Types, Poke
<1>1. PumpType'
  BY DEF PumpType
<1>2. IoType' /\ SettingsType' /\ PolicyType' /\ SubOnce'
  BY DEF IoType, SettingsType, PolicyType, SubOnce
<1>3. CountType'
  BY BoundAssumption, CountStays DEF CountType, Reading, Respond
<1> QED  BY <1>1, <1>2, <1>3

LEMMA CloseTypes ==
    ASSUME Types, Close
    PROVE  Types'
<1> USE DEF Types, Close
<1>1. IoType'
  BY UpgradesFacts DEF IoType, IoPC
<1>2. SettingsType' /\ PumpType' /\ PolicyType' /\ SubOnce'
  BY DEF SettingsType, PumpType, PolicyType, SubOnce
<1>3. CountType'
  BY BoundAssumption, CountStays DEF CountType, Reading, Respond
<1> QED  BY <1>1, <1>2, <1>3

LEMMA PutTypes ==
    ASSUME Types, Put
    PROVE  Types'
<1> USE DEF Types, Put
<1>1. CountType'
  <2>1. Sending' = Sending /\ Answering' = Answering /\ TimingOut' = TimingOut
    BY DEF Sending, Answering, TimingOut
  <2>2. Sending \in {0, 1} /\ Answering \in {0, 1} /\ TimingOut \in {0, 1}
    BY DEF Sending, Answering, TimingOut
  <2> QED  BY <2>1, <2>2, BoundAssumption DEF CountType
<1>2. IoType' /\ SettingsType' /\ PumpType' /\ PolicyType' /\ SubOnce'
  BY DEF IoType, SettingsType, PumpType, PolicyType, SubOnce
<1> QED  BY <1>1, <1>2

LEMMA ScanTypes ==
    ASSUME Types, processInFlightQueue
    PROVE  Types'
<1> USE DEF Types, processInFlightQueue
<1>1. CountType'
  BY DEF CountType, Sending, Answering, TimingOut
<1>2. IoType' /\ SettingsType' /\ PumpType' /\ PolicyType' /\ SubOnce'
  BY DEF IoType, SettingsType, PumpType, PolicyType, SubOnce
<1> QED  BY <1>1, <1>2

LEMMA TimedOutTypes ==
    ASSUME Types, TimedOutMessage
    PROVE  Types'
<1> USE DEF Types, TimedOutMessage
<1>1. PumpType'
  BY DEF PumpType
<1>2. CountType'
  BY DEF CountType, Sending, Answering, TimingOut
<1>3. IoType' /\ SettingsType' /\ PolicyType' /\ SubOnce'
  BY DEF IoType, SettingsType, PolicyType, SubOnce
<1> QED  BY <1>1, <1>2, <1>3

LEMMA InitPQTypes ==
    ASSUME Types, initPQ
    PROVE  Types'
<1> USE DEF Types, initPQ
<1>1. CountType'
  <2>1. Sending' = Sending /\ Answering' = Answering /\ TimingOut' = TimingOut
    BY DEF Sending, Answering, TimingOut
  <2>2. Sending \in {0, 1} /\ Answering \in {0, 1} /\ TimingOut \in {0, 1}
    BY DEF Sending, Answering, TimingOut
  <2> QED  BY <2>1, <2>2, BoundAssumption DEF CountType
<1>2. IoType' /\ SettingsType' /\ PumpType' /\ PolicyType' /\ SubOnce'
  BY DEF IoType, SettingsType, PumpType, PolicyType, SubOnce
<1> QED  BY <1>1, <1>2

LEMMA EmptyTypes ==
    ASSUME Types, Empty
    PROVE  Types'
<1> USE DEF Types, Empty
<1>1. PumpType'
  BY DEF PumpType
<1>2. CountType'
  <2>1. Sending' = Sending /\ Answering' = Answering /\ TimingOut' = TimingOut
    BY DEF Sending, Answering, TimingOut
  <2>2. Sending \in {0, 1} /\ Answering \in {0, 1} /\ TimingOut \in {0, 1}
    BY DEF Sending, Answering, TimingOut
  <2>3. Sending <= puts
    BY DEF CountType, Sending
  <2> QED  BY <2>1, <2>2, <2>3, BoundAssumption DEF CountType
<1>3. IoType' /\ SettingsType' /\ PolicyType' /\ SubOnce'
  BY DEF IoType, SettingsType, PolicyType, SubOnce
<1> QED  BY <1>1, <1>2, <1>3

LEMMA doPauseTypes ==
    ASSUME Types, NEW p \in BOOLEAN, doPause(p)
    PROVE  Types'
<1> USE DEF Types, doPause
<1>1. PumpType'
  BY DEF PumpType
<1>2. IoType' /\ SettingsType' /\ PolicyType' /\ SubOnce'
  BY DEF IoType, SettingsType, PolicyType, SubOnce
<1>3. CountType'
  BY BoundAssumption, CountStays DEF CountType, Reading, Respond
<1> QED  BY <1>1, <1>2, <1>3

LEMMA AuthExpiresTypes ==
    ASSUME Types, AuthExpires
    PROVE  Types'
<1> USE DEF Types, AuthExpires
<1>1. PolicyType'
  BY DEF PolicyType
<1>2. IoType' /\ SettingsType' /\ PumpType' /\ SubOnce'
  BY DEF IoType, SettingsType, PumpType, SubOnce
<1>3. CountType'
  BY BoundAssumption, CountStays DEF CountType, Reading, Respond
<1> QED  BY <1>1, <1>2, <1>3

LEMMA PumpFlushTypes ==
    ASSUME Types, PumpFlush
    PROVE  Types'
<1> USE DEF Types, PumpFlush, Flush, PumpQuit
<1>1. PumpType'
  BY DEF PumpType, Pump, SettingsType
<1>2. CountType'
  <2>1. pump.pc # "sending" /\ pump'.pc # "sending"
    BY DEF PumpType, Pump, Selecting
  <2> QED  BY <2>1, BoundAssumption, CountStays DEF CountType, Flush, PumpQuit
<1>3. SubOnce'
  BY DEF SubOnce, PumpType, Pump
<1>4. IoType' /\ SettingsType' /\ PolicyType'
  BY DEF IoType, SettingsType, PolicyType
<1> QED  BY <1>1, <1>2, <1>3, <1>4

LEMMA PumpReadyTypes ==
    ASSUME Types, PumpReady
    PROVE  Types'
<1> USE DEF Types, PumpReady, Loop
<1>1. PumpType'
  BY DEF PumpType, Pump, SettingsType
<1>2. SubOnce'
  BY DEF SubOnce, PumpType, Pump
<1>3. IoType' /\ SettingsType' /\ PolicyType'
  BY DEF IoType, SettingsType, PolicyType
<1>4. CountType'
  <2>1. pump.pc # "sending" /\ pump'.pc # "sending"
    BY DEF PumpType, Pump, Selecting
  <2> QED  BY <2>1, BoundAssumption, CountStays DEF CountType, Flush, PumpQuit
<1> QED  BY <1>1, <1>2, <1>3, <1>4

LEMMA PumpSubTypes ==
    ASSUME Types, PumpSub
    PROVE  Types'
<1> USE DEF Types, PumpSub, Loop
<1>1. PumpType'
  BY DEF PumpType, Pump, SettingsType
<1>2. SubOnce'
  BY DEF SubOnce, PumpType, Pump
<1>3. IoType' /\ SettingsType' /\ PolicyType'
  BY DEF IoType, SettingsType, PolicyType
<1>4. CountType'
  <2>1. pump.pc # "sending" /\ pump'.pc # "sending"
    BY DEF PumpType, Pump, Selecting
  <2> QED  BY <2>1, BoundAssumption, CountStays DEF CountType, Flush, PumpQuit
<1> QED  BY <1>1, <1>2, <1>3, <1>4

LEMMA PumpIdentifyTypes ==
    ASSUME Types, PumpIdentify
    PROVE  Types'
<1> USE DEF Types, PumpIdentify, Loop, Adopted, NoEvent, Event
<1>1. SettingsType'
  BY DEF SettingsType
<1>2. PumpType'
  BY DEF PumpType, Pump, SettingsType
<1>3. SubOnce'
  BY DEF SubOnce, PumpType, Pump
<1>4. IoType' /\ PolicyType'
  BY DEF IoType, PolicyType
<1>5. CountType'
  <2>1. pump.pc # "sending" /\ pump'.pc # "sending"
    BY DEF PumpType, Pump, Selecting
  <2> QED  BY <2>1, BoundAssumption, CountStays DEF CountType, Flush, PumpQuit
<1> QED  BY <1>1, <1>2, <1>3, <1>4, <1>5

LEMMA PumpHeartbeatTypes ==
    ASSUME Types, PumpHeartbeat
    PROVE  Types'
<1> USE DEF Types, PumpHeartbeat, Flush, PumpQuit
<1>1. PumpType'
  BY DEF PumpType, Pump, SettingsType
<1>2. CountType'
  <2>1. pump.pc # "sending" /\ pump'.pc # "sending"
    BY DEF PumpType, Pump, Selecting
  <2> QED  BY <2>1, BoundAssumption, CountStays DEF CountType, Flush, PumpQuit
<1>3. SubOnce'
  BY DEF SubOnce, PumpType, Pump
<1>4. IoType' /\ SettingsType' /\ PolicyType'
  BY DEF IoType, SettingsType, PolicyType
<1> QED  BY <1>1, <1>2, <1>3, <1>4

LEMMA PumpMessageTypes ==
    ASSUME Types, PumpMessage
    PROVE  Types'
<1> USE DEF Types, PumpMessage, Selecting
<1>1. PumpType'
  BY DEF PumpType, Pump
<1>2. CountType'
  <2>1. pump.pc = "select" /\ pump'.pc = "sending"
    BY DEF PumpType, Pump
  <2> QED  BY <2>1 DEF CountType, Sending, Answering, TimingOut
<1>3. SubOnce'
  BY DEF SubOnce, PumpType, Pump
<1>4. IoType' /\ SettingsType' /\ PolicyType'
  BY DEF IoType, SettingsType, PolicyType
<1> QED  BY <1>1, <1>2, <1>3, <1>4

LEMMA SendingMessageTypes ==
    ASSUME Types, SendingMessage
    PROVE  Types'
<1> USE DEF Types, SendingMessage, Selecting
<1>1. PumpType'
  BY DEF PumpType, Pump
<1>2. CountType'
  <2>1. pump.pc = "sending" /\ pump'.pc = "write"
    BY DEF PumpType, Pump
  <2> QED  BY <2>1 DEF CountType, Sending, Answering, TimingOut
<1>3. SubOnce'
  BY DEF SubOnce, PumpType, Pump
<1>4. IoType' /\ SettingsType' /\ PolicyType'
  BY DEF IoType, SettingsType, PolicyType
<1> QED  BY <1>1, <1>2, <1>3, <1>4

LEMMA SendMessageTypes ==
    ASSUME Types, SendMessage
    PROVE  Types'
<1> USE DEF Types, SendMessage, Loop, PumpQuit
<1>1. PumpType'
  BY DEF PumpType, Pump
<1>2. CountType'
  <2>1. pump.pc # "sending" /\ pump'.pc # "sending"
    BY DEF PumpType, Pump
  <2>2. buf' \in 0..BufferSize
    BY BoundAssumption DEF CountType, Written
  <2> QED  BY <2>1, <2>2, CountStays DEF CountType
<1>3. SubOnce'
  BY DEF SubOnce, PumpType, Pump
<1>4. IoType' /\ SettingsType' /\ PolicyType'
  BY DEF IoType, SettingsType, PolicyType
<1> QED  BY <1>1, <1>2, <1>3, <1>4

LEMMA PumpSkipTypes ==
    ASSUME Types, PumpSkip
    PROVE  Types'
<1> USE DEF Types, PumpSkip, Loop, Selecting
<1>1. PumpType'
  BY DEF PumpType, Pump, SettingsType
<1>2. CountType'
  <2>1. pump.pc # "sending" /\ pump'.pc # "sending"
    BY DEF PumpType, Pump
  <2> QED  BY <2>1 DEF CountType, Sending, Answering, TimingOut
<1>3. SubOnce'
  BY DEF SubOnce, PumpType, Pump
<1>4. IoType' /\ SettingsType' /\ PolicyType'
  BY DEF IoType, SettingsType, PolicyType
<1> QED  BY <1>1, <1>2, <1>3, <1>4

LEMMA PumpExitTypes ==
    ASSUME Types, PumpExit
    PROVE  Types'
<1> USE DEF Types, PumpExit, PumpQuit
<1>1. PumpType'
  BY DEF PumpType, Pump, SettingsType
<1>2. SubOnce'
  BY DEF SubOnce, PumpType, Pump
<1>3. IoType' /\ SettingsType' /\ PolicyType'
  BY DEF IoType, SettingsType, PolicyType
<1>4. CountType'
  <2>1. pump.pc # "sending" /\ pump'.pc # "sending"
    BY DEF PumpType, Pump, Selecting
  <2> QED  BY <2>1, BoundAssumption, CountStays DEF CountType, Flush, PumpQuit
<1> QED  BY <1>1, <1>2, <1>3, <1>4

LEMMA NextTypes ==
    ASSUME Types, [Next]_vars
    PROVE  Types'
<1>1. ASSUME NEW r \in Identify, IDENTIFY(r) PROVE Types'
  BY <1>1, IdentifyTypes
<1>2. CASE AUTH
  BY <1>2, AUTHTypes
<1>3. CASE PUB \/ DPUB
  BY <1>3, PublishTypes DEF PUB, DPUB
<1>4. CASE MPUB
  BY <1>4, MPUBTypes
<1>5. CASE SUB
  BY <1>5, SUBTypes
<1>6. CASE CLS
  BY <1>6, CLSTypes
<1>7. ASSUME NEW n \in 0..(MaxRdyCount + 1), RDY(n) PROVE Types'
  BY <1>7, RDYTypes
<1>8. CASE Answer(0) \/ Answer(1)
  BY <1>8, AnswerTypes
<1>9. CASE Upgrade
  BY <1>9, UpgradeTypes
<1>10. CASE Answered \/ Wake \/ Poke \/ Close
  BY <1>10, AnsweredTypes, WakeTypes, PokeTypes, CloseTypes
<1>11. CASE Put \/ AuthExpires
  BY <1>11, PutTypes, AuthExpiresTypes
<1>12. CASE processInFlightQueue \/ TimedOutMessage
  BY <1>12, ScanTypes, TimedOutTypes
<1>13. CASE initPQ \/ Empty
  BY <1>13, InitPQTypes, EmptyTypes
<1>14. CASE doPause(TRUE) \/ doPause(FALSE)
  BY <1>14, doPauseTypes
<1>15. CASE PumpTop \/ PumpFlush \/ PumpReady \/ PumpSub \/ PumpIdentify
  BY <1>15, PumpTopTypes, PumpFlushTypes, PumpReadyTypes, PumpSubTypes, PumpIdentifyTypes
<1>16. CASE \/ PumpHeartbeat \/ PumpMessage \/ SendingMessage \/ SendMessage
            \/ PumpSkip \/ PumpExit
  BY <1>16, PumpHeartbeatTypes, PumpMessageTypes, SendingMessageTypes, SendMessageTypes,
     PumpSkipTypes, PumpExitTypes
<1>17. CASE UNCHANGED vars
  BY <1>17 DEF vars, Types, IoType, SettingsType, PumpType, PolicyType, CountType, Sending,
               Answering, TimingOut, SubOnce
<1> QED  BY <1>1, <1>2, <1>3, <1>4, <1>5, <1>6, <1>7, <1>8, <1>9, <1>10, <1>11, <1>12,
           <1>13, <1>14, <1>15, <1>16, <1>17 DEF Next, Commands, Outside

\* Types, and what the code keeps with them: IOLoop and the pump are at places they
\* have, the counters within their bounds, and SubEventChan is used once.
THEOREM TypesInvariant == Spec => []Types
<1>1. Init => Types
  BY InitTypes
<1>2. Types /\ [Next]_vars => Types'
  BY NextTypes
<1> QED  BY <1>1, <1>2, PTL DEF Spec

\* Type correctness of a client connection, for every set of IDENTIFYs and bound: in
\* particular ReadyCount keeps to MaxRdyCount (RDY), and the pump has a channel
\* only after a SUB; and InFlightCount, however the steps of the pump, the answers, the
\* scan and Empty fall between one another, strays from 0 at most MaxMsgs + 2 below and
\* MaxMsgs + 1 above.
THEOREM TypeCorrect == Spec => []TypeOK
<1>1. Types => TypeOK
  BY BoundAssumption DEF Types, CountType, Sending, Answering, TimingOut, PumpType, Pump,
                         SubOnce, TypeOK
<1> QED  BY <1>1, TypesInvariant, PTL

-----------------------------------------------------------------------------
(* The pump is woken.                                                       *)

\* A step that leaves everything Awake speaks of alone, or lets the pump go round.
LEMMA AwakeStays ==
    ASSUME Awake,
           \/ UNCHANGED <<state, pump, ReadyCount, InFlightCount, paused, readyChan,
                          subChan, pokes>> /\ io.pc # "wake"
           \/ pump'.pc # "select"
    PROVE  Awake'
BY DEF Awake, Selecting, IsReadyForMessages

LEMMA NextAwake ==
    ASSUME Types, Awake, [Next]_vars
    PROVE  Awake'
<1>1. ASSUME NEW r \in Identify, IDENTIFY(r) PROVE Awake'
  BY <1>1, AwakeStays DEF IDENTIFY, Reading
<1>2. CASE AUTH \/ PUB \/ DPUB \/ MPUB
  BY <1>2, AwakeStays DEF AUTH, PUB, DPUB, Publish, MPUB, Reading
<1>3. CASE SUB
  <2>1. CASE UNCHANGED <<state, subChan>>
    BY <1>3, <2>1, AwakeStays DEF SUB, Reading
  <2>2. CASE subChan' /\ state = "init"
    BY <1>3, <2>2 DEF SUB, Awake, Types, SubOnce, PumpType
  <2> QED  BY <1>3, <2>1, <2>2 DEF SUB
<1>4. CASE CLS
  <2>1. CASE UNCHANGED <<state, ReadyCount, readyChan>>
    BY <1>4, <2>1, AwakeStays DEF CLS, Reading
  <2>2. CASE state' = "closing"
    BY <2>2 DEF Awake
  <2> QED  BY <1>4, <2>1, <2>2 DEF CLS
<1>5. ASSUME NEW n \in 0..(MaxRdyCount + 1), RDY(n) PROVE Awake'
  <2>1. CASE UNCHANGED <<ReadyCount, readyChan>>
    BY <1>5, <2>1, AwakeStays DEF RDY, Reading
  <2>2. CASE SetReadyCount(n)
    BY <2>2 DEF SetReadyCount, Awake
  <2> QED  BY <1>5, <2>1, <2>2 DEF RDY
<1>6. ASSUME NEW back \in {0, 1}, Answer(back) PROVE Awake'
  BY <1>6, AwakeStays DEF Answer, Reading
<1>7. CASE Upgrade \/ Close
  BY <1>7, AwakeStays DEF Upgrade, Close
<1>8. CASE Answered \/ Wake \/ Poke
  BY <1>8 DEF Answered, Wake, Poke, Awake
<1>9. CASE Put \/ AuthExpires \/ processInFlightQueue \/ initPQ
  BY <1>9 DEF Put, AuthExpires, processInFlightQueue, initPQ, Awake, Selecting,
             IsReadyForMessages
<1>10. CASE TimedOutMessage \/ Empty
  BY <1>10 DEF TimedOutMessage, Empty, Awake, Types, PumpType
<1>11. ASSUME NEW p \in BOOLEAN, doPause(p) PROVE Awake'
  <2>1. CASE state = "init"
    BY <1>11, <2>1 DEF doPause, Awake
  <2>2. CASE state # "init"
    BY <1>11, <2>2 DEF doPause, Awake, Types, PumpType
  <2> QED  BY <2>1, <2>2
<1>12. CASE PumpTop
  <2>1. CASE pump'.pc # "select"
    BY <2>1, AwakeStays
  <2>2. CASE pump'.sel # "off"
    BY <2>2 DEF Awake
  <2>3. CASE pump' = [pump EXCEPT !.pc = "select", !.sel = "off", !.flushed = TRUE]
               /\ (~pump.sub \/ ~IsReadyForMessages)
    <3>1. IsReadyForMessages' <=> IsReadyForMessages
      BY <1>12 DEF PumpTop, IsReadyForMessages
    <3>2. state' = state /\ subChan' = subChan /\ pump'.subOpen = pump.subOpen
      BY <1>12, <2>3 DEF PumpTop, Types, PumpType, Pump
    <3>3. state # "init" /\ ~pump.sub => subChan /\ pump.subOpen
      BY DEF Types, SubOnce
    <3> QED  BY <2>3, <3>1, <3>2, <3>3 DEF Awake
  <2> QED  BY <1>12, <2>1, <2>2, <2>3 DEF PumpTop, Flush, PumpQuit, Types, PumpType, Pump
<1>13. CASE PumpFlush \/ PumpHeartbeat
  BY <1>13, AwakeStays DEF PumpFlush, PumpHeartbeat, Flush, PumpQuit, Types, PumpType, Pump
<1>14. CASE PumpReady \/ PumpSub \/ PumpIdentify
  BY <1>14, AwakeStays DEF PumpReady, PumpSub, PumpIdentify, Adopted, Loop, Types, PumpType,
                           Pump
<1>15. CASE PumpMessage \/ SendingMessage \/ SendMessage \/ PumpSkip \/ PumpExit
  BY <1>15, AwakeStays DEF PumpMessage, SendingMessage, SendMessage, PumpSkip, PumpExit,
                           Loop, PumpQuit, Types, PumpType,
                           Pump
<1>16. CASE UNCHANGED vars
  BY <1>16 DEF vars, Awake, Selecting, IsReadyForMessages
<1> QED  BY <1>1, <1>2, <1>3, <1>4, <1>5, <1>6, <1>7, <1>8, <1>9, <1>10, <1>11, <1>12,
           <1>13, <1>14, <1>15, <1>16 DEF Next, Commands, Outside

\* No wake-up of messagePump is lost: whenever the pump waits without listening for
\* messages although its client is ready, ReadyStateChan or SubEventChan is full, or
\* a goroutine is on its way to tryUpdateReadyState, however RDY, FIN, REQ, pauses,
\* timeouts and the pump's own steps interleave.
THEOREM PumpAwake == Spec => []Awake
<1>1. Init => Awake
  BY DEF Init, Awake, Selecting
<1>2. Types /\ Awake /\ [Next]_vars => Awake'
  BY NextAwake
<1> QED  BY <1>1, <1>2, TypesInvariant, PTL DEF Spec

-----------------------------------------------------------------------------
(* The settings of the two goroutines.                                      *)

Idle == {"read", "answered", "wake"}

\* A step of IOLoop that leaves the settings, the event, the layers and the pump alone
\* and does not start an upgrade.
LEMMA AgreeStays ==
    ASSUME Agree, IoType,
           UNCHANGED <<hb, ticker, version, identifyChan, link, identifies, pump>>,
           \/ io' = io
           \/ io'.pc \in {"close", "closed"}
           \/ io.pc \in Idle /\ io'.pc \in Idle
    PROVE  Agree'
BY DEF Agree, Same, IoType, IoPC, Idle

\* A step of the pump that adopts nothing.
LEMMA AgreePump ==
    ASSUME Agree,
           UNCHANGED <<io, hb, ticker, version, identifyChan, link, identifies>>,
           pump'.hb = pump.hb, pump'.ticker = pump.ticker, pump'.version = pump.version,
           pump'.idOpen = pump.idOpen
    PROVE  Agree'
BY DEF Agree, Same

LEMMA IdentifyAgree ==
    ASSUME Types, Agree, NEW r \in Identify, IDENTIFY(r)
    PROVE  Agree'
<1> USE DEF IDENTIFY
<1>1. identifies' # 0 /\ (identifies' <= 1 => identifies = 0)
  BY DEF Types, SettingsType
<1>2. writer' \in {writer, {}} /\ layers' = layers
  BY DEF Refused, UpdateSettings, SetOutputBuffer
<1>3. layers' \subseteq Layer /\ writer' \subseteq Layer
  BY <1>2 DEF Agree
<1>4. ASSUME identifies = 0 PROVE writer' = layers' /\ layers' = {}
  BY <1>2, <1>4 DEF Agree
<1>5. ASSUME identifies = 0, io'.pc \notin {"close", "closed"}
      PROVE  identifyChan'.on /\ Same(identifyChan)' /\ pump'.idOpen
  <2>1. UpdateSettings(r)
    BY <1>5 DEF Fatal
  <2> QED  BY <1>5, <2>1 DEF Agree, UpdateSettings, Same
<1> QED  BY <1>1, <1>3, <1>4, <1>5 DEF Agree

LEMMA UpgradeAgree ==
    ASSUME Types, Agree, Upgrade
    PROVE  Agree'
<1> USE DEF Upgrade
<1> DEFINE l == Head(io.up)
<1>1. io.up \in Upgrades /\ io.up # << >>
  BY DEF Types, IoType
<1>2. /\ l \in Layer
      /\ l = "tls" \/ Tail(io.up) = << >>
      /\ Head(Tail(io.up)) # "tls" \/ Tail(io.up) = << >>
  BY <1>1, UpgradesFacts
<1>3. identifies # 0
  BY DEF Agree
<1>4. CASE UNCHANGED link /\ Fatal
  BY <1>4, AgreeStays DEF Fatal, Types
<1>5. CASE /\ layers' = layers \cup {l}
           /\ writer' = Through(l)
           /\ io' = [pc |-> IF Tail(io.up) = << >> THEN "read" ELSE "upgrade",
                     up |-> Tail(io.up)]
  <2>1. layers' \subseteq Layer /\ writer' \subseteq Layer
    BY <1>2, <1>5 DEF Agree, Through, Layer
  <2>2. ASSUME identifies' <= 1
        PROVE  /\ writer' = layers'
               /\ io'.pc = "upgrade" => layers' = {"tls"} /\ Head(io'.up) # "tls"
    <3>1. IF l = "tls" THEN layers = {} ELSE layers \subseteq {"tls"}
      BY <2>2 DEF Agree
    <3>2. writer' = layers'
      BY <1>5, <3>1 DEF Through
    <3>3. ASSUME io'.pc = "upgrade" PROVE layers' = {"tls"} /\ Head(io'.up) # "tls"
      BY <1>2, <1>5, <3>1, <3>3
    <3> QED  BY <3>2, <3>3
  <2>3. ASSUME identifies' <= 1
        PROVE  /\ identifyChan'.on => Same(identifyChan)' /\ pump'.idOpen
               /\ ~identifyChan'.on => Same(pump)'
    BY <2>3 DEF Agree, Same
  <2> QED  BY <1>3, <2>1, <2>2, <2>3 DEF Agree
<1> QED  BY <1>4, <1>5

LEMMA NextAgree ==
    ASSUME Types, Agree, [Next]_vars
    PROVE  Agree'
<1> USE DEF Types, Idle
<1>1. ASSUME NEW r \in Identify, IDENTIFY(r) PROVE Agree'
  BY <1>1, IdentifyAgree
<1>2. CASE AUTH
  BY <1>2, AgreeStays DEF AUTH, Reading, Done, Fatal
<1>3. CASE PUB \/ DPUB \/ MPUB
  <2>1. Reading /\ (Done \/ Fatal)
    BY <1>3 DEF PUB, DPUB, Publish, MPUB, readMPUB
  <2>2. UNCHANGED <<hb, ticker, version, identifyChan, link, identifies, pump>>
    BY <1>3 DEF PUB, DPUB, Publish, MPUB
  <2> QED  BY <2>1, <2>2, AgreeStays DEF Reading, Done, Fatal
<1>4. CASE SUB
  <2>1. Reading /\ (Done \/ Fatal)
    BY <1>4 DEF SUB
  <2>2. UNCHANGED <<hb, ticker, version, identifyChan, link, identifies, pump>>
    BY <1>4 DEF SUB
  <2> QED  BY <2>1, <2>2, AgreeStays DEF Reading, Done, Fatal
<1>5. CASE CLS
  BY <1>5, AgreeStays DEF CLS, SetReadyCount, Reading, Fatal
<1>6. ASSUME NEW n \in 0..(MaxRdyCount + 1), RDY(n) PROVE Agree'
  BY <1>6, AgreeStays DEF RDY, SetReadyCount, Reading, Done, Fatal
<1>7. ASSUME NEW back \in {0, 1}, Answer(back) PROVE Agree'
  BY <1>7, AgreeStays DEF Answer, Reading, Done
<1>8. CASE Upgrade
  BY <1>8, UpgradeAgree
<1>9. CASE Answered \/ Wake \/ Poke \/ Close
  BY <1>9, AgreeStays DEF Answered, Wake, Poke, Close, Done
<1>10. CASE Put \/ AuthExpires \/ processInFlightQueue \/ TimedOutMessage \/ initPQ \/ Empty
  BY <1>10, AgreeStays DEF Put, AuthExpires, processInFlightQueue, TimedOutMessage, initPQ,
                           Empty
<1>11. ASSUME NEW p \in BOOLEAN, doPause(p) PROVE Agree'
  BY <1>11, AgreeStays DEF doPause
<1>12. CASE PumpTop
  BY <1>12, AgreePump DEF PumpTop, Flush, PumpQuit, PumpType, Pump
<1>13. CASE PumpIdentify
  <2>1. /\ pump'.hb = identifyChan.hb /\ pump'.ticker = identifyChan.ticker
        /\ pump'.version = identifyChan.version
        /\ ~identifyChan'.on /\ identifyChan.on
    BY <1>13 DEF PumpIdentify, Adopted, Loop, NoEvent, PumpType, Pump
  <2> QED  BY <1>13, <2>1 DEF PumpIdentify, Agree, Same
<1>14. CASE PumpFlush \/ PumpHeartbeat
  BY <1>14, AgreePump DEF PumpFlush, PumpHeartbeat, Flush, PumpQuit, PumpType, Pump
<1>15. CASE PumpReady \/ PumpSub
  BY <1>15, AgreePump DEF PumpReady, PumpSub, Loop, PumpType, Pump
<1>16. CASE PumpMessage \/ SendingMessage \/ SendMessage \/ PumpSkip \/ PumpExit
  BY <1>16, AgreePump DEF PumpMessage, SendingMessage, SendMessage, PumpSkip, PumpExit,
                          Loop, PumpQuit, PumpType, Pump
<1>17. CASE UNCHANGED vars
  BY <1>17 DEF vars, Agree, Same
<1> QED  BY <1>1, <1>2, <1>3, <1>4, <1>5, <1>6, <1>7, <1>8, <1>9, <1>10, <1>11, <1>12,
           <1>13, <1>14, <1>15, <1>16, <1>17 DEF Next, Commands, Outside

\* After at most one IDENTIFY, client.Writer goes through all the layers that were
\* negotiated, and messagePump, once it has read the event, works with the settings
\* IOLoop made: whatever the IDENTIFY, and whenever the pump comes to read it.
THEOREM SettingsReachPump == Spec => []SettingsAgree
<1>1. Init => Agree
  BY DEF Init, Agree, Same, NoEvent
<1>2. Types /\ Agree /\ [Next]_vars => Agree'
  BY NextAgree
<1>3. Types /\ Agree => SettingsAgree
  BY DEF Agree, Same, SettingsAgree, Types, SettingsType
<1> QED  BY <1>1, <1>2, <1>3, TypesInvariant, PTL DEF Spec

-----------------------------------------------------------------------------
(* The policies.                                                            *)

\* A client has a topic created only behind the policies: whichever of PUB, DPUB, MPUB
\* and SUB does it, TLS has been negotiated when it is required, and the
\* authorizations CheckAuth let the command pass with are not stale.
THEOREM PoliciesComeFirst == Spec => PolicyFirst
<1> DEFINE A == made' # made => Secure /\ (authOn => auth' = "ok")
<1>1. ASSUME Types, CheckAuth(TRUE), authOn PROVE auth' = "ok"
  BY <1>1 DEF CheckAuth, IsAuthorized, HasAuthorizations, Types, PolicyType
<1>2. Types /\ [Next]_vars => [A]_vars
  <2> SUFFICES ASSUME Types, Next, made' # made PROVE Secure /\ (authOn => auth' = "ok")
    OBVIOUS
  <2>1. CASE PUB \/ DPUB \/ MPUB
    BY <1>1, <2>1 DEF PUB, DPUB, Publish, MPUB
  <2>2. CASE SUB
    BY <1>1, <2>2 DEF SUB
  <2>3. ~Commands => made' = made
    BY DEF Next, Upgrade, Answered, Wake, Poke, Close, Outside, Put, processInFlightQueue,
           TimedOutMessage, initPQ, Empty, doPause, AuthExpires, PumpTop, PumpFlush,
           PumpReady, PumpSub, PumpIdentify,
           PumpHeartbeat, PumpMessage, SendingMessage, SendMessage, PumpSkip, PumpExit
  <2> QED  BY <2>1, <2>2, <2>3 DEF Commands, IDENTIFY, AUTH, CLS, RDY, Answer
<1> QED  BY <1>2, TypesInvariant, PTL DEF Spec, PolicyFirst
=============================================================================
