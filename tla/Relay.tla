-------------------------------- MODULE Relay --------------------------------
(***************************************************************************)
(* What a consumer that stores messages elsewhere promises: a message is   *)
(* finished, and so forgotten by nsqd, only once it is stored, and what is *)
(* stored stays stored.                                                    *)
(***************************************************************************)
CONSTANT Msg

VARIABLES
    stored,     \* messages that are safe at the destination
    finished    \* messages nsqd has been told to forget

vars == <<stored, finished>>

Init == stored = {} /\ finished = {}

Store(S) ==
    /\ stored' = stored \cup S
    /\ UNCHANGED finished

Finish(m) ==
    /\ m \in stored
    /\ finished' = finished \cup {m}
    /\ UNCHANGED stored

Next == (\E S \in SUBSET Msg : Store(S)) \/ (\E m \in Msg : Finish(m))

Spec == Init /\ [][Next]_vars

\* Nothing is finished that is not stored.
StoredFirst == finished \subseteq stored
=============================================================================
