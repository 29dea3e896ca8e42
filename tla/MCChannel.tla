----------------------------- MODULE MCChannel -----------------------------
(***************************************************************************)
(* Small instances of Channel.  Messages and clients are interchangeable;  *)
(* the symmetry is used by the runs that check no liveness.                *)
(***************************************************************************)
EXTENDS Channel, TLC

CONSTANTS m1, m2, c1, c2

Symmetry == Permutations(Msg) \cup Permutations(Client)

Used == Cardinality({m \in Msg : loc[m][1] # "new"})

\* Two messages with one client, or one message with two clients.
SmallWorkload == Used + Cardinality({c \in Client : state[c] # "init"}) <= 3

\* While the channel exits with consumers connected, one message and no
\* /channel/empty request; without consumers, everything.  In a channel that was
\* emptied, one of the messages is delivered once at most.
SmallAdmin ==
    /\ Exiting /\ ~quiet => empties = 0 /\ Used <= 1
    /\ empties > 0 => \E m \in Msg : Attempts[m] <= 1
=============================================================================
