---------------------------- MODULE MCDiskQueue ----------------------------
(***************************************************************************)
(* Small instances of DiskQueue: messages of one, two and three cells, in  *)
(* files that end with the message that takes them past two.               *)
(***************************************************************************)
EXTENDS DiskQueue, TLC

CONSTANTS a, b, c

MCSize == (a :> 1) @@ (b :> 2) @@ (c :> 3)

\* Operations may fail; or the process may be killed, and a write may fail; or the
\* machine may lose power, and nothing fails.  A power failure after a failed write
\* or fsync, which close the file, or after Close, which fsyncs nothing, may lose
\* what the metadata count.
Failing == [exits |-> {"close", "delete"}, crashes |-> {},
            fails |-> {"write", "fsync", "persist"}]
Killed == [exits |-> {}, crashes |-> {"kill"}, fails |-> {"write"}]
PowerLoss == [exits |-> {"delete"}, crashes |-> {"kill", "power"}, fails |-> {}]
FailingOrCrashing == {Failing, Killed, PowerLoss}
=============================================================================
