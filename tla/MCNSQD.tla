------------------------------- MODULE MCNSQD -------------------------------
(* Small instances of NSQD: one topic name, ephemeral or not, one channel name. *)
EXTENDS NSQD, TLC

CONSTANTS t1, c1, r1, r2

Either == {{}, {t1}}
=============================================================================
