------------------------------ MODULE MCLookup ------------------------------
(* A small instance of Lookup: one nsqd, with two connections one after the other. *)
EXTENDS Lookup, TLC

CONSTANTS a, c1
=============================================================================
