------------------------------ MODULE MCTopic ------------------------------
(***************************************************************************)
(* Small instances of Topic: a delayed message m0, and m1 and m2 published *)
(* alone or together.                                                      *)
(***************************************************************************)
EXTENDS Topic, TLC

CONSTANTS m0, m1, m2, c1, c2

Calls == {<<m0>>, <<m1>>, <<m1, m2>>}
=============================================================================
