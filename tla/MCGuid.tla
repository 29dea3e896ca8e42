------------------------------- MODULE MCGuid -------------------------------
(***************************************************************************)
(* Two factories, the same topic on two nsqds with different IDs.  Two     *)
(* sequence bits leave four ids a millisecond, so the sequence wraps; the  *)
(* epoch lies inside the clock's range, so negative timestamps happen.     *)
(***************************************************************************)
EXTENDS Guid, TLC

CONSTANTS f1, f2

MCFactory == {f1, f2}
MCNodeID == (f1 :> 0) @@ (f2 :> 1)
MCTime == 0 .. 3
=============================================================================
