---------------------------- MODULE MCStufOutbound ----------------------------
(* Small instances of StufOutbound: two workers, so that a request, a retry   *)
(* job and another retry job of the same message meet.                        *)
EXTENDS StufOutbound, TLC

CONSTANTS m1, m2, w1, w2
==============================================================================
