--------------------------- MODULE MCServiceToken ---------------------------
(* A small instance of ServiceToken: two ticks to a second, one lifetime   *)
(* on each side of the limit Interval has at 90 seconds.                   *)
EXTENDS ServiceToken

Greenwich == [offset |-> 0, dstFrom |-> 1000, dstShift |-> 0]
MCLifetimes == {80, 100}
=============================================================================
