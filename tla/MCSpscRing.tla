----------------------------- MODULE MCSpscRing -----------------------------
(* A ring of a few slots and two messages: small enough to wrap around and *)
(* to be full and empty many times.                                        *)
EXTENDS SpscRing

CONSTANTS m1, m2
MCMsg == {m1, m2}
=============================================================================
