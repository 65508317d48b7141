------------------------------ MODULE MCRunLoop ------------------------------
(* A small instance of RunLoop for TLC: no --count, and one that is met before the end of the input. *)
EXTENDS RunLoop

MCCounts == {Unlimited, 2}
===============================================================================
