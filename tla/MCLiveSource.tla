----------------------------- MODULE MCLiveSource -----------------------------
(* A small instance of LiveSource for TLC: no --count, one packet, some packets. *)
EXTENDS LiveSource

MCCounts == {Unlimited, 1, 3}
===============================================================================
