---------------------------- MODULE MCRateCounter ----------------------------
(****************************************************************************)
(* Instances of RateCounter for TLC: a plain quota (rate 0, the default),   *)
(* and a limit that refills.                                                *)
(****************************************************************************)
EXTENDS RateCounter

PlainQuota == [rate_per_micro |-> 0, max_capacity |-> 5]
Slow == [rate_per_micro |-> 1, max_capacity |-> 2]
=============================================================================
