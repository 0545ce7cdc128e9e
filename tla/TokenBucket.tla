----------------------------- MODULE TokenBucket -----------------------------
(****************************************************************************)
(* What the protocol document promises of a limit                           *)
(* (nip-nostr-wallet-connect-controller.md:98-106): a bucket that starts    *)
(* with max_capacity tokens, gains rate_per_micro tokens every microsecond, *)
(* never holds more than max_capacity, and from which usage takes tokens    *)
(* and a refund puts them back.                                             *)
(****************************************************************************)
EXTENDS Integers

CONSTANTS Rate, Capacity,  \* natural numbers
          Tokens           \* the amounts one call may take

VARIABLE tokens

Full(n) == IF n < Capacity THEN n ELSE Capacity

Init == tokens = Capacity
Refill == tokens' = Full(tokens + Rate)
Take(a) == a <= tokens /\ tokens' = tokens - a
PutBack(a) == tokens' = Full(tokens + a)

Next == Refill \/ \E a \in Tokens : Take(a) \/ PutBack(a)
Spec == Init /\ [][Next]_tokens
=============================================================================
