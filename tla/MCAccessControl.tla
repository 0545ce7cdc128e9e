--------------------------- MODULE MCAccessControl ---------------------------
(****************************************************************************)
(* Instances of AccessControl for TLC.                                      *)
(****************************************************************************)
EXTENDS AccessControl, TLC

CONSTANTS c1, pay, info, sub

Rule(rate, cap) == [rate_per_micro |-> rate, max_capacity |-> cap]
Grant(c, at, id, content) ==
  [target |-> c, created_at |-> at, id |-> id, content |-> content]
Request(id, c, m, amount, valid) ==
  [id |-> id, client |-> c, method |-> m, amount |-> amount, valid |-> valid]

OnePayment == {Request(1, c1, pay, 1, TRUE)}

(* A rate under "ALL".                                                      *)
AllRated == {Grant(c1, 1, 1, [methods |-> (ALL :> Rule(0, 2)),
                              quota |-> None, control |-> None])}

(* A payment, and a call that spends nothing and that nobody handles; a     *)
(* grant for payments alone, with a rate and a quota; one that ties with it *)
(* on the second, for any method, without the rate and with a smaller       *)
(* quota; and a later one that does not parse.                              *)
TwoCalls == {Request(1, c1, pay, 2, TRUE), Request(2, c1, info, 0, TRUE)}
Replacing ==
  {Grant(c1, 1, 2, [methods |-> (pay :> Rule(0, 1)),
                    quota |-> Rule(0, 3), control |-> None]),
   Grant(c1, 1, 3, [methods |-> None, quota |-> Rule(0, 2), control |-> None]),
   Grant(c1, 2, 1, Unparseable)}
=============================================================================
