----------------------------- MODULE MCResources -----------------------------
(* Two users, one of them with a session, two links, two instances and one   *)
(* recommendation request.                                                   *)
EXTENDS Resources, TLC

CONSTANTS u1, u2, s1, l1, l2

MCOwnerOf == s1 :> u2

Body(u, l, s, d) == [user |-> u, url |-> l, session |-> s, days |-> d]

MCCreates ==
  { Body(u1, l1, Null, Null), Body(u1, l2, s1, Null), Body(u1, l2, Null, 1),
    Body(u2, l1, s1, 2) }

Item(l, d) == [url |-> l, fit |-> TRUE, days |-> d]
Unfit(l) == [url |-> l, fit |-> FALSE, days |-> 1]

MCAnswers ==
  { << >>, <<Item(l1, 3), Item(l1, 1), Item(l2, 0)>>, <<Unfit(l2), Item(l2, 2)>> }
=============================================================================
