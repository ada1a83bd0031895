------------------------------- MODULE Counter -------------------------------
(***************************************************************************)
(* A counter in Redis as AuthService.incr() uses it: INCR, and EXPIRE when *)
(* INCR has created the key.  The two are calls of their own, so a counter *)
(* can be seen, and left, between them.                                    *)
(***************************************************************************)
EXTENDS Integers

Counter(limit, time) == [count : 0..limit, ttl : 0..time]

\* There is no key.
NoCounter == [count |-> 0, ttl |-> 0]

\* A key without a TTL stays until it is deleted.
Endless(c) == c.count > 0 /\ c.ttl = 0

Incr(c) == [c EXCEPT !.count = @ + 1]

Expire(c, time) == IF c.count = 0 THEN c ELSE [c EXCEPT !.ttl = time]

\* The counter one unit of time later.
Aged(c) ==
  CASE c.ttl = 0 -> c
    [] c.ttl = 1 -> NoCounter
    [] OTHER     -> [c EXCEPT !.ttl = @ - 1]

=============================================================================
