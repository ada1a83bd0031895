------------------------------ MODULE MCRoadmap ------------------------------
(* Two chat requests and one roadmap request on a session, and one answer of *)
(* each kind the validation tells apart.                                     *)
EXTENDS Roadmap, TLC

Day(y, m, d) == [year |-> y, month |-> m, day |-> d]
Made(n, date) == [made |-> TRUE, orderNo |-> n, date |-> date]

MCAnswer ==
  { [title |-> "words", steps |-> <<Made(2, Null), Made(1, Day(2028, 2, 29))>>],
    [title |-> "words", steps |-> <<Made(1, Day(2026, 2, 29))>>],
    [title |-> "words", steps |-> <<Made(1, Malformed)>>],
    [title |-> "words", steps |-> <<Made(1, Day(2026, 13, 1))>>],
    [title |-> "words", steps |-> <<[made |-> FALSE, orderNo |-> 1, date |-> Null]>>],
    [title |-> "blank", steps |-> <<Made(3, Day(2100, 2, 28))>>],
    [title |-> Null, steps |-> <<>>],
    [title |-> Null, steps |-> Null] }

MCSymmetry == Permutations(Handler)
=============================================================================
